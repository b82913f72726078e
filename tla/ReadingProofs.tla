---------------------------- MODULE ReadingProofs ----------------------------
(***************************************************************************)
(* The parts of Panels that show in order what others write, proved for    *)
(* all values of the constants: the command log with its panel, and the    *)
(* pages of a value.                                                       *)
(***************************************************************************)
EXTENDS Panels, Sequences, FiniteSetTheorems, WellFoundedInduction, TLAPS

-----------------------------------------------------------------------------
(* CommandLog: log, next, ring, push, events, panel and calm are s1 to s7.  As long as
   commands come one at a time, the rows shown with the events that have still to be shown in
   front of them are the log, with the entry in front that is emitted and not yet stored; both
   as far as the panel shows them, and the events to come are those above the highest number
   seen (ListIsLog).  A snapshot that is on its way is the log, and has every event that is
   still under way (SnapIsLog). *)

LogBounds == {MaxLogs, MaxId, Limit, Events} \subseteq Nat \ {0}

PushRecords == [st : {"idle", "numbered", "emitted"}, entry : Log!Entry]
PanelRecords == [open : BOOLEAN, list : Seq(Log!Entry), seen : 0..MaxId,
                 load : {"no", "asked", "answered"}, snap : Seq(Log!Entry),
                 clear : {"no", "asked", "answered"}, listen : {"off", "asked", "on"},
                 loaded : BOOLEAN]
LogTyped ==
  /\ s1 \in Log!Logs /\ s2 \in [Log!Logs -> 1..MaxId + 1]
  /\ s3 \in Seq(Log!Entry) /\ Len(s3) <= Limit
  /\ s4 \in [Writers -> PushRecords]
  /\ s5 \in Seq(Log!Entry) /\ Len(s5) <= Events
  /\ s6 \in PanelRecords /\ Len(s6.list) <= Limit /\ Len(s6.snap) <= Limit
  /\ s7 \in BOOLEAN

\* A log's numbers are given once, and the ring's are the newest log's.
Numbers ==
  /\ \A i \in DOMAIN s3 : s3[i].log = s1 /\ s3[i].id < s2[s1]
  /\ \A i, j \in DOMAIN s3 : s3[i].id = s3[j].id => i = j
  /\ \A w \in Writers : ~Log!Idle(w) =>
       /\ s4[w].entry.id < s2[s4[w].entry.log]
       /\ s4[w].entry.log = s1 => \A i \in DOMAIN s3 : s3[i].id # s4[w].entry.id
       /\ \A v \in Writers :
            /\ ~Log!Idle(v) /\ s4[v].entry.log = s4[w].entry.log
            /\ s4[v].entry.id = s4[w].entry.id
            => v = w

\* No two rows of one number, and none that is higher than what was seen.
Apart(q) == \A i, j \in DOMAIN q : q[i].id = q[j].id => i = j
SnapApart == s6.load = "answered" => Apart(s6.snap)
ListApart == s6.open /\ s6.loaded =>
  Apart(s6.list) /\ \A i \in DOMAIN s6.list : s6.list[i].id <= s6.seen
NotLoaded == s6.load # "no" => ~s6.loaded

\* In the calm one writer at a time has the number given last.
OneBusy == s7 => \A w \in Writers : ~Log!Idle(w) =>
  /\ s4[w].entry.log = s1 /\ s4[w].entry.id = s2[s1] - 1
  /\ \A v \in Writers : ~Log!Idle(v) => v = w
NoneEmitted == \A w \in Writers : s4[w].st # "emitted"

\* The snapshot that is on its way is the log, and what is still under way is in it.
SnapIsLog == s7 /\ s6.load = "answered" =>
  /\ NoneEmitted /\ s6.clear # "answered"
  /\ Len(s6.snap) = Len(s3) /\ \A i \in DOMAIN s3 : s6.snap[i] = s3[Len(s3) + 1 - i]
  /\ \A i \in DOMAIN s5 : \E j \in DOMAIN s3 : s5[i].id <= s3[j].id

\* The list once the events after the k-th have arrived; the log with an entry that is
\* emitted; both as far as the panel shows them.
Awaited(q, k, l) ==
  [i \in 1..Len(q) - k + Len(l) |-> IF i <= Len(q) - k THEN q[Len(q) + 1 - i] ELSE l[i - (Len(q) - k)]]
Newest(q) == [i \in 1..Len(q) |-> q[Len(q) + 1 - i]]
WithFirst(e, q) == [i \in 1..Len(q) + 1 |-> IF i = 1 THEN e ELSE q[Len(q) + 2 - i]]
Same(p, m, q, n) == \A i \in 1..Limit : (i <= m) = (i <= n) /\ (i <= m => p[i] = q[i])

Ahead(k) ==
  LET n == Len(s5)
      m == n - k + Len(s6.list)
  IN
  /\ \A i \in 1..k : s5[i].id <= s6.seen
  /\ \A i \in k + 1..n : /\ s5[i].id > s6.seen
                         /\ \A j \in i + 1..n : s5[j].id > s5[i].id
  /\ s6.seen < s2[s1] /\ \A i \in DOMAIN s5 : s5[i].id < s2[s1]
  /\ \A w \in Writers : s4[w].st = "numbered" =>
       s6.seen < s4[w].entry.id /\ \A i \in DOMAIN s5 : s5[i].id < s4[w].entry.id
  /\ s6.listen # "on" => k = n /\ NoneEmitted
  /\ NoneEmitted => Same(Awaited(s5, k, s6.list), m, Newest(s3), Len(s3))
  /\ \A w \in Writers : s4[w].st = "emitted" =>
       Same(Awaited(s5, k, s6.list), m, WithFirst(s4[w].entry, s3), Len(s3) + 1)
ListIsLog == s7 /\ s6.open /\ s6.loaded =>
  IF s6.clear = "answered" THEN s3 = <<>> /\ s5 = <<>> /\ NoneEmitted
  ELSE \E k \in 0..Len(s5) : Ahead(k)

LogInv == /\ LogTyped /\ Numbers /\ SnapApart /\ ListApart /\ NotLoaded
          /\ OneBusy /\ SnapIsLog /\ ListIsLog

-----------------------------------------------------------------------------
\* A nonempty set of natural numbers has a least one.
LEMMA HasLeast ==
  ASSUME NEW S, S \subseteq Nat, S # {}
  PROVE  \E m \in S : \A n \in S : m <= n
<1>1. PICK m \in S : \A n \in S : ~ (<<n, m>> \in OpToRel(<, Nat))
  BY NatLessThanWellFounded, WFMin
<1>2. ASSUME NEW n \in S PROVE m <= n
  <2>1. ~ (<<n, m>> \in OpToRel(<, Nat))
    BY <1>1
  <2>2. m \in Nat /\ n \in Nat
    OBVIOUS
  <2>3. ~(n < m)
    BY <2>1, <2>2 DEF OpToRel
  <2> QED
    BY <2>2, <2>3
<1> QED
  BY <1>1, <1>2

\* And one that is bounded has a highest one.
LEMMA HasHighest ==
  ASSUME NEW S, NEW b \in Nat, S \subseteq 0..b, S # {}
  PROVE  \E m \in S : \A n \in S : n <= m
<1> DEFINE U == {m \in Nat : \A n \in S : n <= m}
<1>1. b \in U /\ U \subseteq Nat
  OBVIOUS
<1>2. PICK m \in U : \A n \in U : m <= n
  BY <1>1, HasLeast
<1>3. SUFFICES ASSUME m \notin S PROVE FALSE
  BY <1>2
<1>4. PICK x \in S : x \in 0..b
  OBVIOUS
<1>5. m \in Nat /\ x <= m /\ x # m
  BY <1>2, <1>3, <1>4
<1>6. m - 1 \in Nat /\ \A n \in S : n <= m - 1
  <2>1. m - 1 \in Nat
    BY <1>4, <1>5
  <2>2. ASSUME NEW n \in S PROVE n <= m - 1
    <3>1. n \in Nat /\ n <= m /\ n # m
      BY <1>2, <1>3
    <3> QED
      BY <1>5, <3>1
  <2> QED
    BY <2>1, <2>2
<1> QED
  BY <1>2, <1>5, <1>6

\* The highest number of a log is one of its entries'.
LEMMA TopIsThere ==
  ASSUME LogBounds, NEW q \in Seq(Log!Entry), q # <<>>
  PROVE  \E i \in DOMAIN q : Log!TopOf(q) = q[i].id /\ \A j \in DOMAIN q : q[j].id <= q[i].id
<1> DEFINE ids == {q[i].id : i \in DOMAIN q}
<1>1. ids \subseteq 0..MaxId /\ ids # {} /\ MaxId \in Nat
  <2>1. ASSUME NEW i \in DOMAIN q PROVE q[i].id \in 1..MaxId
    <3>1. q[i] \in Log!Entry
      OBVIOUS
    <3> QED
      BY <3>1 DEF Log!Entry
  <2>2. DOMAIN q = 1..Len(q) /\ Len(q) \in Nat /\ Len(q) # 0
    OBVIOUS
  <2>3. 1 \in DOMAIN q
    BY <2>2
  <2>4. MaxId \in Nat
    BY DEF LogBounds
  <2> QED
    BY <2>1, <2>3, <2>4
<1>2. \E m \in ids : \A n \in ids : n <= m
  BY <1>1, HasHighest
<1>3. Log!TopOf(q) = CHOOSE m \in ids : \A n \in ids : n <= m
  BY DEF Log!TopOf
<1>4. Log!TopOf(q) \in ids /\ \A n \in ids : n <= Log!TopOf(q)
  <2> HIDE DEF ids
  <2> QED
    BY <1>2, <1>3
<1> QED
  BY <1>4

LEMMA TopTyped == ASSUME LogBounds, NEW q \in Seq(Log!Entry) PROVE Log!TopOf(q) \in 0..MaxId
<1>1. CASE q = <<>>
  BY <1>1 DEF Log!TopOf, LogBounds
<1>2. CASE q # <<>>
  <2>1. PICK i \in DOMAIN q : Log!TopOf(q) = q[i].id
    BY <1>2, TopIsThere
  <2>2. q[i] \in Log!Entry
    OBVIOUS
  <2> QED
    BY <2>1, <2>2 DEF Log!Entry
<1> QED
  BY <1>1, <1>2

\* Rows as far as the panel shows them.
LEMMA NewestTyped ==
  ASSUME LogBounds, NEW q \in Seq(Log!Entry)
  PROVE  /\ Log!NewestFirst(q) \in Seq(Log!Entry)
         /\ Len(Log!NewestFirst(q)) = IF Len(q) > Limit THEN Limit ELSE Len(q)
         /\ Len(Log!NewestFirst(q)) <= Limit
         /\ \A i \in DOMAIN Log!NewestFirst(q) : i \in DOMAIN q /\ Log!NewestFirst(q)[i] = q[i]
<1>1. PICK m : m = IF Len(q) > Limit THEN Limit ELSE Len(q)
  OBVIOUS
<1>2. m \in Nat /\ m <= Len(q) /\ m <= Limit /\ Len(q) \in Nat /\ DOMAIN q = 1..Len(q)
  BY <1>1 DEF LogBounds
<1>3. Log!NewestFirst(q) = SubSeq(q, 1, m)
  BY <1>1 DEF Log!NewestFirst
<1>4. PICK p : p = SubSeq(q, 1, m)
  OBVIOUS
<1>5. p \in Seq(Log!Entry) /\ Len(p) = m /\ DOMAIN p = 1..m /\ \A i \in 1..m : p[i] = q[i]
  BY <1>2, <1>4
<1>6. \A i \in 1..m : i \in 1..Len(q)
  BY <1>2
<1> QED
  BY <1>1, <1>2, <1>3, <1>4, <1>5, <1>6

LEMMA ReverseTyped ==
  ASSUME NEW q \in Seq(Log!Entry)
  PROVE  /\ Log!Reverse(q) \in Seq(Log!Entry) /\ Len(Log!Reverse(q)) = Len(q)
         /\ \A i \in 1..Len(q) : Log!Reverse(q)[i] = q[Len(q) + 1 - i]
<1>1. Len(q) \in Nat /\ DOMAIN q = 1..Len(q)
  OBVIOUS
<1>2. \A i \in 1..Len(q) : Len(q) - i + 1 \in 1..Len(q) /\ Len(q) - i + 1 = Len(q) + 1 - i
  BY <1>1
<1>3. PICK p : p = [i \in 1..Len(q) |-> q[Len(q) - i + 1]]
  OBVIOUS
<1>4. \A i \in 1..Len(q) : p[i] = q[Len(q) + 1 - i] /\ p[i] \in Log!Entry
  BY <1>1, <1>2, <1>3
<1>5. p \in [1..Len(q) -> Log!Entry]
  BY <1>3, <1>4
<1>6. p \in Seq(Log!Entry) /\ Len(p) = Len(q)
  BY <1>1, <1>5
<1> QED
  BY <1>3, <1>4, <1>6 DEF Log!Reverse

\* A row in front.
LEMMA FirstTyped ==
  ASSUME NEW q \in Seq(Log!Entry), NEW e \in Log!Entry
  PROVE  /\ <<e>> \o q \in Seq(Log!Entry) /\ Len(<<e>> \o q) = Len(q) + 1
         /\ (<<e>> \o q)[1] = e /\ \A i \in 1..Len(q) : (<<e>> \o q)[i + 1] = q[i]
OBVIOUS

\* The ring with one more entry.
RingOf(p, q, e) ==
  /\ p \in Seq(Log!Entry) /\ Len(p) = IF Len(q) = Limit THEN Limit ELSE Len(q) + 1
  /\ Len(p) <= Limit /\ p[Len(p)] = e /\ Len(p) # 0
  /\ \A i \in 1..Len(p) - 1 : /\ p[i] = q[Len(q) - Len(p) + 1 + i]
                              /\ Len(q) - Len(p) + 1 + i \in DOMAIN q

LEMMA RingTyped ==
  ASSUME LogBounds, NEW q \in Seq(Log!Entry), NEW e \in Log!Entry, Len(q) <= Limit
  PROVE  RingOf(Log!Drained(Append(q, e)), q, e)
<1> SUFFICES ASSUME NEW p, p = Log!Drained(Append(q, e))
             PROVE  /\ p \in Seq(Log!Entry) /\ Len(p) = IF Len(q) = Limit THEN Limit ELSE Len(q) + 1
                    /\ Len(p) <= Limit /\ p[Len(p)] = e /\ Len(p) # 0
                    /\ \A i \in 1..Len(p) - 1 : /\ p[i] = q[Len(q) - Len(p) + 1 + i]
                                                /\ Len(q) - Len(p) + 1 + i \in DOMAIN q
  BY DEF RingOf
<1>1. PICK r : r = Append(q, e)
  OBVIOUS
<1>2. /\ r \in Seq(Log!Entry) /\ Len(r) = Len(q) + 1 /\ Len(q) \in Nat /\ r # <<>>
      /\ r[Len(q) + 1] = e /\ \A i \in 1..Len(q) : r[i] = q[i]
      /\ Limit \in Nat \ {0} /\ DOMAIN q = 1..Len(q)
  BY <1>1 DEF LogBounds
<1>3. CASE Len(q) = Limit
  <2>1. p = Tail(r)
    BY <1>1, <1>2, <1>3 DEF Log!Drained
  <2>2. /\ p \in Seq(Log!Entry) /\ Len(p) = Len(q) /\ \A i \in 1..Len(q) : p[i] = r[i + 1]
    BY <1>2, <2>1
  <2>3. \A i \in 1..Len(q) - 1 : p[i] = q[1 + i] /\ 1 + i \in 1..Len(q)
    BY <1>2, <2>2
  <2> QED
    BY <1>2, <1>3, <2>2, <2>3
<1>4. CASE Len(q) # Limit
  <2>4. PICK n \in Nat, m \in Nat : n = Len(q) /\ m = Limit /\ n <= m
    BY <1>2
  <2>1. ~(Len(q) + 1 > Limit)
    BY <1>4, <2>4
  <2>2. p = r
    BY <1>1, <1>2, <2>1 DEF Log!Drained
  <2>3. /\ p \in Seq(Log!Entry) /\ Len(p) = n + 1 /\ p[n + 1] = e /\ n + 1 <= m
        /\ \A i \in 1..n : p[i] = q[i]
    <3>1. n + 1 <= m
      BY <1>4, <2>4
    <3>2. \A i \in 1..n : r[i] = q[i]
      BY <1>2, <2>4
    <3> QED
      BY <1>2, <2>2, <2>4, <3>1, <3>2
  <2>5. ASSUME NEW i \in 1..Len(p) - 1
        PROVE  p[i] = q[Len(q) - Len(p) + 1 + i] /\ Len(q) - Len(p) + 1 + i \in DOMAIN q
    <3>1. i \in 1..n /\ Len(q) - Len(p) + 1 + i = i
      BY <2>3, <2>4
    <3> QED
      BY <1>2, <2>3, <2>4, <3>1
  <2> QED
    BY <1>4, <2>3, <2>4, <2>5
<1> QED
  BY <1>3, <1>4

-----------------------------------------------------------------------------
LEMMA AwaitedAt ==
  ASSUME NEW q, NEW k, NEW l, NEW i \in 1..Len(q) - k + Len(l)
  PROVE  Awaited(q, k, l)[i] = IF i <= Len(q) - k THEN q[Len(q) + 1 - i] ELSE l[i - (Len(q) - k)]
BY DEF Awaited

\* An entry is emitted: it is the next of the list and the next of the log.
LEMMA EmitSame ==
  ASSUME LogBounds, NEW q \in Seq(Log!Entry), NEW e \in Log!Entry, NEW l \in Seq(Log!Entry),
         NEW r \in Seq(Log!Entry), NEW k \in 0..Len(q),
         Same(Awaited(q, k, l), Len(q) - k + Len(l), Newest(r), Len(r))
  PROVE  Same(Awaited(Append(q, e), k, l), Len(Append(q, e)) - k + Len(l), WithFirst(e, r), Len(r) + 1)
<1>0. PICK t : t = Append(q, e)
  OBVIOUS
<1>1. PICK a \in Nat, b \in Nat, c \in Nat : a = Len(q) /\ b = Len(l) /\ c = Len(r) /\ t = Append(q, e)
  BY <1>0
<1>2. /\ t \in Seq(Log!Entry) /\ Len(t) = a + 1 /\ t[a + 1] = e /\ \A i \in 1..a : t[i] = q[i]
      /\ k \in 0..a /\ Limit \in Nat
  BY <1>1 DEF LogBounds
<1>3. ASSUME NEW i \in 1..Limit
      PROVE  /\ (i <= a + 1 - k + b) = (i <= c + 1)
             /\ i <= a + 1 - k + b => Awaited(t, k, l)[i] = WithFirst(e, r)[i]
  <2>1. CASE i = 1
    <3>1. Awaited(t, k, l)[1] = e
      BY <1>1, <1>2 DEF Awaited
    <3>2. WithFirst(e, r)[1] = e
      BY <1>1 DEF WithFirst
    <3> QED
      BY <1>1, <1>2, <2>1, <3>1, <3>2
  <2>2. CASE i # 1
    <3>1. PICK j \in 1..Limit : i = j + 1
      BY <1>2, <2>2
    <3>2. /\ (j <= a - k + b) = (j <= c)
          /\ j <= a - k + b => Awaited(q, k, l)[j] = Newest(r)[j]
      BY <1>1, <3>1 DEF Same
    <3>3. (i <= a + 1 - k + b) = (j <= a - k + b) /\ (i <= c + 1) = (j <= c)
      BY <1>1, <1>2, <3>1
    <3>4. ASSUME j <= a - k + b, j <= c PROVE Awaited(t, k, l)[i] = WithFirst(e, r)[i]
      <4>1. Newest(r)[j] = r[c + 1 - j]
        BY <1>1, <3>1, <3>4 DEF Newest
      <4>2. WithFirst(e, r)[i] = r[c + 1 - j]
        BY <1>1, <1>2, <3>1, <3>4 DEF WithFirst
      <4>3. Awaited(q, k, l)[j] = IF j <= a - k THEN q[a + 1 - j] ELSE l[j - (a - k)]
        <5>1. j \in 1..Len(q) - k + Len(l)
          BY <1>1, <1>2, <3>1, <3>4
        <5>2. Awaited(q, k, l)[j] = IF j <= Len(q) - k THEN q[Len(q) + 1 - j] ELSE l[j - (Len(q) - k)]
          BY <5>1, AwaitedAt
        <5> QED
          BY <1>1, <5>2
      <4>4. Awaited(t, k, l)[i] = IF i <= a + 1 - k THEN t[a + 2 - i] ELSE l[i - (a + 1 - k)]
        <5>1. Len(t) = a + 1 /\ Len(l) = b /\ k \in 0..a
          BY <1>1, <1>2
        <5>2. i \in 1..Len(t) - k + Len(l)
          BY <3>1, <3>4, <5>1
        <5>3. Awaited(t, k, l)[i] = IF i <= Len(t) - k THEN t[Len(t) + 1 - i] ELSE l[i - (Len(t) - k)]
          BY <5>2, AwaitedAt
        <5>4. a + 1 + 1 - i = a + 2 - i
          BY <3>1
        <5> QED
          BY <5>1, <5>3, <5>4
      <4>5. CASE j <= a - k
        <5>1. a + 2 - i = a + 1 - j /\ a + 1 - j \in 1..a /\ i <= a + 1 - k
          <6>1. k \in 0..a
            BY <1>2
          <6> QED
            BY <3>1, <4>5, <6>1
        <5> QED
          BY <1>2, <3>2, <3>4, <4>1, <4>2, <4>3, <4>4, <4>5, <5>1
      <4>6. CASE ~(j <= a - k)
        <5>1. /\ j \in Nat /\ k \in Nat /\ i = j + 1
              /\ j + 1 - (a + 1 - k) = j - (a - k) /\ ~(j + 1 <= a + 1 - k)
          <6>1. j \in Nat /\ k \in Nat /\ i = j + 1
            BY <1>2, <3>1
          <6>2. ~(j + 1 <= a + 1 - k)
            BY <4>6, <6>1
          <6> QED
            BY <6>1, <6>2
        <5> QED
          BY <3>2, <3>4, <4>1, <4>2, <4>3, <4>4, <4>6, <5>1
      <4> QED
        BY <4>5, <4>6
    <3> QED
      BY <3>2, <3>3, <3>4
  <2> QED
    BY <2>1, <2>2
<1> QED
  BY <1>1, <1>2, <1>3 DEF Same

\* It is stored.
LEMMA StoreSame ==
  ASSUME LogBounds, NEW r \in Seq(Log!Entry), NEW e \in Log!Entry, Len(r) <= Limit, NEW p, NEW m,
         Same(p, m, WithFirst(e, r), Len(r) + 1), NEW t, t = Log!Drained(Append(r, e))
  PROVE  Same(p, m, Newest(t), Len(t))
<1>0. RingOf(t, r, e)
  BY RingTyped
<1>1. PICK c \in Nat, d \in Nat : c = Len(r) /\ d = Len(t)
  BY <1>0 DEF RingOf
<1>2. /\ d = (IF c = Limit THEN Limit ELSE c + 1) /\ t[d] = e /\ d # 0
      /\ \A i \in 1..d - 1 : t[i] = r[c - d + 1 + i]
  <2>1. /\ Len(t) = (IF Len(r) = Limit THEN Limit ELSE Len(r) + 1) /\ t[Len(t)] = e /\ Len(t) # 0
        /\ \A i \in 1..Len(t) - 1 : t[i] = r[Len(r) - Len(t) + 1 + i]
    BY <1>0 DEF RingOf
  <2> QED
    BY <1>1, <2>1
<1>3. c <= Limit /\ Limit \in Nat \ {0}
  BY <1>1 DEF LogBounds
<1>4. ASSUME NEW i \in 1..Limit
      PROVE  /\ (i <= c + 1) = (i <= d)
             /\ i <= c + 1 => WithFirst(e, r)[i] = Newest(t)[i]
  <2>1. (i <= c + 1) = (i <= d)
    BY <1>2, <1>3
  <2>2. ASSUME i <= d, i <= c + 1 PROVE WithFirst(e, r)[i] = Newest(t)[i]
    <3>1. Newest(t)[i] = t[d + 1 - i]
      BY <1>1, <2>2 DEF Newest
    <3>2. WithFirst(e, r)[i] = IF i = 1 THEN e ELSE r[c + 2 - i]
      BY <1>1, <2>2 DEF WithFirst
    <3>3. CASE i = 1
      BY <1>2, <3>1, <3>2, <3>3
    <3>4. CASE i # 1
      <4>1. d + 1 - i \in 1..d - 1 /\ c - d + 1 + (d + 1 - i) = c + 2 - i
        BY <2>2, <3>4
      <4> QED
        BY <1>2, <3>1, <3>2, <3>4, <4>1
    <3> QED
      BY <3>3, <3>4
  <2> QED
    BY <2>1, <2>2
<1> QED
  BY <1>1, <1>4 DEF Same

\* A new event arrives; an old one does.
LEMMA TakeSame ==
  ASSUME LogBounds, NEW q \in Seq(Log!Entry), q # <<>>, NEW l \in Seq(Log!Entry), NEW x, NEW n,
         Same(Awaited(q, 0, l), Len(q) - 0 + Len(l), x, n),
         NEW t, t = Log!NewestFirst(<<Head(q)>> \o l)
  PROVE  Same(Awaited(Tail(q), 0, t), Len(Tail(q)) - 0 + Len(t), x, n)
<1>8. PICK e \in Log!Entry : e = Head(q) /\ e = q[1]
  OBVIOUS
<1>9. PICK u : u = Tail(q)
  OBVIOUS
<1>10. PICK v : v = <<e>> \o l
  OBVIOUS
<1>11. PICK a \in Nat \ {0}, b \in Nat : a = Len(q) /\ b = Len(l)
  OBVIOUS
<1>1. /\ a = Len(q) /\ b = Len(l) /\ e = Head(q) /\ e = q[1] /\ u = Tail(q) /\ v = <<e>> \o l
      /\ a - 0 = a /\ a - 1 - 0 = a - 1 /\ t = Log!NewestFirst(v)
  BY <1>8, <1>9, <1>10, <1>11
<1>2. /\ v \in Seq(Log!Entry) /\ Len(v) = b + 1 /\ v[1] = e /\ \A i \in 1..b : v[i + 1] = l[i]
      /\ DOMAIN v = 1..b + 1
  BY <1>1, FirstTyped
<1>3. u \in Seq(Log!Entry) /\ Len(u) = a - 1 /\ \A i \in 1..a - 1 : u[i] = q[i + 1]
  BY <1>1
<1>6. Limit \in Nat \ {0}
  BY DEF LogBounds
<1>12. t \in Seq(Log!Entry) /\ Len(t) = (IF Len(v) > Limit THEN Limit ELSE Len(v))
  BY <1>1, <1>2, NewestTyped
<1>4. PICK d \in Nat : d = Len(t) /\ d = IF b + 1 > Limit THEN Limit ELSE b + 1
  BY <1>2, <1>6, <1>12
<1>5. \A i \in 1..d : t[i] = v[i]
  <2>1. t \in Seq(Log!Entry) /\ \A i \in DOMAIN t : t[i] = v[i]
    BY <1>1, <1>2, NewestTyped, ZenonT(30)
  <2> QED
    BY <1>4, <2>1
<1>7. ASSUME NEW i \in 1..Limit
      PROVE  /\ (i <= a + b) = (i <= a - 1 + d)
             /\ i <= a + b => Awaited(u, 0, t)[i] = Awaited(q, 0, l)[i]
  <2>1. (i <= a + b) = (i <= a - 1 + d)
    BY <1>4, <1>6
  <2>2. ASSUME i <= a + b, i <= a - 1 + d PROVE Awaited(u, 0, t)[i] = Awaited(q, 0, l)[i]
    <3>1. Awaited(q, 0, l)[i] = IF i <= a THEN q[a + 1 - i] ELSE l[i - a]
      <4>1. i \in 1..Len(q) - 0 + Len(l)
        BY <1>1, <2>2
      <4>2. Awaited(q, 0, l)[i] = IF i <= Len(q) - 0 THEN q[Len(q) + 1 - i] ELSE l[i - (Len(q) - 0)]
        BY <4>1, AwaitedAt
      <4> QED
        BY <1>1, <4>2
    <3>2. Awaited(u, 0, t)[i] = IF i <= a - 1 THEN u[a - i] ELSE t[i - (a - 1)]
      <4>1. i \in 1..Len(u) - 0 + Len(t) /\ a - 1 + 1 - i = a - i
        BY <1>1, <1>3, <1>4, <2>2
      <4>2. Awaited(u, 0, t)[i] = IF i <= Len(u) - 0 THEN u[Len(u) + 1 - i] ELSE t[i - (Len(u) - 0)]
        BY <4>1, AwaitedAt, ZenonT(30)
      <4> QED
        BY <1>1, <1>3, <4>1, <4>2
    <3>3. CASE i <= a - 1
      <4>1. a - i \in 1..a - 1 /\ a - i + 1 = a + 1 - i /\ i <= a
        BY <3>3
      <4> QED
        BY <1>3, <3>1, <3>2, <3>3, <4>1
    <3>4. CASE i = a
      <4>1. i - (a - 1) = 1 /\ a + 1 - i = 1 /\ 1 \in 1..d /\ ~(i <= a - 1) /\ i <= a
        BY <2>2, <3>4
      <4> QED
        BY <1>1, <1>2, <1>5, <3>1, <3>2, <4>1
    <3>5. CASE i > a
      <4>1. /\ i - (a - 1) \in 1..d /\ i - a \in 1..b /\ i - (a - 1) = i - a + 1
            /\ ~(i <= a - 1) /\ ~(i <= a)
        BY <2>2, <3>5
      <4> QED
        BY <1>2, <1>5, <3>1, <3>2, <4>1
    <3> QED
      BY <3>3, <3>4, <3>5
  <2> QED
    BY <2>1, <2>2
<1>13. Len(u) - 0 + Len(t) = a - 1 + d /\ Len(q) - 0 + Len(l) = a + b
  BY <1>1, <1>3, <1>4
<1>14. \A i \in 1..Limit : (i <= a + b) = (i <= n) /\ (i <= a + b => Awaited(q, 0, l)[i] = x[i])
  BY <1>13 DEF Same
<1> QED
  BY <1>1, <1>7, <1>13, <1>14 DEF Same

LEMMA DropSame ==
  ASSUME LogBounds, NEW q \in Seq(Log!Entry), NEW k \in 1..Len(q), NEW l \in Seq(Log!Entry), NEW x, NEW n,
         Same(Awaited(q, k, l), Len(q) - k + Len(l), x, n)
  PROVE  Same(Awaited(Tail(q), k - 1, l), Len(Tail(q)) - (k - 1) + Len(l), x, n)
<1>5. PICK u : u = Tail(q)
  OBVIOUS
<1>1. PICK a \in Nat, b \in Nat : a = Len(q) /\ b = Len(l) /\ u = Tail(q)
  BY <1>5
<1>2. k \in 1..a /\ u \in Seq(Log!Entry) /\ Len(u) = a - 1 /\ \A i \in 1..a - 1 : u[i] = q[i + 1]
  BY <1>1
<1>3. a - 1 - (k - 1) = a - k
  BY <1>2
<1>4. ASSUME NEW i \in 1..Limit, i <= a - k + b
      PROVE  Awaited(u, k - 1, l)[i] = Awaited(q, k, l)[i]
  <2>1. Awaited(q, k, l)[i] = IF i <= a - k THEN q[a + 1 - i] ELSE l[i - (a - k)]
    <3>1. i \in 1..Len(q) - k + Len(l)
      BY <1>1, <1>2, <1>4
    <3>2. Awaited(q, k, l)[i] = IF i <= Len(q) - k THEN q[Len(q) + 1 - i] ELSE l[i - (Len(q) - k)]
      BY <3>1, AwaitedAt
    <3> QED
      BY <1>1, <3>2
  <2>2. Awaited(u, k - 1, l)[i] = IF i <= a - k THEN u[a - i] ELSE l[i - (a - k)]
    <3>1. PICK h : h = k - 1
      OBVIOUS
    <3>2. i \in 1..Len(u) - h + Len(l) /\ a - 1 + 1 - i = a - i
      BY <1>1, <1>2, <1>3, <1>4, <3>1
    <3>3. Awaited(u, h, l)[i] = IF i <= Len(u) - h THEN u[Len(u) + 1 - i] ELSE l[i - (Len(u) - h)]
      BY <3>2 DEF Awaited
    <3> QED
      BY <1>2, <1>3, <3>1, <3>2, <3>3
  <2>3. i <= a - k => a - i \in 1..a - 1 /\ a - i + 1 = a + 1 - i
    BY <1>2
  <2> QED
    BY <1>2, <2>1, <2>2, <2>3
<1> QED
  BY <1>1, <1>2, <1>3, <1>4 DEF Same

\* A list that is the log, and one that has caught up.
LEMMA StartSame ==
  ASSUME NEW q \in Seq(Log!Entry), NEW l \in Seq(Log!Entry), NEW r \in Seq(Log!Entry), Len(l) = Len(r),
         \A i \in DOMAIN r : l[i] = r[Len(r) + 1 - i]
  PROVE  Same(Awaited(q, Len(q), l), Len(q) - Len(q) + Len(l), Newest(r), Len(r))
<1>1. PICK a \in Nat, b \in Nat : a = Len(q) /\ b = Len(l) /\ b = Len(r) /\ DOMAIN r = 1..b
  OBVIOUS
<1>2. ASSUME NEW i \in 1..b PROVE Awaited(q, a, l)[i] = Newest(r)[i]
  <2>1. Awaited(q, a, l)[i] = l[i]
    BY <1>1 DEF Awaited
  <2>2. Newest(r)[i] = r[b + 1 - i]
    BY <1>1 DEF Newest
  <2> QED
    BY <1>1, <2>1, <2>2
<1>3. a - a + b = b
  BY <1>1
<1> QED
  BY <1>1, <1>2, <1>3 DEF Same

LEMMA CaughtUp ==
  ASSUME LogBounds, NEW q \in Seq(Log!Entry), NEW l \in Seq(Log!Entry), NEW r \in Seq(Log!Entry),
         Len(l) <= Limit, Len(r) <= Limit,
         Same(Awaited(q, Len(q), l), Len(q) - Len(q) + Len(l), Newest(r), Len(r))
  PROVE  l = Log!NewestFirst(Log!Reverse(r))
<1>1. PICK a \in Nat, b \in Nat, c \in Nat :
        a = Len(q) /\ b = Len(l) /\ c = Len(r) /\ b <= Limit /\ c <= Limit
  OBVIOUS
<1>2. Limit \in Nat /\ a - a + b = b
  BY <1>1 DEF LogBounds
<1>3. /\ \A i \in 1..Limit : (i <= b) = (i <= c)
      /\ \A i \in 1..Limit : i <= b => Awaited(q, a, l)[i] = Newest(r)[i]
  BY <1>1, <1>2 DEF Same
<1>4. b = c
  <2>1. b # 0 => b \in 1..Limit
    BY <1>1, <1>2
  <2>2. c # 0 => c \in 1..Limit
    BY <1>1, <1>2
  <2>3. b # 0 => b <= c
    BY <1>3, <2>1
  <2>4. c # 0 => c <= b
    BY <1>3, <2>2
  <2> QED
    BY <2>3, <2>4
<1>5. PICK t : t = Log!Reverse(r)
  OBVIOUS
<1>6. t \in Seq(Log!Entry) /\ Len(t) = c /\ \A i \in 1..c : t[i] = r[c + 1 - i]
  BY <1>1, <1>5, ReverseTyped
<1>7. PICK u : u = Log!NewestFirst(t)
  OBVIOUS
<1>8. u \in Seq(Log!Entry) /\ Len(u) = c /\ \A i \in 1..c : u[i] = t[i]
  <2>1. /\ u \in Seq(Log!Entry) /\ Len(u) = IF c > Limit THEN Limit ELSE c
        /\ \A i \in DOMAIN u : u[i] = t[i]
    BY <1>6, <1>7, NewestTyped
  <2>2. ~(c > Limit)
    BY <1>1, <1>2
  <2> QED
    BY <2>1, <2>2
<1>9. ASSUME NEW i \in 1..c PROVE l[i] = u[i]
  <2>1. i \in 1..Limit /\ i <= b
    BY <1>1, <1>2, <1>4
  <2>2. Awaited(q, a, l)[i] = l[i]
    BY <1>1, <1>4 DEF Awaited
  <2>3. Newest(r)[i] = r[c + 1 - i]
    BY <1>1 DEF Newest
  <2> QED
    BY <1>3, <1>6, <1>8, <2>1, <2>2, <2>3
<1>10. Len(l) = Len(u) /\ \A i \in 1..Len(l) : l[i] = u[i]
  BY <1>1, <1>4, <1>8, <1>9
<1>11. l = u
  BY <1>8, <1>10
<1> QED
  BY <1>5, <1>7, <1>11

-----------------------------------------------------------------------------
LEMMA LogInvInit == ASSUME LogBounds, Log!Init PROVE LogInv
<1>1. /\ s1 = 1 /\ s2 = [l \in Log!Logs |-> 1] /\ s3 = <<>> /\ s4 = [w \in Writers |-> Log!NoPush]
      /\ s5 = <<>> /\ s6 = Log!Panel0 /\ s7 = FALSE /\ MaxLogs \in Nat \ {0}
      /\ MaxId \in Nat \ {0} /\ Limit \in Nat \ {0} /\ Events \in Nat \ {0}
  BY DEF Log!Init, LogBounds
<1>2. Log!NoPush \in PushRecords /\ Log!NoPush.st = "idle"
  <2>1. [log |-> 1, id |-> 1] \in Log!Entry
    BY <1>1 DEF Log!Entry, Log!Logs
  <2> QED
    BY <2>1 DEF Log!NoPush, PushRecords
<1>3. /\ s6 \in PanelRecords /\ s6.list = <<>> /\ s6.snap = <<>> /\ s6.load = "no"
      /\ s6.loaded = FALSE
  BY <1>1 DEF Log!Panel0, PanelRecords
<1>4. \A w \in Writers : s4[w].st = "idle"
  BY <1>1, <1>2
<1>5. LogTyped
  <2>1. s4 \in [Writers -> PushRecords] /\ s2 \in [Log!Logs -> 1..MaxId + 1] /\ s1 \in Log!Logs
    BY <1>1, <1>2 DEF Log!Logs
  <2>2. s3 \in Seq(Log!Entry) /\ s5 \in Seq(Log!Entry) /\ Len(s3) = 0 /\ Len(s5) = 0
        /\ Len(s6.list) = 0 /\ Len(s6.snap) = 0
    BY <1>1, <1>3
  <2>3. 0 <= Limit /\ 0 <= Events
    BY <1>1
  <2> QED
    BY <1>1, <1>3, <2>1, <2>2, <2>3 DEF LogTyped
<1>6. Numbers
  BY <1>1, <1>4 DEF Numbers, Log!Idle
<1> QED
  BY <1>1, <1>3, <1>5, <1>6
     DEF LogInv, SnapApart, ListApart, NotLoaded, OneBusy, SnapIsLog, ListIsLog

\* What an action leaves as it was stays ahead.
LEMMA AheadStays ==
  ASSUME NEW k, Ahead(k), UNCHANGED <<s1, s2, s3, s4, s5>>,
         s6'.list = s6.list, s6'.seen = s6.seen,
         s6'.listen # "on" => s6.listen # "on"
  PROVE  Ahead(k)'
BY DEF Ahead, NoneEmitted

LEMMA NumberStep == ASSUME LogBounds, LogInv, NEW w \in Writers, Log!Number(w) PROVE LogInv'
<1>1. PICK l \in Log!Logs :
        /\ s4[w].st = "idle" /\ s2[l] <= MaxId
        /\ s2' = [s2 EXCEPT ![l] = s2[l] + 1]
        /\ s4' = [s4 EXCEPT ![w] = [st |-> "numbered", entry |-> [log |-> l, id |-> s2[l]]]]
        /\ s7' = (s7 /\ Log!AllIdle /\ l = s1)
        /\ UNCHANGED <<s1, s3, s5, s6>>
  <2>1. s1 \in 1..MaxLogs /\ MaxLogs \in Nat
    BY DEF LogInv, LogTyped, LogBounds, Log!Logs
  <2>2. s1 \in Log!Logs /\ \A l \in 1..s1 : l \in Log!Logs
    BY <2>1 DEF Log!Logs
  <2> QED
    BY <2>2 DEF Log!Number, Log!Idle
<1>2. /\ LogTyped /\ Numbers /\ s2[l] \in Nat \ {0} /\ MaxId \in Nat
      /\ \A m \in Log!Logs : s2[m] \in Nat
  BY DEF LogInv, LogTyped, LogBounds
<1>3. PICK e : e = [log |-> l, id |-> s2[l]]
  OBVIOUS
<1>4. e \in Log!Entry /\ e.log = l /\ e.id = s2[l]
  BY <1>1, <1>2, <1>3 DEF Log!Entry
<1>5. PICK new : new = [st |-> "numbered", entry |-> e]
  OBVIOUS
<1>6. new \in PushRecords /\ new.st = "numbered" /\ new.entry = e
  BY <1>4, <1>5 DEF PushRecords
<1>7. /\ s4' \in [Writers -> PushRecords] /\ s4'[w] = new
      /\ \A v \in Writers : v # w => s4'[v] = s4[v]
  <2>1. s4' = [s4 EXCEPT ![w] = new]
    BY <1>1, <1>3, <1>5
  <2> QED
    BY <1>2, <1>6, <2>1 DEF LogTyped
<1>8. /\ s2' \in [Log!Logs -> 1..MaxId + 1] /\ s2'[l] = s2[l] + 1
      /\ \A m \in Log!Logs : m # l => s2'[m] = s2[m]
  <2>1. s2[l] + 1 \in 1..MaxId + 1
    BY <1>1, <1>2
  <2> QED
    BY <1>1, <1>2, <2>1 DEF LogTyped
<1>9. \A m \in Log!Logs : s2[m] <= s2'[m] /\ s2'[m] \in Nat
  BY <1>2, <1>8
<1>10. LogTyped'
  <2>1. s7' \in BOOLEAN
    BY <1>1 DEF Log!AllIdle, LogInv, LogTyped
  <2> QED
    BY <1>1, <1>2, <1>7, <1>8, <2>1 DEF LogTyped
<1>11. Numbers'
  <2>1. ASSUME NEW i \in DOMAIN s3
        PROVE  s3[i].log = s1 /\ s3[i].id \in Nat /\ s3[i].id < s2[s1] /\ s3[i].id < s2'[s1]
    <3>1. s3[i] \in Log!Entry /\ s3[i].log = s1 /\ s3[i].id < s2[s1]
      BY <1>2 DEF Numbers, LogTyped
    <3>2. s3[i].id \in Nat /\ s1 \in Log!Logs
      BY <1>2, <3>1 DEF Log!Entry, LogTyped
    <3> QED
      BY <1>2, <1>9, <3>1, <3>2
  <2>2. ASSUME NEW v \in Writers, v # w, s4[v].st # "idle"
        PROVE  /\ s4[v].entry.log \in Log!Logs /\ s4[v].entry.id \in Nat
               /\ s4[v].entry.id < s2[s4[v].entry.log]
               /\ s4[v].entry.id < s2'[s4[v].entry.log]
    <3>1. s4[v].entry \in Log!Entry
      BY <1>2 DEF LogTyped, PushRecords
    <3>2. s4[v].entry.log \in Log!Logs /\ s4[v].entry.id \in Nat
      BY <3>1 DEF Log!Entry
    <3>3. s4[v].entry.id < s2[s4[v].entry.log]
      BY <1>2, <2>2 DEF Numbers, Log!Idle
    <3> QED
      BY <1>2, <1>9, <3>2, <3>3
  <2>3. ASSUME NEW u \in Writers, s4'[u].st # "idle"
        PROVE  /\ s4'[u].entry.id < s2'[s4'[u].entry.log]
               /\ s4'[u].entry.log = s1 => \A i \in DOMAIN s3 : s3[i].id # s4'[u].entry.id
               /\ \A v \in Writers :
                    /\ s4'[v].st # "idle" /\ s4'[v].entry.log = s4'[u].entry.log
                    /\ s4'[v].entry.id = s4'[u].entry.id
                    => v = u
    <3>1. CASE u = w
      <4>1. s4'[u].entry.log = l /\ s4'[u].entry.id = s2[l]
        BY <1>4, <1>6, <1>7, <3>1
      <4>2. s4'[u].entry.id < s2'[s4'[u].entry.log]
        BY <1>2, <1>8, <4>1
      <4>3. l = s1 => \A i \in DOMAIN s3 : s3[i].id # s2[l]
        BY <1>2, <2>1
      <4>4. ASSUME NEW v \in Writers, v # u, s4'[v].st # "idle", s4'[v].entry.log = l
            PROVE  s4'[v].entry.id # s2[l]
        BY <1>2, <1>7, <2>2, <3>1, <4>4
      <4> QED
        BY <4>1, <4>2, <4>3, <4>4
    <3>2. CASE u # w
      <4>1. s4'[u] = s4[u] /\ s4[u].st # "idle"
        BY <1>7, <2>3, <3>2
      <4>2. ASSUME NEW v \in Writers, s4'[v].st # "idle", v # u,
                   s4'[v].entry.log = s4[u].entry.log
            PROVE  s4'[v].entry.id # s4[u].entry.id
        <5>1. CASE v = w
          BY <1>2, <1>4, <1>6, <1>7, <2>2, <3>2, <4>1, <4>2, <5>1
        <5>2. CASE v # w
          BY <1>2, <1>7, <4>1, <4>2, <5>2 DEF Numbers, Log!Idle
        <5> QED
          BY <5>1, <5>2
      <4>3. s4[u].entry.log = s1 => \A i \in DOMAIN s3 : s3[i].id # s4[u].entry.id
        BY <1>2, <4>1 DEF Numbers, Log!Idle
      <4> QED
        BY <2>2, <3>2, <4>1, <4>2, <4>3
    <3> QED
      BY <3>1, <3>2
  <2>4. \A i, j \in DOMAIN s3 : s3[i].id = s3[j].id => i = j
    BY <1>2 DEF Numbers
  <2> QED
    BY <1>1, <2>1, <2>3, <2>4 DEF Numbers, Log!Idle
<1>12. SnapApart' /\ ListApart' /\ NotLoaded'
  BY <1>1 DEF LogInv, SnapApart, ListApart, NotLoaded, Apart
<1>13. s7' => s7 /\ l = s1 /\ \A v \in Writers : s4[v].st = "idle"
  BY <1>1 DEF Log!AllIdle, Log!Idle
<1>14. s7' => NoneEmitted /\ NoneEmitted'
  BY <1>6, <1>7, <1>13 DEF NoneEmitted
<1>15. OneBusy'
  <2> SUFFICES ASSUME s7', NEW u \in Writers, s4'[u].st # "idle"
               PROVE  /\ s4'[u].entry.log = s1 /\ s4'[u].entry.id = s2'[s1] - 1
                      /\ \A v \in Writers : s4'[v].st # "idle" => v = u
    BY <1>1 DEF OneBusy, Log!Idle
  <2>1. u = w /\ \A v \in Writers : s4'[v].st # "idle" => v = w
    BY <1>7, <1>13
  <2>2. s4'[u].entry.log = s1 /\ s4'[u].entry.id = s2[s1] /\ s2'[s1] = s2[s1] + 1
    BY <1>4, <1>6, <1>7, <1>8, <1>13, <2>1
  <2> QED
    BY <1>2, <1>13, <2>1, <2>2
<1>16. SnapIsLog'
  BY <1>1, <1>13, <1>14 DEF LogInv, SnapIsLog
<1>17. ListIsLog'
  <2> SUFFICES ASSUME s7', s6.open, s6.loaded
               PROVE  IF s6.clear = "answered" THEN s3 = <<>> /\ s5 = <<>> /\ NoneEmitted'
                      ELSE \E k \in 0..Len(s5) : Ahead(k)'
    BY <1>1 DEF ListIsLog
  <2>1. CASE s6.clear = "answered"
    BY <1>13, <1>14, <2>1 DEF LogInv, ListIsLog
  <2>2. CASE s6.clear # "answered"
    <3>1. PICK k \in 0..Len(s5) : Ahead(k)
      BY <1>13, <2>2 DEF LogInv, ListIsLog
    <3>2. /\ s6.seen < s2[s1] /\ \A i \in DOMAIN s5 : s5[i].id < s2[s1]
          /\ Same(Awaited(s5, k, s6.list), Len(s5) - k + Len(s6.list),
                  Newest(s3), Len(s3))
      BY <1>14, <3>1 DEF Ahead
    <3>3. s6.seen \in Nat /\ \A i \in DOMAIN s5 : s5[i].id \in Nat
      <4>1. s6.seen \in Nat
        BY <1>2 DEF LogTyped, PanelRecords
      <4>2. \A i \in DOMAIN s5 : s5[i] \in Log!Entry
        BY <1>2 DEF LogTyped
      <4> QED
        BY <4>1, <4>2 DEF Log!Entry
    <3>4. s6.seen < s2'[s1] /\ \A i \in DOMAIN s5 : s5[i].id < s2'[s1]
      BY <1>2, <1>8, <1>13, <3>2, <3>3
    <3>5. ASSUME NEW u \in Writers, s4'[u].st = "numbered"
          PROVE  /\ s6.seen < s4'[u].entry.id
                 /\ \A i \in DOMAIN s5 : s5[i].id < s4'[u].entry.id
      <4>1. s4'[u].entry.id = s2[s1]
        BY <1>4, <1>6, <1>7, <1>13, <3>5
      <4> QED
        BY <3>2, <4>1
    <3>6. \A u \in Writers : s4'[u].st # "emitted"
      BY <1>14 DEF NoneEmitted
    <3>7. Ahead(k)'
      BY <1>1, <1>14, <3>1, <3>2, <3>4, <3>5, <3>6 DEF Ahead
    <3> QED
      BY <2>2, <3>1, <3>7
  <2> QED
    BY <2>1, <2>2
<1> QED
  BY <1>10, <1>11, <1>12, <1>15, <1>16, <1>17 DEF LogInv

LEMMA EmitStep == ASSUME LogBounds, LogInv, NEW w \in Writers, Log!Emit(w) PROVE LogInv'
<1>1. /\ s4[w].st = "numbered" /\ Len(s5) < Events
      /\ s4' = [s4 EXCEPT ![w].st = "emitted"]
      /\ s5' = IF s6.listen = "on" THEN Append(s5, s4[w].entry) ELSE s5
      /\ s7' = (s7 /\ s6.listen = "on" /\ s6.load = "no" /\ s6.clear = "no")
      /\ UNCHANGED <<s1, s2, s3, s6>>
  BY DEF Log!Emit
<1>2. LogTyped /\ Numbers /\ Events \in Nat
  BY DEF LogInv, LogBounds
<1>3. PICK new : new = [s4[w] EXCEPT !.st = "emitted"]
  OBVIOUS
<1>4. /\ s4[w] \in PushRecords /\ new \in PushRecords /\ new.st = "emitted"
      /\ new.entry = s4[w].entry
  <2>1. s4[w] \in PushRecords
    BY <1>2 DEF LogTyped
  <2> QED
    BY <1>3, <2>1 DEF PushRecords
<1>5. PICK e \in Log!Entry : e = s4[w].entry /\ new.entry = e
  BY <1>4 DEF PushRecords
<1>6. /\ s4' \in [Writers -> PushRecords] /\ s4'[w] = new
      /\ \A v \in Writers : v # w => s4'[v] = s4[v]
  <2>1. s4' = [s4 EXCEPT ![w] = new]
    BY <1>1, <1>3
  <2> QED
    BY <1>2, <1>4, <2>1 DEF LogTyped
<1>7. \A v \in Writers : /\ s4'[v].entry = s4[v].entry
                         /\ (s4'[v].st = "idle") = (s4[v].st = "idle")
  BY <1>1, <1>4, <1>6
<1>8. PICK n \in Nat : n = Len(s5)
  BY <1>2 DEF LogTyped
<1>9. s6.listen = "on" =>
        /\ s5' = Append(s5, e) /\ s5' \in Seq(Log!Entry) /\ Len(s5') = n + 1
        /\ s5'[n + 1] = e /\ \A i \in 1..n : s5'[i] = s5[i]
  BY <1>1, <1>2, <1>5, <1>8 DEF LogTyped
<1>10. LogTyped'
  <2>1. s5' \in Seq(Log!Entry) /\ Len(s5') <= Events
    <3>1. CASE s6.listen = "on"
      BY <1>1, <1>2, <1>8, <1>9, <3>1
    <3>2. CASE s6.listen # "on"
      BY <1>1, <1>2, <3>2 DEF LogTyped
    <3> QED
      BY <3>1, <3>2
  <2>2. s7' \in BOOLEAN
    BY <1>1, <1>2 DEF LogTyped
  <2> QED
    BY <1>1, <1>2, <1>6, <2>1, <2>2 DEF LogTyped
<1>11. Numbers'
  BY <1>1, <1>2, <1>7 DEF Numbers, Log!Idle
<1>12. SnapApart' /\ ListApart' /\ NotLoaded'
  BY <1>1 DEF LogInv, SnapApart, ListApart, NotLoaded, Apart
<1>13. OneBusy'
  BY <1>1, <1>7 DEF LogInv, OneBusy, Log!Idle
<1>14. SnapIsLog'
  BY <1>1 DEF SnapIsLog
<1>15. ListIsLog'
  <2> SUFFICES ASSUME s7', s6.open, s6.loaded
               PROVE  \E k \in 0..Len(s5') : Ahead(k)'
    BY <1>1 DEF ListIsLog
  <2>1. PICK k \in 0..n : Ahead(k)
    BY <1>1, <1>8 DEF LogInv, ListIsLog
  <2>2. s7 /\ s6.listen = "on" /\ \A v \in Writers : v # w => s4[v].st = "idle"
    BY <1>1 DEF LogInv, OneBusy, Log!Idle
  <2>3. e.id = s2[s1] - 1 /\ s2[s1] \in Nat /\ e.id \in Nat
    BY <1>1, <1>2, <1>5, <2>2 DEF LogInv, OneBusy, Log!Idle, LogTyped, Log!Entry
  <2>4. /\ \A i \in 1..k : s5[i].id <= s6.seen
        /\ \A i \in k + 1..n : s5[i].id > s6.seen /\ \A j \in i + 1..n : s5[j].id > s5[i].id
        /\ s6.seen < s2[s1] /\ \A i \in DOMAIN s5 : s5[i].id < s2[s1]
        /\ s6.seen < e.id /\ \A i \in DOMAIN s5 : s5[i].id < e.id
        /\ NoneEmitted => Same(Awaited(s5, k, s6.list), n - k + Len(s6.list), Newest(s3), Len(s3))
    BY <1>1, <1>5, <1>8, <2>1 DEF Ahead
  <2>5. NoneEmitted
    BY <1>1, <2>2 DEF NoneEmitted
  <2>6. /\ s6.seen \in Nat /\ s6.list \in Seq(Log!Entry) /\ s3 \in Seq(Log!Entry)
        /\ DOMAIN s5 = 1..n
        /\ s5 \in Seq(Log!Entry)
    BY <1>2, <1>8 DEF LogTyped, PanelRecords
  <2>7. /\ s5' = Append(s5, e) /\ Len(s5') = n + 1
        /\ s5'[n + 1] = e /\ \A i \in 1..n : s5'[i] = s5[i]
        /\ DOMAIN s5' = 1..n + 1
    BY <1>9, <2>2
  <2>8. \A i \in 1..n + 1 : i \in 1..n \/ i = n + 1
    OBVIOUS
  <2>9. \A i \in 1..k : i \in 1..n /\ s5'[i].id <= s6.seen
    BY <2>4, <2>7
  <2>10. ASSUME NEW i \in k + 1..n + 1
         PROVE  /\ s5'[i].id > s6.seen
                /\ \A j \in i + 1..n + 1 : s5'[j].id > s5'[i].id
    <3>1. CASE i = n + 1
      BY <2>3, <2>4, <2>6, <2>7, <3>1
    <3>2. CASE i # n + 1
      <4>1. i \in k + 1..n /\ i \in 1..n
        BY <3>2
      <4>2. s5'[i].id > s6.seen
        BY <2>4, <2>7, <4>1
      <4>3. ASSUME NEW j \in i + 1..n + 1 PROVE s5'[j].id > s5'[i].id
        <5>1. CASE j = n + 1
          <6>1. s5[i].id < e.id /\ s5[i].id \in Nat
            <7>1. s5[i] \in Log!Entry
              BY <2>6, <4>1
            <7>2. s5[i].id \in Nat
              BY <7>1 DEF Log!Entry
            <7> QED
              BY <2>4, <2>6, <4>1, <7>2
          <6> QED
            BY <2>3, <2>7, <4>1, <5>1, <6>1
        <5>2. CASE j # n + 1
          <6>1. j \in i + 1..n /\ j \in 1..n
            BY <4>1, <5>2
          <6> QED
            BY <2>4, <2>7, <4>1, <6>1
        <5> QED
          BY <5>1, <5>2
      <4> QED
        BY <4>2, <4>3
    <3> QED
      BY <3>1, <3>2
  <2>11. \A i \in 1..n + 1 : s5'[i].id < s2[s1]
    <3> SUFFICES ASSUME NEW i \in 1..n + 1 PROVE s5'[i].id < s2[s1]
      OBVIOUS
    <3>1. CASE i \in 1..n
      BY <2>4, <2>6, <2>7, <3>1
    <3>2. CASE i = n + 1
      <4>1. e.id < s2[s1]
        BY <2>3
      <4> QED
        BY <2>7, <3>2, <4>1
    <3> QED
      BY <2>8, <3>1, <3>2
  <2>12. /\ \A v \in Writers : s4'[v].st # "numbered"
         /\ \A v \in Writers : s4'[v].st = "emitted" => s4'[v].entry = e
         /\ ~(\A v \in Writers : s4'[v].st # "emitted")
    BY <1>4, <1>5, <1>6, <2>2
  <2>13. Same(Awaited(s5', k, s6.list), Len(s5') - k + Len(s6.list),
              WithFirst(e, s3), Len(s3) + 1)
    <3>1. /\ k \in 0..Len(s5)
          /\ Same(Awaited(s5, k, s6.list), Len(s5) - k + Len(s6.list),
                  Newest(s3), Len(s3))
      BY <1>8, <2>1, <2>4, <2>5
    <3>2. Same(Awaited(Append(s5, e), k, s6.list), Len(Append(s5, e)) - k + Len(s6.list),
               WithFirst(e, s3), Len(s3) + 1)
      BY <2>6, <3>1, EmitSame
    <3> QED
      BY <2>7, <3>2
  <2>16. ~NoneEmitted'
    BY <2>12 DEF NoneEmitted
  <2>17. ASSUME NEW v \in Writers, s4'[v].st = "emitted"
         PROVE  Same(Awaited(s5', k, s6.list), Len(s5') - k + Len(s6.list),
                     WithFirst(s4'[v].entry, s3), Len(s3) + 1)
    <3>1. s4'[v].entry = e
      BY <2>12, <2>17
    <3> QED
      BY <2>13, <3>1
  <2>18. s6.listen = "on" /\ s6.seen < s2[s1]
    BY <1>1, <2>4
  <2>14. Ahead(k)'
    BY <1>1, <2>7, <2>9, <2>10, <2>11, <2>12, <2>16, <2>17, <2>18 DEF Ahead
  <2>15. k \in 0..n + 1
    OBVIOUS
  <2> QED
    BY <2>7, <2>14, <2>15
<1> QED
  BY <1>10, <1>11, <1>12, <1>13, <1>14, <1>15 DEF LogInv

LEMMA StoreStep == ASSUME LogBounds, LogInv, NEW w \in Writers, Log!Store(w) PROVE LogInv'
<1>1. /\ s4[w].st = "emitted" /\ s4' = [s4 EXCEPT ![w] = Log!NoPush]
      /\ s3' = IF s4[w].entry.log = s1 THEN Log!Drained(Append(s3, s4[w].entry)) ELSE s3
      /\ UNCHANGED <<s1, s2, s5, s6, s7>>
  BY DEF Log!Store
<1>2. LogTyped /\ Numbers
  BY DEF LogInv
<1>3. Log!NoPush \in PushRecords /\ Log!NoPush.st = "idle"
  <2>1. [log |-> 1, id |-> 1] \in Log!Entry
    BY DEF Log!Entry, Log!Logs, LogBounds
  <2> QED
    BY <2>1 DEF Log!NoPush, PushRecords
<1>4. /\ s4' \in [Writers -> PushRecords] /\ s4'[w].st = "idle"
      /\ \A v \in Writers : v # w => s4'[v] = s4[v]
  BY <1>1, <1>2, <1>3 DEF LogTyped
<1>5. PICK e \in Log!Entry : e = s4[w].entry
  BY <1>2 DEF LogTyped, PushRecords
<1>6. e.log \in Log!Logs /\ e.id \in Nat /\ e.id < s2[e.log]
  BY <1>1, <1>2, <1>5 DEF Numbers, Log!Idle, Log!Entry
<1>7. e.log = s1 => RingOf(s3', s3, e) /\ s3' = Log!Drained(Append(s3, e))
  BY <1>1, <1>2, <1>5, RingTyped DEF LogTyped
<1>8. LogTyped'
  <2>1. s3' \in Seq(Log!Entry) /\ Len(s3') <= Limit
    BY <1>1, <1>2, <1>5, <1>7 DEF LogTyped, RingOf
  <2> QED
    BY <1>1, <1>2, <1>4, <2>1 DEF LogTyped
<1>9. Numbers'
  <2>1. CASE e.log # s1
    <3>1. s3' = s3
      BY <1>1, <1>5, <2>1
    <3> QED
      BY <1>1, <1>2, <1>4, <3>1 DEF Numbers, Log!Idle
  <2>2. CASE e.log = s1
    <3>12. PICK c \in Nat, d \in Nat \ {0} :
            c = Len(s3) /\ d = Len(s3') /\ DOMAIN s3' = 1..d /\ DOMAIN s3 = 1..c
      <4>1. s3 \in Seq(Log!Entry) /\ s3' \in Seq(Log!Entry) /\ Len(s3') # 0
        BY <1>2, <1>7, <2>2 DEF RingOf, LogTyped
      <4> QED
        BY <4>1
    <3>1. /\ d = Len(s3') /\ DOMAIN s3' = 1..d /\ s3'[d] = e
          /\ \A i \in 1..d - 1 : s3'[i] = s3[c - d + 1 + i] /\ c - d + 1 + i \in DOMAIN s3
      BY <1>7, <2>2, <3>12 DEF RingOf
    <3>2. \A i \in 1..d : i = d \/ i \in 1..d - 1
      OBVIOUS
    <3>3. \A i, j \in 1..d - 1 : c - d + 1 + i = c - d + 1 + j => i = j
      OBVIOUS
    <3>4. \A i \in 1..d - 1 : s3'[i].log = s1 /\ s3'[i].id < s2[s1] /\ s3'[i].id # e.id
      <4>1. \A h \in DOMAIN s3 : s3[h].log = s1 /\ s3[h].id < s2[s1] /\ s3[h].id # e.id
        BY <1>1, <1>2, <1>5, <2>2 DEF Numbers, Log!Idle
      <4> QED
        BY <3>1, <4>1
    <3>5. \A i \in 1..d : s3'[i].log = s1 /\ s3'[i].id < s2[s1]
      BY <1>6, <2>2, <3>1, <3>2, <3>4
    <3>6. ASSUME NEW i \in 1..d - 1, NEW j \in 1..d - 1, s3'[i].id = s3'[j].id PROVE i = j
      <4>1. \A g, h \in DOMAIN s3 : s3[g].id = s3[h].id => g = h
        BY <1>2 DEF Numbers
      <4>2. /\ s3'[i] = s3[c - d + 1 + i] /\ c - d + 1 + i \in DOMAIN s3
            /\ s3'[j] = s3[c - d + 1 + j] /\ c - d + 1 + j \in DOMAIN s3
        BY <3>1
      <4>3. c - d + 1 + i = c - d + 1 + j
        BY <3>6, <4>1, <4>2
      <4> QED
        BY <3>3, <4>3
    <3>7. \A i, j \in 1..d : s3'[i].id = s3'[j].id => i = j
      BY <3>1, <3>2, <3>4, <3>6
    <3>8. ASSUME NEW v \in Writers, s4'[v].st # "idle"
          PROVE  v # w /\ s4'[v] = s4[v] /\ s4[v].st # "idle"
      BY <1>4, <3>8
    <3>9. ASSUME NEW v \in Writers, s4'[v].st # "idle", s4[v].entry.log = s1
          PROVE  \A i \in 1..d : s3'[i].id # s4[v].entry.id
      <4>1. s4[v].entry.id # e.id
        BY <1>1, <1>2, <1>5, <2>2, <3>8, <3>9 DEF Numbers, Log!Idle
      <4>2. \A i \in 1..d - 1 : s3'[i].id # s4[v].entry.id
        <5>1. \A h \in DOMAIN s3 : s3[h].id # s4[v].entry.id
          BY <1>2, <3>8, <3>9 DEF Numbers, Log!Idle
        <5> QED
          BY <3>1, <5>1
      <4> QED
        BY <3>1, <3>2, <4>1, <4>2
    <3>10. ASSUME NEW v \in Writers, s4'[v].st # "idle"
           PROVE  /\ s4'[v].entry.id < s2[s4'[v].entry.log]
                  /\ \A u \in Writers :
                       /\ s4'[u].st # "idle" /\ s4'[u].entry.log = s4'[v].entry.log
                       /\ s4'[u].entry.id = s4'[v].entry.id
                       => u = v
      BY <1>2, <3>8, <3>10 DEF Numbers, Log!Idle
    <3>11. \A v \in Writers : s4'[v].st # "idle" /\ s4'[v].entry.log = s1 =>
             \A i \in 1..d : s3'[i].id # s4'[v].entry.id
      BY <3>8, <3>9
    <3> QED
      BY <1>1, <3>1, <3>5, <3>7, <3>10, <3>11 DEF Numbers, Log!Idle
  <2> QED
    BY <2>1, <2>2
<1>10. SnapApart' /\ ListApart' /\ NotLoaded'
  BY <1>1 DEF LogInv, SnapApart, ListApart, NotLoaded, Apart
<1>11. OneBusy'
  BY <1>1, <1>4 DEF LogInv, OneBusy, Log!Idle
<1>12. SnapIsLog'
  BY <1>1 DEF LogInv, SnapIsLog, NoneEmitted
<1>13. ListIsLog'
  <2> SUFFICES ASSUME s7, s6.open, s6.loaded
               PROVE  s6.clear # "answered" /\ \E k \in 0..Len(s5) : Ahead(k)'
    BY <1>1 DEF ListIsLog
  <2>1. s6.clear # "answered"
    BY <1>1 DEF LogInv, ListIsLog, NoneEmitted
  <2>2. PICK k \in 0..Len(s5) : Ahead(k)
    BY <2>1 DEF LogInv, ListIsLog
  <2>3. e.log = s1 /\ \A v \in Writers : v # w => s4[v].st = "idle"
    BY <1>1, <1>5 DEF LogInv, OneBusy, Log!Idle
  <2>4. s6.listen = "on" /\ ~NoneEmitted
    BY <1>1, <2>2 DEF Ahead, NoneEmitted
  <2>5. \A v \in Writers : s4'[v].st = "idle"
    BY <1>4, <2>3
  <2>6. Same(Awaited(s5, k, s6.list), Len(s5) - k + Len(s6.list),
             WithFirst(e, s3), Len(s3) + 1)
    BY <1>1, <1>5, <2>2 DEF Ahead
  <2>7. Same(Awaited(s5, k, s6.list), Len(s5) - k + Len(s6.list),
             Newest(s3'), Len(s3'))
    BY <1>2, <1>7, <2>3, <2>6, StoreSame DEF LogTyped
  <2>8. Ahead(k)'
    BY <1>1, <2>2, <2>4, <2>5, <2>7 DEF Ahead, NoneEmitted
  <2> QED
    BY <2>1, <2>2, <2>8
<1> QED
  BY <1>8, <1>9, <1>10, <1>11, <1>12, <1>13 DEF LogInv

LEMMA ReplacedStep == ASSUME LogBounds, LogInv, Log!Replaced PROVE LogInv'
<1>1. /\ s1 < MaxLogs /\ s1' = s1 + 1 /\ s3' = <<>> /\ s7' = FALSE
      /\ UNCHANGED <<s2, s4, s5, s6>>
  BY DEF Log!Replaced
<1>2. LogTyped /\ Numbers /\ MaxLogs \in Nat
  BY DEF LogInv, LogBounds
<1>3. LogTyped'
  <2>1. s1' \in Log!Logs
    BY <1>1, <1>2 DEF LogTyped, Log!Logs
  <2>2. s3' \in Seq(Log!Entry) /\ Len(s3') = 0 /\ 0 <= Limit
    BY <1>1 DEF LogBounds
  <2> QED
    BY <1>1, <1>2, <2>1, <2>2 DEF LogTyped
<1>4. Numbers'
  BY <1>1, <1>2 DEF Numbers, Log!Idle
<1> QED
  BY <1>1, <1>3, <1>4
     DEF LogInv, SnapApart, ListApart, NotLoaded, OneBusy, SnapIsLog, ListIsLog, Apart

LEMMA RunQueryStep == ASSUME LogBounds, LogInv, Log!RunQuery PROVE LogInv'
<1>1. /\ s6.load = "asked" /\ LogTyped /\ Numbers /\ ~s6.loaded
      /\ s6' = [s6 EXCEPT !.load = "answered", !.snap = Log!NewestFirst(Log!Reverse(s3))]
      /\ s7' => /\ Log!AllIdle /\ s6.clear = "no"
                /\ \A i \in DOMAIN s5 : s5[i].log = s1 /\ s5[i].id <= Log!TopOf(s3)
      /\ s7' \in BOOLEAN
      /\ UNCHANGED <<s1, s2, s3, s4, s5>>
  BY DEF Log!RunQuery, LogInv, NotLoaded, Log!AllIdle
<1>2. s3 \in Seq(Log!Entry) /\ Len(s3) <= Limit /\ Limit \in Nat /\ s5 \in Seq(Log!Entry)
  BY <1>1 DEF LogTyped, LogBounds
<1>3. PICK t : t = Log!Reverse(s3)
  OBVIOUS
<1>4. PICK u : u = Log!NewestFirst(t)
  OBVIOUS
<1>5. PICK c \in Nat : c = Len(s3) /\ c <= Limit /\ DOMAIN s3 = 1..c
  BY <1>2
<1>6. t \in Seq(Log!Entry) /\ Len(t) = c /\ \A i \in 1..c : t[i] = s3[c + 1 - i]
  BY <1>2, <1>3, <1>5, ReverseTyped
<1>7. u \in Seq(Log!Entry) /\ Len(u) = c /\ DOMAIN u = 1..c /\ \A i \in 1..c : u[i] = s3[c + 1 - i]
  <2>1. /\ u \in Seq(Log!Entry) /\ Len(u) = IF c > Limit THEN Limit ELSE c
        /\ \A i \in DOMAIN u : u[i] = t[i]
    BY <1>4, <1>6, NewestTyped
  <2>2. ~(c > Limit)
    BY <1>2, <1>5
  <2> QED
    BY <1>6, <2>1, <2>2
<1>8. /\ s6' \in PanelRecords /\ s6'.load = "answered" /\ s6'.snap = u
      /\ s6'.list = s6.list /\ s6'.loaded = s6.loaded /\ s6'.clear = s6.clear
  <2>1. s6 \in PanelRecords /\ s6' = [s6 EXCEPT !.load = "answered", !.snap = u]
    BY <1>1, <1>3, <1>4 DEF LogTyped
  <2> QED
    BY <1>7, <2>1 DEF PanelRecords
<1>9. LogTyped'
  <2>1. Len(s6'.snap) <= Limit /\ Len(s6'.list) <= Limit
    BY <1>1, <1>5, <1>7, <1>8 DEF LogTyped
  <2> QED
    BY <1>1, <1>8, <2>1 DEF LogTyped
<1>10. Numbers'
  BY <1>1 DEF Numbers, Log!Idle
<1>11. SnapApart'
  <2> SUFFICES ASSUME NEW i \in 1..c, NEW j \in 1..c, u[i].id = u[j].id PROVE i = j
    BY <1>7, <1>8 DEF SnapApart, Apart
  <2>1. c + 1 - i \in DOMAIN s3 /\ c + 1 - j \in DOMAIN s3
    BY <1>5
  <2>2. s3[c + 1 - i].id = s3[c + 1 - j].id
    BY <1>7
  <2>3. c + 1 - i = c + 1 - j
    BY <1>1, <2>1, <2>2 DEF Numbers
  <2> QED
    BY <2>3
<1>12. ListApart' /\ NotLoaded' /\ ListIsLog'
  BY <1>1, <1>8 DEF ListApart, NotLoaded, ListIsLog
<1>13. OneBusy'
  BY <1>1 DEF OneBusy, Log!AllIdle, Log!Idle
<1>14. SnapIsLog'
  <2> SUFFICES ASSUME s7' PROVE /\ NoneEmitted' /\ s6'.clear # "answered"
                                /\ Len(u) = Len(s3) /\ \A i \in DOMAIN s3 : u[i] = s3[Len(s3) + 1 - i]
                                /\ \A i \in DOMAIN s5 : \E j \in DOMAIN s3 : s5[i].id <= s3[j].id
    BY <1>1, <1>8 DEF SnapIsLog
  <2>1. NoneEmitted'
    BY <1>1 DEF NoneEmitted, Log!AllIdle, Log!Idle
  <2>2. ASSUME NEW i \in DOMAIN s5 PROVE \E j \in DOMAIN s3 : s5[i].id <= s3[j].id
    <3>1. s5[i] \in Log!Entry /\ s5[i].id <= Log!TopOf(s3)
      BY <1>1, <1>2
    <3>2. s5[i].id \in Nat \ {0}
      BY <3>1 DEF Log!Entry
    <3>3. s3 # <<>>
      BY <3>1, <3>2 DEF Log!TopOf
    <3>4. \E j \in DOMAIN s3 : Log!TopOf(s3) = s3[j].id
      BY <1>2, <3>3, TopIsThere
    <3> QED
      BY <3>1, <3>4
  <2> QED
    BY <1>1, <1>5, <1>7, <1>8, <2>1, <2>2
<1> QED
  BY <1>9, <1>10, <1>11, <1>12, <1>13, <1>14 DEF LogInv

LEMMA RunClearStep == ASSUME LogBounds, LogInv, Log!RunClear PROVE LogInv'
<1>1. /\ LogTyped /\ Numbers /\ s3' = <<>> /\ s6' = [s6 EXCEPT !.clear = "answered"]
      /\ s7' = (s7 /\ Log!AllIdle /\ s6.load = "no" /\ s5 = <<>>)
      /\ UNCHANGED <<s1, s2, s4, s5>>
  BY DEF Log!RunClear, LogInv
<1>2. /\ s6' \in PanelRecords /\ s6'.clear = "answered" /\ s6'.load = s6.load
      /\ s6'.snap = s6.snap /\ s6'.list = s6.list /\ s6'.seen = s6.seen
      /\ s6'.open = s6.open /\ s6'.loaded = s6.loaded
  <2>1. s6 \in PanelRecords
    BY <1>1 DEF LogTyped
  <2> QED
    BY <1>1, <2>1 DEF PanelRecords
<1>3. LogTyped'
  <2>1. s3' \in Seq(Log!Entry) /\ Len(s3') = 0 /\ 0 <= Limit
    BY <1>1 DEF LogBounds
  <2>2. s7' \in BOOLEAN
    BY <1>1 DEF LogTyped, Log!AllIdle
  <2> QED
    BY <1>1, <1>2, <2>1, <2>2 DEF LogTyped
<1>4. Numbers'
  BY <1>1 DEF Numbers, Log!Idle
<1>5. SnapApart' /\ ListApart' /\ NotLoaded'
  BY <1>2 DEF LogInv, SnapApart, ListApart, NotLoaded, Apart
<1>6. OneBusy' /\ SnapIsLog'
  BY <1>1, <1>2 DEF OneBusy, SnapIsLog, Log!AllIdle, Log!Idle
<1>7. ListIsLog'
  BY <1>1, <1>2 DEF ListIsLog, Log!AllIdle, Log!Idle, NoneEmitted
<1> QED
  BY <1>3, <1>4, <1>5, <1>6, <1>7 DEF LogInv

\* What concerns the panel and the events alone.
LEMMA PanelStep ==
  ASSUME LogBounds, LogInv, UNCHANGED <<s1, s2, s3, s4, s7>>,
         s5' \in Seq(Log!Entry), Len(s5') <= Events,
         s6' \in PanelRecords, Len(s6'.list) <= Limit, Len(s6'.snap) <= Limit,
         SnapApart', ListApart', NotLoaded', SnapIsLog', ListIsLog'
  PROVE  LogInv'
<1>1. LogTyped'
  BY DEF LogInv, LogTyped
<1>2. Numbers' /\ OneBusy'
  BY DEF LogInv, Numbers, OneBusy, Log!Idle
<1> QED
  BY <1>1, <1>2 DEF LogInv

\* A list that is the log stays it.
LEMMA ListStays ==
  ASSUME ListIsLog, UNCHANGED <<s1, s2, s3, s4, s5, s7>>,
         s6'.open = s6.open, s6'.loaded = s6.loaded, s6'.list = s6.list,
         s6'.seen = s6.seen, s6'.clear = "answered" <=> s6.clear = "answered",
         s6'.listen # "on" => s6.listen # "on"
  PROVE  ListIsLog'
<1>1. CASE s7 /\ s6.open /\ s6.loaded /\ s6.clear # "answered"
  <2>1. PICK k \in 0..Len(s5) : Ahead(k)
    BY <1>1 DEF ListIsLog
  <2>2. Ahead(k)'
    BY <2>1, AheadStays
  <2>3. \E h \in 0..Len(s5') : Ahead(h)'
    BY <2>1, <2>2
  <2> QED
    BY <1>1, <2>3 DEF ListIsLog
<1>2. CASE ~(s7 /\ s6.open /\ s6.loaded /\ s6.clear # "answered")
  BY <1>2 DEF ListIsLog, NoneEmitted
<1> QED
  BY <1>1, <1>2

LEMMA RunListenStep == ASSUME LogBounds, LogInv, Log!RunListen PROVE LogInv'
<1>1. /\ LogTyped /\ s6.listen = "asked" /\ s6' = [s6 EXCEPT !.listen = "on"]
      /\ UNCHANGED <<s1, s2, s3, s4, s5, s7>>
  BY DEF Log!RunListen, LogInv
<1>2. /\ s6 \in PanelRecords /\ s5 \in Seq(Log!Entry) /\ Len(s5) <= Events
      /\ Len(s6.list) <= Limit /\ Len(s6.snap) <= Limit
  BY <1>1 DEF LogTyped
<1>3. /\ s6' \in PanelRecords /\ s6'.clear = s6.clear /\ s6'.load = s6.load
      /\ s6'.snap = s6.snap /\ s6'.list = s6.list /\ s6'.seen = s6.seen
      /\ s6'.open = s6.open /\ s6'.loaded = s6.loaded /\ s6'.listen = "on"
  BY <1>1, <1>2 DEF PanelRecords
<1>4. SnapApart' /\ ListApart' /\ NotLoaded'
  BY <1>3 DEF LogInv, SnapApart, ListApart, NotLoaded, Apart
<1>5. SnapIsLog'
  BY <1>1, <1>3 DEF LogInv, SnapIsLog, NoneEmitted
<1>6. ListIsLog'
  BY <1>1, <1>3, ListStays DEF LogInv
<1> QED
  BY <1>1, <1>2, <1>3, <1>4, <1>5, <1>6, PanelStep

LEMMA LogOpenStep == ASSUME LogBounds, LogInv, Log!Open PROVE LogInv'
<1>1. /\ LogTyped /\ s6.load = "no"
      /\ s6' = [s6 EXCEPT !.open = TRUE, !.seen = 0, !.load = "asked", !.loaded = FALSE]
      /\ UNCHANGED <<s1, s2, s3, s4, s5, s7>>
  BY DEF Log!Open, Log!Window, LogInv
<1>2. /\ s6 \in PanelRecords /\ s5 \in Seq(Log!Entry) /\ Len(s5) <= Events
      /\ Len(s6.list) <= Limit /\ Len(s6.snap) <= Limit
  BY <1>1 DEF LogTyped
<1>3. /\ s6' \in PanelRecords /\ s6'.load = "asked" /\ s6'.loaded = FALSE
      /\ s6'.list = s6.list /\ s6'.snap = s6.snap
  <2>1. 0 \in 0..MaxId
    BY DEF LogBounds
  <2> QED
    BY <1>1, <1>2, <2>1 DEF PanelRecords
<1>4. SnapApart' /\ ListApart' /\ NotLoaded' /\ SnapIsLog' /\ ListIsLog'
  BY <1>3 DEF SnapApart, ListApart, NotLoaded, SnapIsLog, ListIsLog
<1> QED
  BY <1>1, <1>2, <1>3, <1>4, PanelStep

LEMMA LogCloseStep == ASSUME LogBounds, LogInv, Log!Close PROVE LogInv'
<1>1. PICK l : /\ LogTyped /\ l \in {"off", "asked", "on"}
               /\ s6' = [s6 EXCEPT !.open = FALSE, !.seen = 0, !.listen = l]
               /\ UNCHANGED <<s1, s2, s3, s4, s5, s7>>
  <2>1. s6.listen \in {"off", "asked", "on"}
    BY DEF LogInv, LogTyped, PanelRecords
  <2> QED
    BY <2>1 DEF Log!Close, Log!Window, LogInv
<1>2. /\ s6 \in PanelRecords /\ s5 \in Seq(Log!Entry) /\ Len(s5) <= Events
      /\ Len(s6.list) <= Limit /\ Len(s6.snap) <= Limit
  BY <1>1 DEF LogTyped
<1>3. /\ s6' \in PanelRecords /\ s6'.load = s6.load /\ s6'.loaded = s6.loaded
      /\ s6'.list = s6.list /\ s6'.snap = s6.snap /\ s6'.open = FALSE
      /\ s6'.clear = s6.clear
  <2>1. 0 \in 0..MaxId
    BY DEF LogBounds
  <2> QED
    BY <1>1, <1>2, <2>1 DEF PanelRecords
<1>4. SnapApart' /\ ListApart' /\ NotLoaded' /\ ListIsLog'
  BY <1>3 DEF LogInv, SnapApart, ListApart, NotLoaded, ListIsLog, Apart
<1>5. SnapIsLog'
  BY <1>1, <1>3 DEF LogInv, SnapIsLog, NoneEmitted
<1> QED
  BY <1>1, <1>2, <1>3, <1>4, <1>5, PanelStep

LEMMA LoadFailsStep == ASSUME LogBounds, LogInv, Log!LoadFails PROVE LogInv'
<1>1. /\ LogTyped /\ ~s6.loaded /\ s6' = [s6 EXCEPT !.load = "no"]
      /\ UNCHANGED <<s1, s2, s3, s4, s5, s7>>
  BY DEF Log!LoadFails, Log!Window, LogInv, NotLoaded
<1>2. /\ s6 \in PanelRecords /\ s5 \in Seq(Log!Entry) /\ Len(s5) <= Events
      /\ Len(s6.list) <= Limit /\ Len(s6.snap) <= Limit
  BY <1>1 DEF LogTyped
<1>3. /\ s6' \in PanelRecords /\ s6'.load = "no" /\ s6'.loaded = FALSE
      /\ s6'.list = s6.list /\ s6'.snap = s6.snap
  BY <1>1, <1>2 DEF PanelRecords
<1>4. SnapApart' /\ ListApart' /\ NotLoaded' /\ SnapIsLog' /\ ListIsLog'
  BY <1>3 DEF SnapApart, ListApart, NotLoaded, SnapIsLog, ListIsLog
<1> QED
  BY <1>1, <1>2, <1>3, <1>4, PanelStep

LEMMA ClearStep == ASSUME LogBounds, LogInv, Log!Clear PROVE LogInv'
<1>1. /\ LogTyped /\ s6.clear = "no" /\ s6' = [s6 EXCEPT !.clear = "asked"]
      /\ UNCHANGED <<s1, s2, s3, s4, s5, s7>>
  BY DEF Log!Clear, Log!Window, LogInv
<1>2. /\ s6 \in PanelRecords /\ s5 \in Seq(Log!Entry) /\ Len(s5) <= Events
      /\ Len(s6.list) <= Limit /\ Len(s6.snap) <= Limit
  BY <1>1 DEF LogTyped
<1>3. /\ s6' \in PanelRecords /\ s6'.clear = "asked" /\ s6'.load = s6.load
      /\ s6'.snap = s6.snap /\ s6'.list = s6.list /\ s6'.seen = s6.seen
      /\ s6'.open = s6.open /\ s6'.loaded = s6.loaded /\ s6'.listen = s6.listen
  BY <1>1, <1>2 DEF PanelRecords
<1>4. SnapApart' /\ ListApart' /\ NotLoaded'
  BY <1>3 DEF LogInv, SnapApart, ListApart, NotLoaded, Apart
<1>5. SnapIsLog'
  BY <1>1, <1>3 DEF LogInv, SnapIsLog, NoneEmitted
<1>6. ListIsLog'
  BY <1>1, <1>3, ListStays DEF LogInv
<1> QED
  BY <1>1, <1>2, <1>3, <1>4, <1>5, <1>6, PanelStep

\* The number of the log's highest entry, for the panel to go on from.
LEMMA HighestSeen ==
  ASSUME LogBounds, LogInv, NEW q \in Seq(Log!Entry),
         \A i \in DOMAIN q : \E j \in DOMAIN s3 : q[i] = s3[j],
         \A j \in DOMAIN s3 : \E i \in DOMAIN q : q[i] = s3[j]
  PROVE  /\ Log!TopOf(q) \in 0..MaxId /\ Log!TopOf(q) < s2[s1]
         /\ \A i \in DOMAIN q : q[i].id <= Log!TopOf(q)
         /\ \A j \in DOMAIN s3 : s3[j].id <= Log!TopOf(q)
         /\ Log!TopOf(q) = 0 \/ \E j \in DOMAIN s3 : Log!TopOf(q) = s3[j].id
<1>1. Log!TopOf(q) \in 0..MaxId
  BY TopTyped
<1>2. s2[s1] \in Nat \ {0}
  BY DEF LogInv, LogTyped, LogBounds
<1>3. CASE q = <<>>
  <2>1. Log!TopOf(q) = 0 /\ DOMAIN q = {}
    BY <1>3 DEF Log!TopOf
  <2> QED
    BY <1>1, <1>2, <2>1
<1>4. CASE q # <<>>
  <2>1. PICK i \in DOMAIN q : Log!TopOf(q) = q[i].id /\ \A j \in DOMAIN q : q[j].id <= q[i].id
    BY <1>4, TopIsThere
  <2>2. PICK j \in DOMAIN s3 : q[i] = s3[j]
    OBVIOUS
  <2>3. s3[j].id < s2[s1]
    BY DEF LogInv, Numbers
  <2> QED
    BY <1>1, <2>1, <2>2, <2>3
<1> QED
  BY <1>3, <1>4

LEMMA LoadedStep == ASSUME LogBounds, LogInv, Log!Loaded PROVE LogInv'
<1>1. /\ LogTyped /\ Numbers /\ s6.load = "answered" /\ ~s6.loaded
      /\ s6' = [s6 EXCEPT !.load = "no", !.snap = <<>>, !.list = s6.snap,
                                !.seen = Log!TopOf(s6.snap), !.listen = "asked",
                                !.loaded = s6.open]
      /\ UNCHANGED <<s1, s2, s3, s4, s5, s7>>
  BY DEF Log!Loaded, Log!Window, LogInv, NotLoaded
<1>2. /\ s6 \in PanelRecords /\ s5 \in Seq(Log!Entry) /\ Len(s5) <= Events
      /\ s6.snap \in Seq(Log!Entry) /\ Len(s6.snap) <= Limit /\ s3 \in Seq(Log!Entry)
      /\ s2[s1] \in Nat
  BY <1>1 DEF LogTyped, PanelRecords, LogBounds
<1>3. PICK q \in Seq(Log!Entry), m \in 0..MaxId : q = s6.snap /\ m = Log!TopOf(q) /\ Len(q) <= Limit
  BY <1>2, TopTyped
<1>4. m \in 0..MaxId
  BY <1>3
<1>5. /\ s6' \in PanelRecords /\ s6'.load = "no" /\ s6'.snap = <<>> /\ s6'.list = q
      /\ s6'.seen = m /\ s6'.listen = "asked" /\ s6'.loaded = s6.open
      /\ s6'.open = s6.open /\ s6'.clear = s6.clear
  <2>1. /\ s6' = [s6 EXCEPT !.load = "no", !.snap = <<>>, !.list = q, !.seen = m,
                                  !.listen = "asked", !.loaded = s6.open]
        /\ <<>> \in Seq(Log!Entry)
    BY <1>1, <1>3
  <2> QED
    BY <1>2, <1>3, <1>4, <2>1 DEF PanelRecords
<1>6. Len(s6'.list) <= Limit /\ Len(s6'.snap) <= Limit
  <2>1. Len(<<>>) = 0 /\ 0 <= Limit
    BY DEF LogBounds
  <2> QED
    BY <1>3, <1>5, <2>1
<1>7. SnapApart' /\ NotLoaded' /\ SnapIsLog'
  BY <1>5 DEF SnapApart, NotLoaded, SnapIsLog
<1>8. ListApart'
  <2>1. Apart(q)
    BY <1>1, <1>3 DEF LogInv, SnapApart
  <2>2. \A i \in DOMAIN q : q[i].id <= m
    <3>1. CASE q = <<>>
      BY <3>1
    <3>2. CASE q # <<>>
      BY <1>3, <3>2, TopIsThere
    <3> QED
      BY <3>1, <3>2
  <2> QED
    BY <1>5, <2>1, <2>2 DEF ListApart, Apart
<1>9. ListIsLog'
  <2> SUFFICES ASSUME s7, s6.open
               PROVE  /\ s6.clear # "answered"
                      /\ \E k \in 0..Len(s5) : Ahead(k)'
    BY <1>1, <1>5 DEF ListIsLog
  <2>1. /\ NoneEmitted /\ s6.clear # "answered"
        /\ Len(q) = Len(s3) /\ \A i \in DOMAIN s3 : q[i] = s3[Len(s3) + 1 - i]
        /\ \A i \in DOMAIN s5 : \E j \in DOMAIN s3 : s5[i].id <= s3[j].id
    BY <1>1, <1>3 DEF LogInv, SnapIsLog
  <2>2. PICK c \in Nat, n \in Nat :
          c = Len(s3) /\ n = Len(s5) /\ DOMAIN s3 = 1..c /\ DOMAIN s5 = 1..n /\ DOMAIN q = 1..c
    BY <1>2, <1>3, <2>1
  <2>3. \A i \in 1..c : c + 1 - i \in 1..c /\ c + 1 - (c + 1 - i) = i
    OBVIOUS
  <2>4. /\ \A i \in DOMAIN q : \E j \in DOMAIN s3 : q[i] = s3[j]
        /\ \A j \in DOMAIN s3 : \E i \in DOMAIN q : q[i] = s3[j]
    <3>1. ASSUME NEW i \in 1..c PROVE q[i] = s3[c + 1 - i] /\ q[c + 1 - i] = s3[i]
      <4>1. \A j \in 1..c : q[j] = s3[c + 1 - j]
        BY <2>1, <2>2
      <4>2. c + 1 - i \in 1..c /\ c + 1 - (c + 1 - i) = i
        BY <2>3
      <4>3. q[c + 1 - i] = s3[c + 1 - (c + 1 - i)]
        BY <4>1, <4>2
      <4> QED
        BY <4>1, <4>2, <4>3
    <3> QED
      BY <2>2, <2>3, <3>1
  <2>5. /\ m < s2[s1] /\ \A j \in DOMAIN s3 : s3[j].id <= m
        /\ m = 0 \/ \E j \in DOMAIN s3 : m = s3[j].id
    BY <1>3, <2>4, HighestSeen
  <2>6. ASSUME NEW i \in DOMAIN s5 PROVE s5[i].id \in Nat /\ s5[i].id <= m
    <3>1. PICK j \in DOMAIN s3 : s5[i].id <= s3[j].id
      BY <2>1
    <3>2. s5[i] \in Log!Entry /\ s3[j] \in Log!Entry
      BY <1>2
    <3>3. s5[i].id \in Nat /\ s3[j].id \in Nat
      BY <3>2 DEF Log!Entry
    <3> QED
      BY <1>4, <2>5, <3>1, <3>3
  <2>7. ASSUME NEW w \in Writers, s4[w].st = "numbered" PROVE m < s4[w].entry.id
    <3>1. /\ s4[w].entry.log = s1 /\ s4[w].entry.id = s2[s1] - 1
          /\ \A j \in DOMAIN s3 : s3[j].id # s4[w].entry.id
      BY <1>1, <2>7 DEF LogInv, OneBusy, Numbers, Log!Idle
    <3>2. s4[w].entry \in Log!Entry
      BY <1>1 DEF LogTyped, PushRecords
    <3>3. s4[w].entry.id \in Nat \ {0}
      BY <3>2 DEF Log!Entry
    <3>4. m # s4[w].entry.id
      BY <2>5, <3>1, <3>3
    <3> QED
      BY <1>2, <1>4, <2>5, <3>1, <3>3, <3>4
  <2>8. ASSUME NEW w \in Writers, s4[w].st = "numbered", NEW i \in DOMAIN s5
        PROVE  s5[i].id < s4[w].entry.id
    <3>1. s4[w].entry \in Log!Entry
      BY <1>1 DEF LogTyped, PushRecords
    <3>2. s4[w].entry.id \in Nat
      BY <3>1 DEF Log!Entry
    <3> QED
      BY <1>4, <2>6, <2>7, <2>8, <3>2
  <2>9. \A i \in DOMAIN s5 : s5[i].id < s2[s1]
    BY <1>2, <1>4, <2>5, <2>6
  <2>10. Same(Awaited(s5, Len(s5), q), Len(s5) - Len(s5) + Len(q), Newest(s3), Len(s3))
    BY <1>2, <2>1, StartSame
  <2>11. PICK k : k = Len(s5) /\ k = n
    BY <2>2
  <2>12. Same(Awaited(s5, k, q), Len(s5) - k + Len(q), Newest(s3), Len(s3))
    BY <2>10, <2>11
  <2>13. /\ \A i \in 1..k : s5[i].id <= m
         /\ \A i \in k + 1..Len(s5) : FALSE
    BY <2>2, <2>6, <2>11
  <2>14. \A w \in Writers : s4[w].st # "emitted"
    BY <2>1 DEF NoneEmitted
  <2>15. Ahead(k)'
    BY <1>1, <1>5, <2>5, <2>7, <2>8, <2>9, <2>11, <2>12, <2>13, <2>14 DEF Ahead, NoneEmitted
  <2>16. k \in 0..Len(s5)
    BY <2>11
  <2> QED
    BY <2>1, <2>15, <2>16
<1> QED
  BY <1>1, <1>2, <1>5, <1>6, <1>7, <1>8, <1>9, PanelStep

LEMMA ClearedStep == ASSUME LogBounds, LogInv, Log!Cleared PROVE LogInv'
<1>1. /\ LogTyped /\ s6.clear = "answered"
      /\ s6' = [s6 EXCEPT !.clear = "no", !.seen = 0, !.list = <<>>]
      /\ UNCHANGED <<s1, s2, s3, s4, s5, s7>>
  BY DEF Log!Cleared, Log!Window, LogInv
<1>2. /\ s6 \in PanelRecords /\ s5 \in Seq(Log!Entry) /\ Len(s5) <= Events
      /\ Len(s6.snap) <= Limit /\ s2[s1] \in Nat \ {0}
  BY <1>1 DEF LogTyped, LogBounds
<1>3. /\ s6' \in PanelRecords /\ s6'.clear = "no" /\ s6'.load = s6.load
      /\ s6'.snap = s6.snap /\ s6'.list = <<>> /\ s6'.seen = 0
      /\ s6'.open = s6.open /\ s6'.loaded = s6.loaded
  <2>1. 0 \in 0..MaxId /\ <<>> \in Seq(Log!Entry)
    BY DEF LogBounds
  <2> QED
    BY <1>1, <1>2, <2>1 DEF PanelRecords
<1>4. Len(s6'.list) = 0 /\ 0 <= Limit
  BY <1>3 DEF LogBounds
<1>5. SnapApart' /\ ListApart' /\ NotLoaded'
  BY <1>3 DEF LogInv, SnapApart, ListApart, NotLoaded, Apart
<1>6. SnapIsLog'
  BY <1>1, <1>3 DEF LogInv, SnapIsLog
<1>7. ListIsLog'
  <2> SUFFICES ASSUME s7, s6.open, s6.loaded PROVE \E k \in 0..Len(s5) : Ahead(k)'
    BY <1>1, <1>3 DEF ListIsLog
  <2>1. s3 = <<>> /\ s5 = <<>> /\ NoneEmitted
    BY <1>1 DEF LogInv, ListIsLog
  <2>2. Same(Awaited(<<>>, Len(<<>>), <<>>), Len(<<>>) - Len(<<>>) + Len(<<>>), Newest(<<>>), Len(<<>>))
    <3>1. PICK q : q = <<>>
      OBVIOUS
    <3>2. q \in Seq(Log!Entry) /\ DOMAIN q = {}
      BY <3>1
    <3>3. \A i \in DOMAIN q : q[i] = q[Len(q) + 1 - i]
      BY <3>2
    <3>4. Same(Awaited(q, Len(q), q), Len(q) - Len(q) + Len(q), Newest(q), Len(q))
      BY <3>2, <3>3, StartSame
    <3> QED
      BY <3>1, <3>4
  <2>3. PICK k : k = Len(<<>>) /\ k = 0
    OBVIOUS
  <2>4. Same(Awaited(<<>>, k, <<>>), Len(<<>>) - k + Len(<<>>), Newest(<<>>), Len(<<>>))
    BY <2>2, <2>3
  <2>5. ASSUME NEW w \in Writers, s4[w].st = "numbered" PROVE 0 < s4[w].entry.id
    <3>1. s4[w].entry \in Log!Entry
      BY <1>1 DEF LogTyped, PushRecords
    <3> QED
      BY <3>1 DEF Log!Entry
  <2>6. Ahead(k)'
    BY <1>1, <1>2, <1>3, <2>1, <2>3, <2>4, <2>5 DEF Ahead, NoneEmitted
  <2>7. k \in 0..Len(s5)
    BY <2>1, <2>3
  <2> QED
    BY <2>6, <2>7
<1> QED
  BY <1>1, <1>2, <1>3, <1>4, <1>5, <1>6, <1>7, PanelStep

LEMMA ArrivesStep == ASSUME LogBounds, LogInv, Log!Arrives PROVE LogInv'
<1>1. /\ LogTyped /\ Numbers /\ s5 # <<>> /\ s5' = Tail(s5)
      /\ UNCHANGED <<s1, s2, s3, s4, s7>>
  BY DEF Log!Arrives, Log!Window, LogInv
<1>2. PICK e : e = Head(s5)
  OBVIOUS
<1>3. \/ /\ s6.listen = "on" /\ e.id > s6.seen
         /\ s6' = [s6 EXCEPT !.list = Log!NewestFirst(<<e>> \o s6.list), !.seen = e.id]
      \/ ~(s6.listen = "on" /\ e.id > s6.seen) /\ s6' = s6
  BY <1>2 DEF Log!Arrives, Log!Window, Log!New
<1>4. /\ s6 \in PanelRecords /\ s5 \in Seq(Log!Entry) /\ Len(s5) <= Events
      /\ Events \in Nat /\ Len(s6.list) <= Limit /\ Len(s6.snap) <= Limit
      /\ s6.list \in Seq(Log!Entry) /\ s6.seen \in Nat /\ s3 \in Seq(Log!Entry)
  BY <1>1 DEF LogTyped, PanelRecords, LogBounds
<1>5. PICK n \in Nat \ {0}, t \in Seq(Log!Entry) : n = Len(s5) /\ t = Tail(s5)
  <2>1. Tail(s5) \in Seq(Log!Entry)
    BY <1>1, <1>4
  <2>2. Len(s5) \in Nat \ {0}
    BY <1>1, <1>4
  <2> QED
    BY <2>1, <2>2
<1>6. /\ t \in Seq(Log!Entry) /\ Len(t) = n - 1 /\ \A i \in 1..n - 1 : t[i] = s5[i + 1]
      /\ e = s5[1] /\ e \in Log!Entry /\ DOMAIN s5 = 1..n /\ DOMAIN t = 1..n - 1
  BY <1>1, <1>2, <1>4, <1>5
<1>7. e.id \in 1..MaxId /\ e.id \in Nat
  BY <1>6 DEF Log!Entry
<1>8. s5' = t /\ t \in Seq(Log!Entry) /\ Len(t) <= Events
  <2>1. n - 1 <= Events
    BY <1>4, <1>5
  <2> QED
    BY <1>1, <1>5, <1>6, <2>1
<1>9. PICK l : l = Log!NewestFirst(<<e>> \o s6.list)
  OBVIOUS
<1>10. PICK v : v = <<e>> \o s6.list
  OBVIOUS
<1>11. /\ v \in Seq(Log!Entry) /\ Len(v) = Len(s6.list) + 1 /\ v[1] = e
       /\ \A i \in 1..Len(s6.list) : v[i + 1] = s6.list[i]
  BY <1>4, <1>6, <1>10, FirstTyped
<1>12. l \in Seq(Log!Entry) /\ Len(l) <= Limit /\ \A i \in DOMAIN l : i \in DOMAIN v /\ l[i] = v[i]
  BY <1>9, <1>10, <1>11, NewestTyped
<1>13. CASE s6.listen = "on" /\ e.id > s6.seen
  <2>1. /\ s6' \in PanelRecords /\ s6'.list = l /\ s6'.seen = e.id
        /\ s6'.load = s6.load /\ s6'.loaded = s6.loaded /\ s6'.open = s6.open
        /\ s6'.clear = s6.clear /\ s6'.snap = s6.snap /\ s6'.listen = s6.listen
    <3>1. s6' = [s6 EXCEPT !.list = l, !.seen = e.id] /\ e.id \in 0..MaxId
      BY <1>3, <1>7, <1>9, <1>13
    <3> QED
      BY <1>4, <1>12, <3>1 DEF PanelRecords
  <2>2. SnapApart' /\ NotLoaded'
    BY <2>1 DEF LogInv, SnapApart, NotLoaded, Apart
  <2>3. ListApart'
    <3> SUFFICES ASSUME s6.open, s6.loaded
                 PROVE  Apart(l) /\ \A i \in DOMAIN l : l[i].id <= e.id
      BY <2>1 DEF ListApart, Apart
    <3>1. /\ \A i, j \in DOMAIN s6.list : s6.list[i].id = s6.list[j].id => i = j
          /\ \A i \in DOMAIN s6.list : s6.list[i].id <= s6.seen
      BY DEF LogInv, ListApart, Apart
    <3>2. PICK b \in Nat : b = Len(s6.list) /\ DOMAIN s6.list = 1..b /\ DOMAIN v = 1..b + 1
      BY <1>4, <1>11
    <3>3. ASSUME NEW i \in 1..b + 1, i # 1
          PROVE  /\ i - 1 \in 1..b /\ v[i] = s6.list[i - 1] /\ v[i].id \in Nat /\ v[i].id < e.id
      <4>1. PICK h \in 1..b : i = h + 1
        BY <3>3
      <4>2. v[i] = s6.list[h] /\ s6.list[h] \in Log!Entry
        BY <1>4, <1>11, <3>2, <4>1
      <4>3. s6.list[h].id \in Nat /\ s6.list[h].id <= s6.seen
        BY <3>1, <3>2, <4>2 DEF Log!Entry
      <4> QED
        BY <1>4, <1>7, <1>13, <4>1, <4>2, <4>3
    <3>4. ASSUME NEW i \in 1..b + 1, NEW j \in 1..b + 1, v[i].id = v[j].id PROVE i = j
      <4>1. CASE i = 1 /\ j # 1
        BY <1>7, <1>11, <3>3, <3>4, <4>1
      <4>2. CASE i # 1 /\ j = 1
        BY <1>7, <1>11, <3>3, <3>4, <4>2
      <4>3. CASE i # 1 /\ j # 1
        <5>1. /\ i - 1 \in 1..b /\ v[i] = s6.list[i - 1]
              /\ j - 1 \in 1..b /\ v[j] = s6.list[j - 1]
          BY <3>3, <4>3
        <5>2. i - 1 = j - 1
          BY <3>1, <3>2, <3>4, <5>1
        <5> QED
          BY <5>2
      <4> QED
        BY <4>1, <4>2, <4>3
    <3>5. \A i \in 1..b + 1 : v[i].id <= e.id
      BY <1>7, <1>11, <3>3
    <3> QED
      BY <1>12, <3>2, <3>4, <3>5 DEF Apart
  <2>4. SnapIsLog'
    <3> SUFFICES ASSUME s7, s6.load = "answered" PROVE SnapIsLog'
      BY <1>1, <2>1 DEF SnapIsLog
    <3>1. \A i \in 1..n - 1 : i + 1 \in DOMAIN s5
      BY <1>6
    <3> QED
      BY <1>1, <1>6, <1>8, <2>1, <3>1 DEF LogInv, SnapIsLog, NoneEmitted
  <2>5. ListIsLog'
    <3> SUFFICES ASSUME s7, s6.open, s6.loaded
                 PROVE  s6.clear # "answered" /\ \E k \in 0..Len(t) : Ahead(k)'
      BY <1>1, <1>8, <2>1 DEF ListIsLog
    <3>1. s6.clear # "answered"
      BY <1>1 DEF LogInv, ListIsLog
    <3>2. PICK k \in 0..n : Ahead(k)
      BY <1>5, <3>1 DEF LogInv, ListIsLog
    <3>3. k = 0
      <4>1. \A i \in 1..k : s5[i].id <= s6.seen
        BY <3>2 DEF Ahead
      <4>2. ~(s5[1].id <= s6.seen)
        BY <1>4, <1>6, <1>7, <1>13
      <4> QED
        BY <4>1, <4>2
    <3>4. /\ \A i \in 1..n : \A j \in i + 1..n : s5[j].id > s5[i].id
          /\ \A i \in 1..n : s5[i].id < s2[s1]
          /\ \A w \in Writers : s4[w].st = "numbered" => \A i \in 1..n : s5[i].id < s4[w].entry.id
      BY <1>5, <1>6, <3>2, <3>3 DEF Ahead
    <3>5. \A i \in 1..n - 1 : i + 1 \in 1..n /\ i + 1 \in 2..n
      OBVIOUS
    <3>6. ASSUME NEW i \in 1..n - 1
          PROVE  t[i].id > e.id /\ \A j \in i + 1..n - 1 : t[j].id > t[i].id
      <4>1. t[i].id > e.id
        BY <1>6, <3>4, <3>5
      <4>2. ASSUME NEW j \in i + 1..n - 1 PROVE t[j].id > t[i].id
        <5>1. j \in 1..n - 1 /\ j + 1 \in i + 1 + 1..n /\ i + 1 \in 1..n
          OBVIOUS
        <5> QED
          BY <1>6, <3>4, <5>1
      <4> QED
        BY <4>1, <4>2
    <3>7. e.id < s2[s1] /\ \A i \in 1..n - 1 : t[i].id < s2[s1]
      BY <1>6, <3>4, <3>5
    <3>8. ASSUME NEW w \in Writers, s4[w].st = "numbered"
          PROVE  e.id < s4[w].entry.id /\ \A i \in 1..n - 1 : t[i].id < s4[w].entry.id
      <4>1. \A i \in 1..n : s5[i].id < s4[w].entry.id
        BY <3>4, <3>8
      <4>2. e.id < s4[w].entry.id
        BY <1>6, <4>1
      <4> QED
        BY <1>6, <3>5, <4>1, <4>2
    <3>9. ASSUME NEW x, NEW m, Same(Awaited(s5, 0, s6.list), Len(s5) - 0 + Len(s6.list), x, m)
          PROVE  Same(Awaited(t, 0, l), Len(t) - 0 + Len(l), x, m)
      <4>1. l = Log!NewestFirst(<<Head(s5)>> \o s6.list)
        BY <1>2, <1>9
      <4> QED
        BY <1>1, <1>4, <1>5, <3>9, <4>1, TakeSame
    <3>10. /\ NoneEmitted => Same(Awaited(t, 0, l), Len(t) - 0 + Len(l), Newest(s3), Len(s3))
           /\ \A w \in Writers : s4[w].st = "emitted" =>
                Same(Awaited(t, 0, l), Len(t) - 0 + Len(l), WithFirst(s4[w].entry, s3), Len(s3) + 1)
      BY <3>2, <3>3, <3>9 DEF Ahead
    <3>11. PICK h : h = 0
      OBVIOUS
    <3>14. \A i \in h + 1..n - 1 : t[i].id > e.id /\ \A j \in i + 1..n - 1 : t[j].id > t[i].id
      BY <3>6, <3>11
    <3>15. \A i \in 1..h : t[i].id <= e.id
      BY <3>11
    <3>16. /\ NoneEmitted => Same(Awaited(t, h, l), Len(t) - h + Len(l), Newest(s3), Len(s3))
           /\ \A w \in Writers : s4[w].st = "emitted" =>
                Same(Awaited(t, h, l), Len(t) - h + Len(l), WithFirst(s4[w].entry, s3), Len(s3) + 1)
      BY <3>10, <3>11
    <3>12. Ahead(h)'
      BY <1>1, <1>6, <1>8, <1>13, <2>1, <3>7, <3>8, <3>14, <3>15, <3>16 DEF Ahead, NoneEmitted
    <3>13. h \in 0..Len(t)
      BY <1>6, <3>11
    <3> QED
      BY <3>1, <3>12, <3>13
  <2> QED
    BY <1>1, <1>4, <1>8, <1>12, <2>1, <2>2, <2>3, <2>4, <2>5, PanelStep
<1>14. CASE ~(s6.listen = "on" /\ e.id > s6.seen)
  <2>1. s6' = s6
    BY <1>3, <1>14
  <2>2. SnapApart' /\ NotLoaded' /\ ListApart'
    BY <2>1 DEF LogInv, SnapApart, NotLoaded, ListApart, Apart
  <2>3. SnapIsLog'
    <3> SUFFICES ASSUME s7, s6.load = "answered" PROVE SnapIsLog'
      BY <1>1, <2>1 DEF SnapIsLog
    <3>1. \A i \in 1..n - 1 : i + 1 \in DOMAIN s5
      BY <1>6
    <3>2. /\ NoneEmitted /\ s6.clear # "answered"
          /\ Len(s6.snap) = Len(s3) /\ \A i \in DOMAIN s3 : s6.snap[i] = s3[Len(s3) + 1 - i]
      BY DEF LogInv, SnapIsLog
    <3>3. \A i \in DOMAIN s5 : \E j \in DOMAIN s3 : s5[i].id <= s3[j].id
      BY DEF LogInv, SnapIsLog
    <3>4. \A i \in DOMAIN t : \E j \in DOMAIN s3 : t[i].id <= s3[j].id
      BY <1>6, <3>1, <3>3
    <3>5. NoneEmitted'
      BY <1>1, <3>2 DEF NoneEmitted
    <3> QED
      BY <1>1, <1>8, <2>1, <3>2, <3>4, <3>5 DEF SnapIsLog
  <2>4. ListIsLog'
    <3> SUFFICES ASSUME s7, s6.open, s6.loaded
                 PROVE  s6.clear # "answered" /\ \E k \in 0..Len(t) : Ahead(k)'
      BY <1>1, <1>8, <2>1 DEF ListIsLog
    <3>1. s6.clear # "answered"
      BY <1>1 DEF LogInv, ListIsLog
    <3>2. PICK k \in 0..n : Ahead(k)
      BY <1>5, <3>1 DEF LogInv, ListIsLog
    <3>3. k # 0
      <4>1. s6.listen # "on" => k = n
        BY <1>5, <3>2 DEF Ahead
      <4>2. k = 0 => s5[1].id > s6.seen
        BY <1>5, <3>2 DEF Ahead
      <4> QED
        BY <1>6, <1>14, <4>1, <4>2
    <3>4. PICK h \in 0..n - 1 : h = k - 1
      BY <3>3
    <3>5. /\ \A i \in 1..k : s5[i].id <= s6.seen
          /\ \A i \in k + 1..n : s5[i].id > s6.seen /\ \A j \in i + 1..n : s5[j].id > s5[i].id
          /\ s6.seen < s2[s1] /\ \A i \in 1..n : s5[i].id < s2[s1]
          /\ \A w \in Writers : s4[w].st = "numbered" =>
               s6.seen < s4[w].entry.id /\ \A i \in 1..n : s5[i].id < s4[w].entry.id
          /\ s6.listen # "on" => k = n /\ NoneEmitted
      BY <1>5, <1>6, <3>2 DEF Ahead
    <3>6. \A i \in 1..n - 1 : i + 1 \in 1..n
      OBVIOUS
    <3>7. \A i \in 1..h : i + 1 \in 1..k /\ i \in 1..n - 1
      BY <3>4
    <3>8. \A i \in 1..h : t[i].id <= s6.seen
      BY <1>6, <3>5, <3>7
    <3>9. ASSUME NEW i \in h + 1..n - 1
          PROVE  t[i].id > s6.seen /\ \A j \in i + 1..n - 1 : t[j].id > t[i].id
      <4>1. i + 1 \in k + 1..n /\ i \in 1..n - 1
        BY <3>4
      <4>2. t[i].id > s6.seen
        BY <1>6, <3>5, <4>1
      <4>3. ASSUME NEW j \in i + 1..n - 1 PROVE t[j].id > t[i].id
        <5>1. j \in 1..n - 1 /\ j + 1 \in i + 1 + 1..n
          BY <4>1
        <5> QED
          BY <1>6, <3>5, <4>1, <5>1
      <4> QED
        BY <4>2, <4>3
    <3>10. \A i \in 1..n - 1 : t[i].id < s2[s1]
      BY <1>6, <3>5, <3>6
    <3>11. \A w \in Writers : s4[w].st = "numbered" =>
             s6.seen < s4[w].entry.id /\ \A i \in 1..n - 1 : t[i].id < s4[w].entry.id
      BY <1>6, <3>5, <3>6
    <3>12. ASSUME NEW x, NEW m, Same(Awaited(s5, k, s6.list), Len(s5) - k + Len(s6.list), x, m)
           PROVE  Same(Awaited(t, h, s6.list), Len(t) - h + Len(s6.list), x, m)
      <4>1. k \in 1..Len(s5)
        BY <1>5, <3>3
      <4>2. Same(Awaited(Tail(s5), k - 1, s6.list), Len(Tail(s5)) - (k - 1) + Len(s6.list), x, m)
        BY <1>4, <3>12, <4>1, DropSame
      <4> QED
        BY <1>5, <3>4, <4>2
    <3>13. /\ NoneEmitted => Same(Awaited(t, h, s6.list), Len(t) - h + Len(s6.list), Newest(s3), Len(s3))
           /\ \A w \in Writers : s4[w].st = "emitted" =>
                Same(Awaited(t, h, s6.list), Len(t) - h + Len(s6.list),
                     WithFirst(s4[w].entry, s3), Len(s3) + 1)
      BY <3>2, <3>12 DEF Ahead
    <3>14. s6.listen # "on" => h = Len(t) /\ NoneEmitted
      BY <1>6, <3>4, <3>5
    <3>15. Ahead(h)'
      BY <1>1, <1>6, <1>8, <2>1, <3>5, <3>8, <3>9, <3>10, <3>11, <3>13, <3>14 DEF Ahead, NoneEmitted
    <3>16. h \in 0..Len(t)
      BY <1>6, <3>4
    <3> QED
      BY <3>1, <3>15, <3>16
  <2> QED
    BY <1>1, <1>4, <1>8, <2>1, <2>2, <2>3, <2>4, PanelStep
<1> QED
  BY <1>13, <1>14

LEMMA LogInvStep == ASSUME LogBounds, LogInv, Log!Next \/ UNCHANGED Log!vars PROVE LogInv'
<1>1. ASSUME NEW w \in Writers, Log!Number(w) PROVE LogInv'
  BY <1>1, NumberStep
<1>2. ASSUME NEW w \in Writers, Log!Emit(w) PROVE LogInv'
  BY <1>2, EmitStep
<1>3. ASSUME NEW w \in Writers, Log!Store(w) PROVE LogInv'
  BY <1>3, StoreStep
<1>4. CASE Log!Replaced \/ Log!RunQuery \/ Log!RunClear \/ Log!RunListen
  BY <1>4, ReplacedStep, RunQueryStep, RunClearStep, RunListenStep
<1>5. CASE Log!Open \/ Log!Close \/ Log!Loaded \/ Log!LoadFails
  BY <1>5, LogOpenStep, LogCloseStep, LoadedStep, LoadFailsStep
<1>6. CASE Log!Clear \/ Log!Cleared \/ Log!Arrives
  BY <1>6, ClearStep, ClearedStep, ArrivesStep
<1>7. CASE UNCHANGED Log!vars
  <2>1. UNCHANGED <<s1, s2, s3, s4, s5, s7>> /\ UNCHANGED s6
    BY <1>7 DEF Log!vars
  <2>2. ListIsLog'
    BY <2>1, ListStays DEF LogInv
  <2>3. SnapApart' /\ ListApart' /\ NotLoaded' /\ SnapIsLog'
    BY <2>1 DEF LogInv, SnapApart, ListApart, NotLoaded, SnapIsLog, Apart, NoneEmitted
  <2> QED
    BY <2>1, <2>2, <2>3, PanelStep DEF LogInv, LogTyped
<1> QED
  BY <1>1, <1>2, <1>3, <1>4, <1>5, <1>6, <1>7 DEF Log!Next

LEMMA LogSafe == ASSUME LogBounds, LogInv PROVE Log!TypeOK /\ Log!NoTwins /\ Log!PanelFollows
<1>1. Log!TypeOK
  BY DEF LogInv, LogTyped, Log!TypeOK, PushRecords, PanelRecords
<1>2. Log!NoTwins
  BY DEF LogInv, ListApart, Apart, Log!NoTwins
<1>3. Log!PanelFollows
  <2> SUFFICES ASSUME s6.open, s6.loaded, s6.clear = "no", Log!AllIdle, s5 = <<>>, s7
               PROVE  s6.list = Log!NewestFirst(Log!Reverse(s3))
    BY DEF Log!PanelFollows
  <2>1. NoneEmitted
    BY DEF Log!AllIdle, Log!Idle, NoneEmitted
  <2>2. PICK k \in 0..Len(s5) : Ahead(k)
    BY DEF LogInv, ListIsLog
  <2>3. /\ s5 \in Seq(Log!Entry) /\ s6.list \in Seq(Log!Entry) /\ s3 \in Seq(Log!Entry)
        /\ Len(s6.list) <= Limit /\ Len(s3) <= Limit
    BY DEF LogInv, LogTyped, PanelRecords
  <2>4. k = Len(s5)
    BY <2>2, <2>3
  <2>5. Same(Awaited(s5, k, s6.list), Len(s5) - k + Len(s6.list), Newest(s3), Len(s3))
    BY <2>1, <2>2 DEF Ahead
  <2> QED
    BY <2>3, <2>4, <2>5, CaughtUp
<1> QED
  BY <1>1, <1>2, <1>3

LEMMA LogInit == Init => (part = "log" => LogInv)
BY PanelsAssumption, LogInvInit DEF PanelsAssumption, LogBounds, Init

LEMMA LogStep ==
  ASSUME part = "log" => LogInv, [Next]_vars
  PROVE  (part = "log" => LogInv)'
<1> SUFFICES ASSUME part = "log", LogInv PROVE LogInv'
  BY DEF Next, vars
<1>1. LogBounds
  BY PanelsAssumption DEF PanelsAssumption, LogBounds
<1>2. Log!Next \/ UNCHANGED Log!vars
  BY DEF Next, vars, Log!vars
<1> QED
  BY <1>1, <1>2, LogInvStep

\* A panel that has loaded has no two rows of one number, and one that has caught up shows the
\* log, for any writers, clients, limits and events under way: CommandLog.vue, push_entry.
THEOREM PanelShowsLog == Spec => []PanelFollows
<1>1. (part = "log" => LogInv) => PanelFollows
  BY PanelsAssumption, LogSafe DEF PanelsAssumption, LogBounds, PanelFollows
<1>2. Spec => Init /\ [][Next]_vars
  BY DEF Spec
<1> QED
  BY <1>1, <1>2, LogInit, LogStep, PTL

-----------------------------------------------------------------------------
(* Pages: ask, held, cursor, shown, steady and calm are s1 to s6.  Of what is read by place,
   the pages have shown every element that the cursor has passed, and nothing else (PlacesRead).
   The rows of a list are numbered from the end that it is read from (ListRead), those of a
   sorted set are the first in its order (ScoresRead), and a sample is one page (SampleRead). *)

Items(q) == {q[i] : i \in DOMAIN q}

PagesBounds ==
  /\ Top \in Nat /\ PageSize \in Nat \ {0}
  /\ Limits \subseteq Int \cup {None} /\ None \notin Int
  /\ Kinds \subseteq Value!OneWay \cup {"list", "stream", "ts"}

Before(p, r, desc) == IF desc THEN p > r ELSE p < r
Ordered(q, desc) == \A i, j \in DOMAIN q : i < j => Before(q[i], q[j], desc)

\* What is asked is what the tool bar lets ask.
AskIs ==
  /\ s1.kind \in Value!OneWay => ~s1.desc
  /\ s1.kind \in {"vector", "sample"} => s1.min = None /\ s1.max = None
  /\ Value!FromEnd(s1.min) \/ Value!FromEnd(s1.max) => s1.kind \in {"list", "array"}
PagesTyped == Value!TypeOK /\ s5 \subseteq s2 /\ AskIs

\* An array, a stream, a time series and a vector set are read by place: the pages have passed
\* every element up to the cursor.
ByPlace == {"array", "stream", "ts", "vector"}
Passed(p) ==
  \/ s1.kind = "array" /\ p < s3.at
  \/ s1.kind = "stream" /\ s3.edge # None /\ Before(p, s3.edge, s1.desc)
  \/ s1.kind \in {"ts", "vector"} /\ s3.edge # None /\ ~Before(s3.edge, p, s1.desc)
PlacesRead == s1.kind \in ByPlace =>
  /\ \A p \in s5 : Value!InRange(p) /\ (s3.finished \/ Passed(p)) => p \in Items(s4)
  /\ ~s3.finished => \A p \in Items(s4) : Passed(p)
  /\ ~s3.finished /\ s3.edge # None => Value!InRange(s3.edge)
  /\ ~s3.finished /\ s3.edge # None /\ s1.kind = "ts" => s3.edge \in Items(s4)
  /\ ~Value!TimeZero => Ordered(s4, s1.desc)

\* The places from b on, one after the other.
Numbered(q, b, desc) == \A i \in 1..Len(q) : q[i] = IF desc THEN b - i + 1 ELSE b + i - 1
\* The place that comes after k of them.
Onward(b, k, desc) == IF desc THEN b - k ELSE b + k
\* A list is read from an end, a sorted set from its first.
ListRead == s1.kind = "list" /\ Value!Unshifted /\ ~Value!PastEnd =>
  /\ s3.at = Len(s4)
  /\ Numbered(s4, IF s1.desc THEN Value!ListMax ELSE Value!ListMin, s1.desc)
  /\ s3.finished => \A p \in s2 : Value!InRange(p) =>
       IF s1.desc THEN p > Value!ListMax - s3.at ELSE p < Value!ListMin + s3.at
StartOf(q, all) == Len(q) <= Len(all) /\ \A i \in 1..Len(q) : q[i] = all[i]
\* The elements of q follow the first k of all.
Follows(q, k, all) == \A i \in 1..Len(q) : q[i] = all[k + i]
ScoresRead == s1.kind = "zset" /\ s6 =>
  /\ StartOf(s4, Value!Sorted(Value!Span(Value!From, Value!To), FALSE))
  /\ IF s3.finished THEN Len(s4) = Len(Value!Sorted(Value!Span(Value!From, Value!To), FALSE)) ELSE s3.at = Len(s4)

\* Names that are drawn come on one page.
SampleRead == s1.kind = "sample" => IF s3.finished THEN Ordered(s4, FALSE) ELSE s4 = <<>>

PagesInv == PagesTyped /\ PlacesRead /\ ListRead /\ ScoresRead /\ SampleRead

\* Pages counts as this module does.
LEMMA SameCardinality == \A S : Value!Cardinality(S) = Cardinality(S)
BY DEF Value!Cardinality, Cardinality

\* The elements in their order: each once, at the place its rank says.
LEMMA SortedIs ==
  ASSUME PagesBounds, NEW S, S \subseteq Value!Places, NEW desc \in BOOLEAN
  PROVE  /\ IsFiniteSet(S) /\ Value!Sorted(S, desc) \in Seq(S)
         /\ Len(Value!Sorted(S, desc)) = Cardinality(S) /\ Cardinality(S) \in Nat
         /\ Items(Value!Sorted(S, desc)) = S /\ Ordered(Value!Sorted(S, desc), desc)
         /\ \A i \in 1..Cardinality(S) : Cardinality(Value!UpTo(S, Value!Sorted(S, desc)[i], desc)) = i
<1> DEFINE Rank(p) == Value!Cardinality(Value!UpTo(S, p, desc))
<1>1. IsFiniteSet(S) /\ \A p \in S : p \in Nat
  <2>1. IsFiniteSet(0..Top)
    BY FS_Interval DEF PagesBounds
  <2>2. S \in SUBSET (0..Top) /\ 0..Top \subseteq Nat
    BY DEF Value!Places, PagesBounds
  <2>3. IsFiniteSet(S)
    BY <2>1, <2>2, FS_Subset
  <2> QED
    BY <2>2, <2>3
<1>2. PICK n \in Nat : n = Cardinality(S)
  BY <1>1, FS_CardinalityType
<1>3. ASSUME NEW p \in S PROVE IsFiniteSet(Value!UpTo(S, p, desc)) /\ Rank(p) \in 1..n
  <2>1. Value!UpTo(S, p, desc) \in SUBSET S /\ p \in Value!UpTo(S, p, desc)
    BY <1>1 DEF Value!UpTo
  <2>2. IsFiniteSet(Value!UpTo(S, p, desc)) /\ Rank(p) <= n
    BY <1>1, <1>2, <2>1, FS_Subset, SameCardinality
  <2>3. Rank(p) \in Nat /\ Rank(p) # 0
    BY <2>1, <2>2, FS_CardinalityType, FS_EmptySet, SameCardinality
  <2> QED
    BY <2>2, <2>3
<1>4. ASSUME NEW p \in S, NEW r \in S, Before(p, r, desc) PROVE Rank(p) < Rank(r)
  <2>1. /\ Value!UpTo(S, p, desc) \in SUBSET Value!UpTo(S, r, desc) /\ r \in Value!UpTo(S, r, desc)
        /\ r \notin Value!UpTo(S, p, desc)
    BY <1>1, <1>4 DEF Value!UpTo, Before
  <2>2. Rank(p) <= Rank(r) /\ (Rank(r) = Rank(p) => Value!UpTo(S, r, desc) = Value!UpTo(S, p, desc))
    BY <1>3, <2>1, FS_Subset, SameCardinality
  <2>3. Rank(p) # Rank(r)
    BY <2>1, <2>2
  <2>4. Rank(p) \in Nat /\ Rank(r) \in Nat
    BY <1>3
  <2> HIDE DEF Rank
  <2> QED
    BY <2>2, <2>3, <2>4
<1>5. ASSUME NEW p \in S, NEW r \in S, Rank(p) = Rank(r) PROVE p = r
  <2> HIDE DEF Rank
  <2>1. Rank(p) \in Nat
    BY <1>3
  <2>2. ~Before(p, r, desc) /\ ~Before(r, p, desc)
    BY <1>4, <1>5, <2>1
  <2> QED
    BY <1>1, <2>2 DEF Before
<1>6. ASSUME NEW i \in 1..n PROVE \E p \in S : Rank(p) = i
  <2> HIDE DEF Rank
  <2>1. PICK f : f = [p \in S |-> Rank(p)]
    OBVIOUS
  <2>2. f \in Injection(S, 1..n)
    BY <1>3, <1>5, <2>1 DEF Injection, IsInjective
  <2>3. IsFiniteSet(1..n) /\ Cardinality(1..n) = n
    BY FS_Interval
  <2>4. f \in Surjection(S, 1..n)
    BY <1>2, <2>2, <2>3, FS_Injection
  <2> QED
    BY <2>1, <2>4 DEF Surjection
<1>7. PICK q : q = Value!Sorted(S, desc)
  OBVIOUS
<1>8. /\ q = [i \in 1..n |-> CHOOSE p \in S : Rank(p) = i]
      /\ \A i \in 1..n : q[i] \in S /\ Rank(q[i]) = i
  <2>1. q = [i \in 1..n |-> CHOOSE p \in S : Rank(p) = i]
    BY <1>2, <1>7, SameCardinality DEF Value!Sorted
  <2> HIDE DEF Rank
  <2> QED
    BY <1>6, <2>1
<1>9. q \in Seq(S) /\ Len(q) = n /\ DOMAIN q = 1..n
  <2> HIDE DEF Rank
  <2>1. q \in [1..n -> S]
    BY <1>8
  <2> QED
    BY <2>1
<1>10. ASSUME NEW i \in 1..n, NEW j \in 1..n, i < j PROVE Before(q[i], q[j], desc)
  <2> HIDE DEF Rank
  <2>1. q[i] \in S /\ q[j] \in S /\ Rank(q[i]) = i /\ Rank(q[j]) = j
    BY <1>8
  <2>2. ~Before(q[j], q[i], desc)
    BY <1>4, <1>10, <2>1
  <2>3. q[i] # q[j] /\ q[i] \in Nat /\ q[j] \in Nat
    BY <1>1, <1>10, <2>1
  <2> QED
    BY <2>2, <2>3 DEF Before
<1>11. ASSUME NEW p \in S PROVE p \in Items(q)
  <2> HIDE DEF Rank
  <2>1. Rank(p) \in 1..n
    BY <1>3
  <2>2. q[Rank(p)] \in S /\ Rank(q[Rank(p)]) = Rank(p)
    BY <1>8, <2>1
  <2>3. q[Rank(p)] = p
    BY <1>5, <2>2
  <2> QED
    BY <1>9, <2>1, <2>3 DEF Items
<1>12. Items(q) \subseteq S
  BY <1>8, <1>9 DEF Items
<1> HIDE DEF Rank
<1>13. Items(q) = S /\ Ordered(q, desc)
  BY <1>9, <1>10, <1>11, <1>12 DEF Ordered
<1>14. \A i \in 1..n : Cardinality(Value!UpTo(S, q[i], desc)) = i
  BY <1>8, SameCardinality DEF Rank
<1> QED
  BY <1>1, <1>2, <1>7, <1>9, <1>13, <1>14

\* What a page of at most n elements has of those that are left.
FirstRows(r, S, n, desc) ==
  /\ r \in Seq(S) /\ Len(r) <= n /\ Ordered(r, desc)
  /\ Len(r) < n => Items(r) = S
  /\ \A p \in S : p \in Items(r) \/ \A x \in Items(r) : Before(x, p, desc)

LEMMA FirstIs ==
  ASSUME PagesBounds, NEW S, S \subseteq Value!Places, NEW desc \in BOOLEAN, NEW n \in Nat
  PROVE  FirstRows(Value!FirstOf(S, n, desc), S, n, desc)
<1>1. PICK q : q = Value!Sorted(S, desc)
  OBVIOUS
<1>2. q \in Seq(S) /\ Items(q) = S /\ Ordered(q, desc)
  BY <1>1, SortedIs
<1>3. PICK c \in Nat : c = Len(q) /\ DOMAIN q = 1..c
  BY <1>2
<1>4. PICK m : m = IF c < n THEN c ELSE n
  OBVIOUS
<1>5. m \in 0..c /\ m <= n /\ (m < n => m = c) /\ \A i \in 1..m : i \in 1..c
  BY <1>4
<1>6. PICK r : r = SubSeq(q, 1, m)
  OBVIOUS
<1>7. Value!FirstOf(S, n, desc) = r
  BY <1>1, <1>3, <1>4, <1>6 DEF Value!FirstOf
<1>8. r \in Seq(S) /\ Len(r) = m /\ DOMAIN r = 1..m /\ \A i \in 1..m : r[i] = q[i]
  BY <1>2, <1>3, <1>5, <1>6
<1>9. Ordered(r, desc)
  BY <1>2, <1>3, <1>5, <1>8 DEF Ordered
<1>10. ASSUME NEW p \in S PROVE p \in Items(r) \/ \A x \in Items(r) : Before(x, p, desc)
  <2>1. PICK j \in 1..c : q[j] = p
    BY <1>2, <1>3 DEF Items
  <2>2. CASE j <= m
    BY <1>5, <1>8, <2>1, <2>2 DEF Items
  <2>3. CASE j > m
    <3>1. \A i \in 1..m : i \in 1..c /\ i < j
      BY <1>5, <2>3
    <3>2. \A i \in 1..m : Before(q[i], p, desc)
      BY <1>2, <1>3, <2>1, <3>1 DEF Ordered
    <3> QED
      BY <1>8, <3>2 DEF Items
  <2> QED
    BY <1>5, <2>2, <2>3
<1>11. m < n => Items(r) = S
  BY <1>2, <1>3, <1>5, <1>8 DEF Items
<1> QED
  BY <1>5, <1>7, <1>8, <1>9, <1>10, <1>11 DEF FirstRows

\* Of an interval the i-th element is the i-th number.
Interval(a, b, n) ==
  a \in Nat /\ b \in Nat /\ n \in Nat /\ a <= b /\ b <= Top /\ b - a + 1 <= n
IsInterval(q, a, b) ==
  q \in Seq(Value!Places) /\ Len(q) = b - a + 1 /\ \A i \in 1..b - a + 1 : q[i] = a + i - 1
LEMMA IntervalFirst ==
  ASSUME PagesBounds, NEW a, NEW b, NEW n, Interval(a, b, n)
  PROVE  IsInterval(Value!FirstOf(a..b, n, FALSE), a, b)
<1>1. a \in Nat /\ b \in Nat /\ n \in Nat /\ a <= b /\ b <= Top /\ b - a + 1 <= n
  BY DEF Interval
<1>2. a..b \subseteq Value!Places /\ Cardinality(a..b) = b - a + 1
  BY <1>1, FS_Interval DEF Value!Places, PagesBounds
<1>3. PICK q : q = Value!Sorted(a..b, FALSE)
  OBVIOUS
<1>4. PICK m \in Nat : m = b - a + 1
  BY <1>1
<1>5. /\ q \in Seq(a..b) /\ Len(q) = m /\ \A i \in 1..m : Cardinality(Value!UpTo(a..b, q[i], FALSE)) = i
  BY <1>2, <1>3, <1>4, SortedIs
<1>6. ASSUME NEW i \in 1..m PROVE q[i] = a + i - 1
  <2>1. PICK x \in a..b : x = q[i]
    BY <1>1, <1>4, <1>5
  <2>2. Value!UpTo(a..b, x, FALSE) = a..x
    BY <1>1 DEF Value!UpTo
  <2>3. Cardinality(a..x) = x - a + 1
    BY <1>1, FS_Interval
  <2>4. x - a + 1 = i
    BY <1>1, <1>5, <2>1, <2>2, <2>3
  <2> QED
    BY <1>1, <2>1, <2>4
<1>7. Value!FirstOf(a..b, n, FALSE) = SubSeq(q, 1, m)
  <2>1. Value!FirstOf(a..b, n, FALSE) = SubSeq(q, 1, IF Len(q) < n THEN Len(q) ELSE n)
    BY <1>3 DEF Value!FirstOf
  <2>2. (IF Len(q) < n THEN Len(q) ELSE n) = m
    BY <1>1, <1>4, <1>5
  <2> QED
    BY <2>1, <2>2
<1>8. SubSeq(q, 1, m) = q
  BY <1>5
<1>9. q \in Seq(Value!Places)
  BY <1>1, <1>2, <1>5
<1> QED
  BY <1>4, <1>5, <1>6, <1>7, <1>8, <1>9 DEF IsInterval

\* Pages one after the other.
LEMMA Joined ==
  ASSUME NEW S, NEW q \in Seq(S), NEW r \in Seq(S)
  PROVE  /\ q \o r \in Seq(S) /\ Len(q \o r) = Len(q) + Len(r)
         /\ Items(q \o r) = Items(q) \cup Items(r)
         /\ \A i \in 1..Len(q) : (q \o r)[i] = q[i]
         /\ \A i \in 1..Len(r) : (q \o r)[Len(q) + i] = r[i]
<1>1. PICK a \in Nat, b \in Nat : a = Len(q) /\ b = Len(r) /\ DOMAIN q = 1..a /\ DOMAIN r = 1..b
  OBVIOUS
<1>2. PICK t : t = q \o r
  OBVIOUS
<1>3. /\ t \in Seq(S) /\ Len(t) = a + b /\ DOMAIN t = 1..a + b
      /\ \A i \in 1..a : t[i] = q[i]
      /\ \A i \in 1..b : t[a + i] = r[i]
  BY <1>1, <1>2
<1>4. ASSUME NEW i \in 1..a + b PROVE t[i] \in Items(q) \cup Items(r)
  <2>1. CASE i <= a
    <3>1. i \in 1..a /\ t[i] = q[i]
      BY <1>3, <2>1
    <3> QED
      BY <1>1, <3>1 DEF Items
  <2>2. CASE i > a
    <3>1. PICK j \in 1..b : i = a + j
      <4>1. i - a \in 1..b /\ i = a + (i - a)
        BY <2>2
      <4> QED
        BY <4>1
    <3>2. t[i] = r[j]
      BY <1>3, <3>1
    <3> QED
      BY <1>1, <3>2 DEF Items
  <2> QED
    BY <2>1, <2>2
<1>5. \A i \in 1..a : q[i] \in Items(t)
  <2>1. \A i \in 1..a : i \in 1..a + b
    OBVIOUS
  <2> QED
    BY <1>3, <2>1 DEF Items
<1>6. \A i \in 1..b : r[i] \in Items(t)
  <2>1. ASSUME NEW i \in 1..b PROVE r[i] \in Items(t)
    <3>1. PICK j \in 1..a + b : j = a + i
      OBVIOUS
    <3>2. t[j] = r[i]
      BY <1>3, <3>1
    <3> QED
      BY <1>3, <3>2 DEF Items
  <2> QED
    BY <2>1
<1>7. Items(t) = Items(q) \cup Items(r)
  <2>1. Items(t) \subseteq Items(q) \cup Items(r)
    BY <1>3, <1>4 DEF Items
  <2>2. Items(q) \subseteq Items(t)
    BY <1>1, <1>5 DEF Items
  <2>3. Items(r) \subseteq Items(t)
    BY <1>1, <1>6 DEF Items
  <2> QED
    BY <2>1, <2>2, <2>3
<1> QED
  BY <1>1, <1>2, <1>3, <1>7

LEMMA JoinedOrdered ==
  ASSUME NEW S, NEW q \in Seq(S), NEW r \in Seq(S), NEW desc, Ordered(q, desc), Ordered(r, desc),
         \A x \in Items(q) : \A y \in Items(r) : Before(x, y, desc)
  PROVE  Ordered(q \o r, desc)
<1>1. PICK a \in Nat, b \in Nat : a = Len(q) /\ b = Len(r) /\ DOMAIN q = 1..a /\ DOMAIN r = 1..b
  OBVIOUS
<1>2. PICK t : t = q \o r
  OBVIOUS
<1>3. /\ Len(t) = a + b /\ DOMAIN t = 1..a + b
      /\ \A i \in 1..a : t[i] = q[i]
      /\ \A i \in 1..b : t[a + i] = r[i]
  BY <1>1, <1>2
<1>4. \A i \in 1..a + b : i \in 1..a \/ \E h \in 1..b : i = a + h
  <2>1. ASSUME NEW i \in 1..a + b, i > a PROVE i - a \in 1..b /\ i = a + (i - a)
    BY <2>1
  <2>2. ASSUME NEW i \in 1..a + b, i > a PROVE \E h \in 1..b : i = a + h
    BY <2>1, <2>2
  <2> QED
    BY <2>2
<1>5. ASSUME NEW i \in 1..a + b, NEW j \in 1..a + b, i < j PROVE Before(t[i], t[j], desc)
  <2>1. CASE i \in 1..a /\ j \in 1..a
    BY <1>1, <1>3, <1>5, <2>1 DEF Ordered
  <2>2. ASSUME i \in 1..a, NEW h \in 1..b, j = a + h PROVE Before(t[i], t[j], desc)
    BY <1>1, <1>3, <2>2 DEF Items
  <2>3. ASSUME NEW g \in 1..b, i = a + g, NEW h \in 1..b, j = a + h PROVE Before(t[i], t[j], desc)
    <3>1. g < h
      BY <1>5, <2>3
    <3>2. t[i] = r[g] /\ t[j] = r[h]
      BY <1>3, <2>3
    <3>3. Before(r[g], r[h], desc)
      BY <1>1, <3>1 DEF Ordered
    <3> QED
      BY <3>2, <3>3
  <2>4. ASSUME NEW g \in 1..b, i = a + g, j \in 1..a PROVE FALSE
    BY <1>5, <2>4
  <2> QED
    BY <1>4, <2>1, <2>2, <2>3, <2>4
<1> QED
  BY <1>2, <1>3, <1>5 DEF Ordered

\* The last row of a page.
LEMMA LastIs ==
  ASSUME PagesBounds, NEW S, S \subseteq Value!Places, NEW r \in Seq(S), NEW desc \in BOOLEAN,
         Ordered(r, desc), Len(r) # 0
  PROVE  Value!Last(r) \in Items(r) /\ Value!Last(r) \in S /\ \A x \in Items(r) : ~Before(Value!Last(r), x, desc)
<1>1. PICK a \in Nat : a = Len(r) /\ DOMAIN r = 1..a /\ a \in 1..a /\ Value!Last(r) = r[a]
  BY DEF Value!Last
<1>2. \A p \in S : p \in Nat
  BY DEF Value!Places, PagesBounds
<1>3. ASSUME NEW i \in 1..a PROVE ~Before(r[a], r[i], desc)
  <2>1. r[i] \in Nat /\ r[a] \in Nat
    BY <1>1, <1>2
  <2>2. i # a => Before(r[i], r[a], desc)
    BY <1>1 DEF Ordered
  <2> QED
    BY <2>1, <2>2 DEF Before
<1> QED
  BY <1>1, <1>3 DEF Items

\* A page that is full is followed by what comes after its last row.
LEMMA FullPage ==
  ASSUME PagesBounds, NEW S, S \subseteq Value!Places, NEW desc \in BOOLEAN, NEW r,
         FirstRows(r, S, PageSize, desc), ~(Len(r) < PageSize)
  PROVE  /\ r \in Seq(S) /\ Ordered(r, desc) /\ Value!Last(r) \in Items(r) /\ Value!Last(r) \in S
         /\ \A x \in Items(r) : ~Before(Value!Last(r), x, desc)
         /\ \A p \in S : p \in Items(r) \/ Before(Value!Last(r), p, desc)
<1>1. r \in Seq(S) /\ Ordered(r, desc) /\ Len(r) # 0
  BY DEF FirstRows, PagesBounds
<1>2. Value!Last(r) \in Items(r) /\ Value!Last(r) \in S /\ \A x \in Items(r) : ~Before(Value!Last(r), x, desc)
  BY <1>1, LastIs
<1> QED
  BY <1>1, <1>2 DEF FirstRows

\* The element that was fetched beyond the page is the first of what follows it.
PeekedAt(f, e, S, desc) ==
  /\ f \in Seq(S) /\ Ordered(f, desc) /\ Len(f) # 0 /\ e \in S
  /\ \A x \in Items(f) : Before(x, e, desc)
  /\ \A p \in S : p \in Items(f) \/ ~Before(p, e, desc)

LEMMA PeekedPage ==
  ASSUME PagesBounds, NEW S, S \subseteq Value!Places, NEW desc \in BOOLEAN, NEW r,
         FirstRows(r, S, PageSize + 1, desc), Len(r) > PageSize
  PROVE  PeekedAt(Value!Front(r), Value!Last(r), S, desc)
<1>1. PICK n \in Nat \ {0} : n = PageSize
  BY DEF PagesBounds
<1>2. r \in Seq(S) /\ Len(r) = n + 1 /\ DOMAIN r = 1..n + 1 /\ Ordered(r, desc)
  <2>1. r \in Seq(S) /\ Len(r) <= n + 1 /\ Len(r) > n
    BY <1>1 DEF FirstRows
  <2> QED
    BY <2>1 DEF FirstRows
<1>3. PICK f : f = Value!Front(r)
  OBVIOUS
<1>4. f \in Seq(S) /\ Len(f) = n /\ DOMAIN f = 1..n /\ \A i \in 1..n : f[i] = r[i]
  <2>1. f = SubSeq(r, 1, n)
    BY <1>2, <1>3 DEF Value!Front
  <2> QED
    BY <1>2, <2>1
<1>5. Ordered(f, desc)
  <2>1. \A i \in 1..n : i \in 1..n + 1
    OBVIOUS
  <2> QED
    BY <1>2, <1>4, <2>1 DEF Ordered
<1>6. Value!Last(r) = r[n + 1] /\ r[n + 1] \in S
  BY <1>2 DEF Value!Last
<1>7. \A x \in Items(f) : Before(x, r[n + 1], desc)
  <2>1. \A i \in 1..n : i \in 1..n + 1 /\ n + 1 \in 1..n + 1 /\ i < n + 1
    OBVIOUS
  <2>2. \A i \in 1..n : Before(r[i], r[n + 1], desc)
    BY <1>2, <2>1 DEF Ordered
  <2> QED
    BY <1>4, <2>2 DEF Items
<1>8. \A p \in S : p \in Nat
  BY DEF Value!Places, PagesBounds
<1>9. ASSUME NEW p \in S, p \notin Items(f) PROVE ~Before(p, r[n + 1], desc)
  <2>1. CASE p \in Items(r)
    <3>1. PICK i \in 1..n + 1 : p = r[i]
      BY <1>2, <2>1 DEF Items
    <3>2. i = n + 1
      BY <1>4, <1>9, <3>1 DEF Items
    <3> QED
      BY <1>8, <3>1, <3>2 DEF Before
  <2>2. CASE p \notin Items(r)
    <3>1. \A x \in Items(r) : Before(x, p, desc)
      BY <2>2 DEF FirstRows
    <3>2. Before(r[n + 1], p, desc)
      BY <1>2, <3>1 DEF Items
    <3> QED
      BY <1>6, <1>8, <3>2 DEF Before
  <2> QED
    BY <2>1, <2>2
<1> QED
  BY <1>3, <1>4, <1>5, <1>6, <1>7, <1>9 DEF PeekedAt

LEMMA PeekedLast ==
  ASSUME PagesBounds, NEW S, S \subseteq Value!Places, NEW desc \in BOOLEAN, NEW f, NEW e,
         PeekedAt(f, e, S, desc)
  PROVE  /\ Value!Last(f) \in Items(f) /\ Value!Last(f) \in S
         /\ \A x \in Items(f) : ~Before(Value!Last(f), x, desc)
         /\ \A p \in S : p \in Items(f) \/ Before(Value!Last(f), p, desc)
<1>1. Value!Last(f) \in Items(f) /\ Value!Last(f) \in S /\ \A x \in Items(f) : ~Before(Value!Last(f), x, desc)
  BY LastIs DEF PeekedAt
<1>2. \A p \in S : p \in Nat
  BY DEF Value!Places, PagesBounds
<1>3. Before(Value!Last(f), e, desc)
  BY <1>1 DEF PeekedAt
<1> QED
  BY <1>1, <1>2, <1>3 DEF Before, PeekedAt

-----------------------------------------------------------------------------
LEMMA PagesInvInit == ASSUME PagesBounds, Value!Init PROVE PagesInv
<1>1. /\ s2 \subseteq Value!Places /\ (s1.kind = "list" => s2 \in Value!Lists) /\ s5 = s2
      /\ s3 = [at |-> 0, edge |-> None, finished |-> FALSE] /\ s4 = <<>> /\ s6 = TRUE
      /\ s1 \in [kind : Kinds, desc : BOOLEAN, min : Limits, max : Limits] /\ AskIs
  <2>1. \A h \in Value!Lists : h \subseteq Value!Places
    BY DEF Value!Lists, Value!Places, PagesBounds
  <2> QED
    BY <2>1 DEF Value!Init, AskIs
<1>2. /\ s3 \in [at : Nat, edge : Value!Places \cup {None}, finished : BOOLEAN]
      /\ s4 \in Seq(Value!Places)
      /\ Len(s4) = 0 /\ Items(s4) = {}
  BY <1>1 DEF Items
<1>3. PagesTyped
  BY <1>1, <1>2 DEF PagesTyped, Value!TypeOK
<1>4. PlacesRead
  <2>1. Ordered(s4, s1.desc)
    BY <1>1 DEF Ordered
  <2>2. s1.kind = "array" => \A p \in s5 : ~(p < s3.at)
    BY <1>1 DEF Value!Places, PagesBounds
  <2>3. \A p \in s5 : s1.kind \in ByPlace => ~Passed(p)
    BY <1>1, <2>2 DEF Passed, ByPlace
  <2> QED
    BY <1>1, <1>2, <2>1, <2>3 DEF PlacesRead
<1>5. ListRead
  BY <1>1, <1>2 DEF ListRead, Numbered
<1>6. ScoresRead
  <2>1. Value!Span(Value!From, Value!To) \subseteq Value!Places
    BY <1>1 DEF Value!Span
  <2>2. Value!Sorted(Value!Span(Value!From, Value!To), FALSE) \in Seq(Value!Span(Value!From, Value!To))
    BY <2>1, SortedIs
  <2>3. PICK q : q = Value!Sorted(Value!Span(Value!From, Value!To), FALSE)
    OBVIOUS
  <2>4. q \in Seq(Value!Span(Value!From, Value!To))
    BY <2>2, <2>3
  <2>5. StartOf(s4, q)
    BY <1>1, <1>2, <2>4 DEF StartOf
  <2>6. s3.at = Len(s4) /\ ~s3.finished
    BY <1>1, <1>2
  <2> QED
    BY <2>3, <2>5, <2>6 DEF ScoresRead
<1>7. SampleRead
  BY <1>1 DEF SampleRead
<1> QED
  BY <1>3, <1>4, <1>5, <1>6, <1>7 DEF PagesInv

\* How many a list has.
LEMMA ListHas ==
  ASSUME PagesBounds, s2 \in Value!Lists
  PROVE  /\ Cardinality(s2) \in 0..Top + 1 /\ s2 = 0..Cardinality(s2) - 1
         /\ \A p : p \in s2 <=> p \in Nat /\ p < Cardinality(s2)
<1>1. PICK n \in 0..Top + 1 : s2 = 0..n - 1
  BY DEF Value!Lists
<1>2. n \in Nat /\ Cardinality(0..n - 1) = n
  BY FS_Interval DEF PagesBounds
<1> QED
  BY <1>1, <1>2

\* Others change the value between two pages.
LEMMA OthersStep ==
  ASSUME PagesBounds, PagesInv, NEW p \in Value!Places, Value!Grow(p) \/ Value!Shrink(p)
  PROVE  PagesInv'
<1>1. /\ ~s3.finished /\ s6' = FALSE /\ UNCHANGED <<s1, s3, s4>>
      /\ \/ p \notin s2 /\ s2' = s2 \cup {p} /\ s5' = s5
            /\ (s1.kind = "list" => p = Cardinality(s2))
         \/ p \in s2 /\ s2' = s2 \ {p} /\ s5' = s5 \ {p}
            /\ (s1.kind = "list" => p = Cardinality(s2) - 1)
  BY SameCardinality DEF Value!Grow, Value!Shrink
<1>2. PagesTyped
  BY DEF PagesInv
<1>3. PagesTyped'
  <2>1. s2' \subseteq Value!Places /\ s5' \subseteq s2'
    BY <1>1, <1>2 DEF PagesTyped, Value!TypeOK
  <2>2. s1.kind = "list" => s2' \in Value!Lists
    <3> SUFFICES ASSUME s1.kind = "list" PROVE s2' \in Value!Lists
      OBVIOUS
    <3>1. PICK n \in 0..Top + 1 : n = Cardinality(s2) /\ s2 = 0..n - 1
      BY <1>2, ListHas DEF PagesTyped, Value!TypeOK
    <3>2. Top \in Nat /\ p \in 0..Top
      BY DEF PagesBounds, Value!Places
    <3>3. CASE p \notin s2
      <4>1. p = n /\ s2' = s2 \cup {p}
        BY <1>1, <3>1, <3>3
      <4>2. n + 1 \in 0..Top + 1 /\ (0..n - 1) \cup {n} = 0..(n + 1) - 1
        BY <3>2, <4>1
      <4> QED
        BY <3>1, <4>1, <4>2 DEF Value!Lists
    <3>4. CASE p \in s2
      <4>1. p = n - 1 /\ n - 1 \in 0..Top + 1
        BY <1>1, <3>1, <3>2, <3>4
      <4>2. s2' = s2 \ {p}
        BY <1>1, <3>4
      <4>3. (0..n - 1) \ {n - 1} = 0..(n - 1) - 1
        BY <3>1, <3>2
      <4> QED
        BY <3>1, <4>1, <4>2, <4>3 DEF Value!Lists
    <3> QED
      BY <3>3, <3>4
  <2> QED
    BY <1>1, <1>2, <2>1, <2>2 DEF PagesTyped, Value!TypeOK, AskIs
<1>4. PlacesRead'
  <2>1. s5' \subseteq s5
    BY <1>1
  <2>2. Value!From' = Value!From /\ Value!To' = Value!To /\ Value!TimeZero' = Value!TimeZero /\ \A x : Passed(x)' <=> Passed(x)
    BY <1>1 DEF Value!From, Value!To, Value!TimeZero, Passed
  <2>3. s1.kind # "list" => \A x : Value!InRange(x)' <=> Value!InRange(x)
    BY <1>1, <2>2 DEF Value!InRange
  <2> QED
    BY <1>1, <2>1, <2>2, <2>3 DEF PagesInv, PlacesRead, ByPlace
<1>5. ListRead'
  <2> SUFFICES ASSUME s1.kind = "list", Value!Unshifted' PROVE ListRead'
    BY <1>1 DEF ListRead
  <2>1. ~s1.desc /\ ~Value!FromEnd(s1.min) /\ ~Value!FromEnd(s1.max)
    BY <1>1 DEF Value!Unshifted
  <2>2. Value!Unshifted /\ ~Value!PastEnd
    BY <2>1 DEF Value!Unshifted, Value!PastEnd
  <2>3. Value!ListMin' = Value!ListMin
    BY <1>1, <2>1 DEF Value!ListMin, Value!Index
  <2> QED
    BY <1>1, <2>1, <2>2, <2>3 DEF PagesInv, ListRead
<1>6. ScoresRead' /\ SampleRead'
  BY <1>1 DEF PagesInv, ScoresRead, SampleRead
<1> QED
  BY <1>3, <1>4, <1>5, <1>6 DEF PagesInv

\* A page adds to what is shown.
LEMMA PageTyped ==
  ASSUME PagesTyped, UNCHANGED <<s1, s2, s5, s6>>, NEW r \in Seq(Value!Places),
         s4' = s4 \o r, s3' \in [at : Nat, edge : Value!Places \cup {None}, finished : BOOLEAN]
  PROVE  PagesTyped'
<1>1. s4' \in Seq(Value!Places)
  BY Joined DEF PagesTyped, Value!TypeOK
<1> QED
  BY <1>1 DEF PagesTyped, Value!TypeOK, AskIs

\* What the bounds of the tool bar are among the places.
LEMMA BoundsTyped ==
  ASSUME PagesBounds, PagesTyped
  PROVE  Value!From \in Nat /\ Value!To \in 0..Top
<1>1. s1.min \in Int \cup {None} /\ s1.max \in Int \cup {None} /\ Top \in Nat
  BY DEF PagesBounds, PagesTyped, Value!TypeOK
<1>2. s1.min # None => s1.min \in Int
  BY <1>1
<1>3. s1.max # None => s1.max \in Int
  BY <1>1
<1>4. Value!From \in Nat
  BY <1>2 DEF Value!From, Value!FromEnd
<1>5. Value!To \in 0..Top
  BY <1>1, <1>3 DEF Value!To, Value!FromEnd, Value!Smaller
<1> QED
  BY <1>4, <1>5

\* What was passed comes before what was not.
LEMMA PassedFirst ==
  ASSUME PagesBounds, PagesTyped, s1.kind \in ByPlace, NEW x \in Value!Places, NEW p \in Value!Places,
         Passed(x), ~Passed(p)
  PROVE  Before(x, p, s1.desc)
<1>1. x \in Nat /\ p \in Nat /\ s3.at \in Nat /\ (s3.edge # None => s3.edge \in Nat)
  BY DEF PagesBounds, Value!Places, PagesTyped, Value!TypeOK
<1>2. s1.kind = "array" => ~s1.desc
  BY DEF PagesTyped, AskIs, Value!OneWay
<1> QED
  BY <1>1, <1>2 DEF Passed, Before, ByPlace

\* A page of what was not passed.
LEMMA PlacesStep ==
  ASSUME PagesBounds, PagesTyped, PlacesRead, s1.kind \in ByPlace, ~s3.finished,
         UNCHANGED <<s1, s2, s5, s6>>,
         NEW S, S = {p \in s2 : Value!InRange(p) /\ ~Passed(p)}, NEW r \in Seq(S), s4' = s4 \o r,
         Ordered(r, s1.desc),
         s3' \in [at : Nat, edge : Value!Places \cup {None}, finished : BOOLEAN],
         \A p \in S : s3'.finished \/ Passed(p)' => p \in Items(r),
         ~s3'.finished =>
           /\ \A p \in Value!Places : Passed(p) \/ p \in Items(r) => Passed(p)'
           /\ s3'.edge # None => Value!InRange(s3'.edge)
           /\ s3'.edge # None /\ s1.kind = "ts" => s3'.edge \in Items(s4) \cup Items(r)
  PROVE  PagesTyped' /\ PlacesRead'
<1>1. S \subseteq Value!Places /\ s4 \in Seq(Value!Places) /\ r \in Seq(Value!Places)
  BY DEF PagesTyped, Value!TypeOK
<1>2. PagesTyped'
  BY <1>1, PageTyped
<1>3. /\ Items(s4') = Items(s4) \cup Items(r) /\ Items(r) \subseteq S
      /\ Items(s4) \subseteq Value!Places
  <2>1. Items(s4 \o r) = Items(s4) \cup Items(r)
    BY <1>1, Joined
  <2>2. Items(r) \subseteq S
    BY DEF Items
  <2>3. Items(s4) \subseteq Value!Places
    BY <1>1 DEF Items
  <2> QED
    BY <2>1, <2>2, <2>3
<1>4. \A p : Value!InRange(p)' <=> Value!InRange(p)
  <2>1. Value!From' = Value!From /\ Value!To' = Value!To
    BY DEF Value!From, Value!To
  <2> QED
    BY <2>1 DEF Value!InRange, ByPlace
<1>5. \A p \in s5 : Value!InRange(p) /\ (s3'.finished \/ Passed(p)') => p \in Items(s4')
  <2> SUFFICES ASSUME NEW p \in s5, Value!InRange(p), s3'.finished \/ Passed(p)'
               PROVE  p \in Items(s4')
    OBVIOUS
  <2>1. CASE Passed(p)
    BY <1>3, <2>1 DEF PlacesRead
  <2>2. CASE ~Passed(p)
    BY <1>3, <2>2 DEF PagesTyped
  <2> QED
    BY <2>1, <2>2
<1>6. ~s3'.finished => \A p \in Items(s4') : Passed(p)'
  BY <1>1, <1>3 DEF PlacesRead
<1>7. ASSUME ~Value!TimeZero' PROVE Ordered(s4', s1.desc)
  <2>1. ~Value!TimeZero
    <3> SUFFICES ASSUME s1.kind = "ts", s1.desc, NEW i \in DOMAIN s4, s4[i] = 0 PROVE FALSE
      BY DEF Value!TimeZero
    <3>1. 0 \in Items(s4')
      BY <1>3 DEF Items
    <3> QED
      BY <1>7, <3>1 DEF Value!TimeZero, Items
  <2>2. Ordered(s4, s1.desc)
    BY <2>1 DEF PlacesRead
  <2>3. ASSUME NEW x \in Items(s4), NEW y \in Items(r) PROVE Before(x, y, s1.desc)
    BY <1>1, <1>3, PassedFirst DEF PlacesRead
  <2> QED
    BY <1>1, <2>2, <2>3, JoinedOrdered
<1> QED
  BY <1>2, <1>3, <1>4, <1>5, <1>6, <1>7 DEF PlacesRead

\* The page that there is, and its cursor.
LEMMA OnePageOf ==
  ASSUME Value!Page, NEW r, NEW at, NEW edge, NEW f, Value!PagesOf = {Value!PageOf(r, at, edge, f)}
  PROVE  /\ s4' = s4 \o r
         /\ s3' = [at |-> at, edge |-> edge, finished |-> f]
<1>1. PICK p : p = Value!PageOf(r, at, edge, f)
  OBVIOUS
<1>2. p.rows = r /\ p.cursor = [at |-> at, edge |-> edge, finished |-> f]
  BY <1>1 DEF Value!PageOf
<1>3. s4' = s4 \o p.rows /\ s3' = p.cursor
  BY <1>1 DEF Value!Page
<1> QED
  BY <1>2, <1>3

\* What is read, and what the first page of some elements has.
LEMMA ReadTyped ==
  ASSUME PagesBounds, PagesTyped
  PROVE  /\ s2 \subseteq Value!Places /\ s1.desc \in BOOLEAN /\ s3.at \in Nat
         /\ \A p \in Value!Places : p \in Nat
         /\ s3.edge \in Value!Places \cup {None} /\ (s3.edge # None => s3.edge \in Nat)
<1>1. /\ s2 \subseteq Value!Places /\ s1.desc \in BOOLEAN /\ s3.at \in Nat
      /\ s3.edge \in Value!Places \cup {None}
  BY DEF PagesTyped, Value!TypeOK
<1>2. \A p \in Value!Places : p \in Nat
  BY DEF Value!Places, PagesBounds
<1> QED
  BY <1>1, <1>2

LEMMA PeekedIs ==
  ASSUME PagesBounds, NEW S, S \subseteq Value!Places, NEW desc \in BOOLEAN
  PROVE  FirstRows(Value!Peeked(S, desc), S, PageSize + 1, desc) /\ PageSize \in Nat \ {0}
<1>1. PICK n \in Nat : n = PageSize + 1
  BY DEF PagesBounds
<1>2. FirstRows(Value!FirstOf(S, n, desc), S, n, desc)
  BY FirstIs
<1> QED
  BY <1>1, <1>2 DEF Value!Peeked, PagesBounds

LEMMA ArrayStep ==
  ASSUME PagesBounds, PagesTyped, PlacesRead, Value!Page, s1.kind = "array"
  PROVE  PagesTyped' /\ PlacesRead'
<1>1. PICK S : S = {p \in s2 : Value!InRange(p) /\ ~Passed(p)}
  OBVIOUS
<1>2. S \subseteq Value!Places /\ s3.at \in Nat /\ ~s1.desc /\ s1.kind \in ByPlace
      /\ \A p \in s2 : p \in Nat
  <2>1. ~s1.desc /\ s1.kind \in ByPlace
    BY DEF PagesTyped, AskIs, Value!OneWay, ByPlace
  <2> QED
    BY <1>1, <2>1, ReadTyped
<1>3. Value!Span(Value!Larger(s3.at, Value!From), Value!To) = S
  <2>1. Value!From \in Nat /\ Value!To \in Nat
    BY BoundsTyped DEF PagesBounds
  <2> QED
    BY <1>1, <1>2, <2>1 DEF Value!Span, Value!Larger, Value!InRange, Passed
<1>4. PICK r : r = Value!Peeked(S, FALSE)
  OBVIOUS
<1>5. FirstRows(r, S, PageSize + 1, FALSE) /\ PageSize \in Nat \ {0}
  BY <1>2, <1>4, PeekedIs
<1>6. Value!PagesOf = {Value!ArrayPage}
  BY DEF Value!PagesOf
<1>7. ~s3.finished /\ UNCHANGED <<s1, s2, s5, s6>>
  BY DEF Value!Page
<1>8. CASE Value!From > Value!To \/ ~Value!More(r)
  <2>1. Value!ArrayPage = Value!PageOf(r, s3.at, s3.edge, TRUE)
    BY <1>3, <1>4, <1>8 DEF Value!ArrayPage, Value!Finish
  <2>2. s4' = s4 \o r /\ s3' = [at |-> s3.at, edge |-> s3.edge, finished |-> TRUE]
    BY <1>6, <2>1, OnePageOf
  <2>3. Items(r) = S
    <3>1. CASE Value!From > Value!To
      <4>1. Value!From \in Nat /\ Value!To \in Nat
        BY BoundsTyped DEF PagesBounds
      <4>2. S = {}
        BY <1>1, <1>2, <3>1, <4>1 DEF Value!InRange
      <4> QED
        BY <1>5, <4>2 DEF FirstRows, Items
    <3>2. CASE ~Value!More(r)
      BY <1>5, <3>2 DEF Value!More, FirstRows
    <3> QED
      BY <1>8, <3>1, <3>2
  <2>4. r \in Seq(S) /\ Ordered(r, s1.desc)
    BY <1>2, <1>5 DEF FirstRows, Ordered, Before
  <2>5. s3' \in [at : Nat, edge : Value!Places \cup {None}, finished : BOOLEAN] /\ s3'.finished
    BY <2>2 DEF PagesTyped, Value!TypeOK
  <2> QED
    BY <1>1, <1>2, <1>7, <2>2, <2>3, <2>4, <2>5, PlacesStep
<1>9. CASE ~(Value!From > Value!To \/ ~Value!More(r))
  <2>1. Value!ArrayPage = Value!PageOf(Value!Front(r), Value!Last(Value!Front(r)) + 1, s3.edge, FALSE)
    BY <1>3, <1>4, <1>9 DEF Value!ArrayPage, Value!NextIndex
  <2>2. PICK f, l : f = Value!Front(r) /\ l = Value!Last(f)
    OBVIOUS
  <2>3. s4' = s4 \o f /\ s3' = [at |-> l + 1, edge |-> s3.edge, finished |-> FALSE]
    BY <1>6, <2>1, <2>2, OnePageOf
  <2>4. /\ f \in Seq(S) /\ Ordered(f, FALSE) /\ l \in Items(f) /\ l \in S
        /\ \A x \in Items(f) : ~Before(l, x, FALSE)
        /\ \A p \in S : p \in Items(f) \/ Before(l, p, FALSE)
    <3>1. PICK e : e = Value!Last(r)
      OBVIOUS
    <3>2. PeekedAt(f, e, S, FALSE)
      BY <1>2, <1>5, <1>9, <2>2, <3>1, PeekedPage DEF Value!More
    <3>3. /\ Value!Last(f) \in Items(f) /\ Value!Last(f) \in S
          /\ \A x \in Items(f) : ~Before(Value!Last(f), x, FALSE)
          /\ \A p \in S : p \in Items(f) \/ Before(Value!Last(f), p, FALSE)
      BY <1>2, <3>2, PeekedLast
    <3> QED
      BY <2>2, <3>2, <3>3 DEF PeekedAt
  <2>5. l \in Nat /\ l >= s3.at /\ \A p \in S : p \in Nat
    BY <1>1, <1>2, <2>4 DEF Passed
  <2>6. /\ s3' \in [at : Nat, edge : Value!Places \cup {None}, finished : BOOLEAN]
        /\ ~s3'.finished /\ s3'.edge = s3.edge /\ s3'.at = l + 1
    BY <2>3, <2>5 DEF PagesTyped, Value!TypeOK
  <2>7. \A p \in Value!Places : Passed(p)' <=> p < l + 1
    BY <1>7, <2>6 DEF Passed
  <2>8. \A p \in S : Passed(p)' => p \in Items(f)
    BY <1>2, <2>4, <2>5, <2>7 DEF Before
  <2>9. \A p \in Value!Places : Passed(p) \/ p \in Items(f) => Passed(p)'
    <3>1. ASSUME NEW p \in Value!Places, Passed(p) PROVE Passed(p)'
      BY <1>2, <2>5, <2>7, <3>1 DEF Passed, Value!Places, PagesBounds
    <3>2. Items(f) \subseteq S
      BY <2>4 DEF Items
    <3>3. ASSUME NEW p \in Items(f) PROVE Passed(p)'
      BY <1>2, <2>4, <2>5, <2>7, <3>2 DEF Before
    <3> QED
      BY <3>1, <3>3
  <2>10. s3'.edge # None => Value!InRange(s3'.edge)
    BY <1>2, <1>7, <2>6 DEF PlacesRead
  <2>11. Ordered(f, s1.desc)
    BY <1>2, <2>4 DEF Ordered, Before
  <2> QED
    BY <1>1, <1>2, <1>7, <2>3, <2>4, <2>6, <2>8, <2>9, <2>10, <2>11, PlacesStep
<1> QED
  BY <1>8, <1>9

LEMMA StreamStep ==
  ASSUME PagesBounds, PagesTyped, PlacesRead, Value!Page, s1.kind = "stream"
  PROVE  PagesTyped' /\ PlacesRead'
<1>1. PICK S : S = {p \in s2 : Value!InRange(p) /\ ~Passed(p)}
  OBVIOUS
<1>2. /\ S \subseteq Value!Places /\ s3.at \in Nat /\ s1.desc \in BOOLEAN /\ s1.kind \in ByPlace
      /\ \A p \in s2 : p \in Nat
      /\ s3.edge # None => s3.edge \in Nat
  <2>1. s1.kind \in ByPlace
    BY DEF ByPlace
  <2> QED
    BY <1>1, <2>1, ReadTyped
<1>3. PICK lo, hi : /\ lo = IF s1.desc \/ s3.edge = None THEN Value!From ELSE s3.edge
                    /\ hi = IF s1.desc /\ s3.edge # None THEN s3.edge ELSE Value!To
  OBVIOUS
<1>4. Value!PagesOf = {Value!StreamPage}
  BY DEF Value!PagesOf
<1>5. ~s3.finished /\ UNCHANGED <<s1, s2, s5, s6>>
  BY DEF Value!Page
<1>6. Value!Span(lo, hi) = S
  <2>1. Value!From \in Nat /\ Value!To \in Nat
    BY BoundsTyped DEF PagesBounds
  <2>2. s3.edge # None => Value!From <= s3.edge /\ s3.edge <= Value!To
    BY <1>2, <1>5 DEF PlacesRead, Value!InRange
  <2> QED
    BY <1>1, <1>2, <1>3, <2>1, <2>2 DEF Value!Span, Value!InRange, Passed, Before
<1>7. PICK r : r = Value!Peeked(S, s1.desc)
  OBVIOUS
<1>8. FirstRows(r, S, PageSize + 1, s1.desc) /\ PageSize \in Nat \ {0}
  BY <1>2, <1>7, PeekedIs
<1>9. Value!StreamPage = IF Value!More(r) THEN Value!PageOf(Value!Front(r), s3.at, Value!Last(r), FALSE)
                   ELSE Value!PageOf(r, s3.at, s3.edge, TRUE)
  BY <1>3, <1>6, <1>7 DEF Value!StreamPage, Value!Finish
<1>10. CASE ~Value!More(r)
  <2>1. s4' = s4 \o r /\ s3' = [at |-> s3.at, edge |-> s3.edge, finished |-> TRUE]
    <3>1. Value!StreamPage = Value!PageOf(r, s3.at, s3.edge, TRUE)
      BY <1>9, <1>10
    <3> QED
      BY <1>4, <3>1, OnePageOf
  <2>2. Items(r) = S /\ r \in Seq(S) /\ Ordered(r, s1.desc)
    BY <1>8, <1>10 DEF Value!More, FirstRows
  <2>3. s3' \in [at : Nat, edge : Value!Places \cup {None}, finished : BOOLEAN] /\ s3'.finished
    BY <2>1 DEF PagesTyped, Value!TypeOK
  <2> QED
    BY <1>1, <1>2, <1>5, <2>1, <2>2, <2>3, PlacesStep
<1>11. CASE Value!More(r)
  <2>1. PICK f, l : f = Value!Front(r) /\ l = Value!Last(r)
    OBVIOUS
  <2>2. s4' = s4 \o f /\ s3' = [at |-> s3.at, edge |-> l, finished |-> FALSE]
    <3>1. Value!StreamPage = Value!PageOf(f, s3.at, l, FALSE)
      BY <1>9, <1>11, <2>1
    <3> QED
      BY <1>4, <3>1, OnePageOf
  <2>3. /\ f \in Seq(S) /\ Ordered(f, s1.desc) /\ l \in S
        /\ \A x \in Items(f) : Before(x, l, s1.desc)
        /\ \A p \in S : p \in Items(f) \/ ~Before(p, l, s1.desc)
    <3>1. Len(r) > PageSize
      BY <1>11 DEF Value!More
    <3>2. PeekedAt(Value!Front(r), Value!Last(r), S, s1.desc)
      BY <1>2, <1>8, <3>1, PeekedPage
    <3> QED
      BY <2>1, <3>2 DEF PeekedAt
  <2>4. l \in Nat /\ l \in Value!Places /\ l # None /\ Value!InRange(l) /\ ~Passed(l)
    <3>1. l \in Nat /\ l \in Value!Places /\ Value!InRange(l) /\ ~Passed(l)
      BY <1>1, <1>2, <2>3
    <3> QED
      BY <3>1 DEF PagesBounds
  <2>5. /\ s3' \in [at : Nat, edge : Value!Places \cup {None}, finished : BOOLEAN]
        /\ ~s3'.finished /\ s3'.edge = l
    BY <1>2, <2>2, <2>4
  <2>6. \A p \in Value!Places : Passed(p)' <=> Before(p, l, s1.desc)
    BY <1>5, <2>4, <2>5 DEF Passed
  <2>7. \A p \in S : Passed(p)' => p \in Items(f)
    BY <1>2, <2>3, <2>6
  <2>8. \A p \in Value!Places : Passed(p) \/ p \in Items(f) => Passed(p)'
    <3>1. ASSUME NEW p \in Value!Places, Passed(p) PROVE Passed(p)'
      BY <1>2, <2>4, <2>6, <3>1, PassedFirst
    <3> QED
      BY <2>3, <2>6, <3>1
  <2> QED
    BY <1>1, <1>2, <1>5, <2>2, <2>3, <2>4, <2>5, <2>7, <2>8, PlacesStep
<1> QED
  BY <1>10, <1>11

LEMMA TimeStep ==
  ASSUME PagesBounds, PagesTyped, PlacesRead, Value!Page, s1.kind = "ts"
  PROVE  PagesTyped' /\ PlacesRead'
<1>1. PICK S : S = {p \in s2 : Value!InRange(p) /\ ~Passed(p)}
  OBVIOUS
<1>2. /\ S \subseteq Value!Places /\ s3.at \in Nat /\ s1.desc \in BOOLEAN /\ s1.kind \in ByPlace
      /\ \A p \in Value!Places : p \in Nat
      /\ s2 \subseteq Value!Places
      /\ s3.edge # None => s3.edge \in Nat
  <2>1. s1.kind \in ByPlace
    BY DEF ByPlace
  <2> QED
    BY <1>1, <2>1, ReadTyped
<1>3. PICK lo, hi : /\ lo = IF s1.desc \/ s3.edge = None THEN Value!From ELSE Value!Later(s3.edge)
                    /\ hi = IF s1.desc /\ s3.edge # None THEN Value!Earlier(s3.edge) ELSE Value!To
  OBVIOUS
<1>4. Value!PagesOf = {Value!TimePage}
  BY DEF Value!PagesOf
<1>5. ~s3.finished /\ UNCHANGED <<s1, s2, s5, s6>>
  BY DEF Value!Page
<1>6. Value!From \in Nat /\ Value!To \in Nat /\ (s3.edge # None => Value!From <= s3.edge /\ s3.edge <= Value!To)
  <2>1. Value!From \in Nat /\ Value!To \in Nat
    BY BoundsTyped DEF PagesBounds
  <2>2. s3.edge # None => Value!From <= s3.edge /\ s3.edge <= Value!To
    BY <1>2, <1>5 DEF PlacesRead, Value!InRange
  <2> QED
    BY <2>1, <2>2
<1>7. PICK T : T = Value!Span(lo, hi)
  OBVIOUS
<1>8. T \subseteq Value!Places
  BY <1>2, <1>7 DEF Value!Span
<1>9. PICK r : r = Value!FirstOf(T, PageSize, s1.desc)
  OBVIOUS
<1>10. FirstRows(r, T, PageSize, s1.desc)
  BY <1>2, <1>8, <1>9, FirstIs DEF PagesBounds
<1>11. Value!TimePage = IF Len(r) < PageSize THEN Value!PageOf(r, s3.at, None, TRUE)
                  ELSE Value!PageOf(r, s3.at, Value!Last(r), FALSE)
  BY <1>3, <1>7, <1>9 DEF Value!TimePage
<1>12. r \in Seq(T) /\ Ordered(r, s1.desc) /\ Items(r) \subseteq T
  BY <1>10 DEF FirstRows, Items
<1>13. CASE s3.edge = None \/ ~s1.desc \/ s3.edge # 0
  <2>1. T = S
    BY <1>1, <1>2, <1>3, <1>6, <1>7, <1>13
       DEF Value!Span, Value!InRange, Passed, Before, Value!Earlier, Value!Later, Value!Larger
  <2>2. CASE Len(r) < PageSize
    <3>1. s4' = s4 \o r /\ s3' = [at |-> s3.at, edge |-> None, finished |-> TRUE]
      <4>1. Value!TimePage = Value!PageOf(r, s3.at, None, TRUE)
        BY <1>11, <2>2
      <4> QED
        BY <1>4, <4>1, OnePageOf
    <3>2. Items(r) = S
      BY <1>10, <2>1, <2>2 DEF FirstRows
    <3>3. s3' \in [at : Nat, edge : Value!Places \cup {None}, finished : BOOLEAN] /\ s3'.finished
      BY <1>2, <3>1
    <3> QED
      BY <1>1, <1>2, <1>5, <1>12, <2>1, <3>1, <3>2, <3>3, PlacesStep
  <2>3. CASE ~(Len(r) < PageSize)
    <3>1. PICK l : l = Value!Last(r)
      OBVIOUS
    <3>2. s4' = s4 \o r /\ s3' = [at |-> s3.at, edge |-> l, finished |-> FALSE]
      <4>1. Value!TimePage = Value!PageOf(r, s3.at, l, FALSE)
        BY <1>11, <2>3, <3>1
      <4> QED
        BY <1>4, <4>1, OnePageOf
    <3>3. /\ l \in Items(r) /\ l \in S
          /\ \A x \in Items(r) : ~Before(l, x, s1.desc)
          /\ \A p \in S : p \in Items(r) \/ Before(l, p, s1.desc)
      <4>1. /\ Value!Last(r) \in Items(r) /\ Value!Last(r) \in T
            /\ \A x \in Items(r) : ~Before(Value!Last(r), x, s1.desc)
            /\ \A p \in T : p \in Items(r) \/ Before(Value!Last(r), p, s1.desc)
        <5>1. PICK d \in BOOLEAN : d = s1.desc
          BY <1>2
        <5>2. FirstRows(r, T, PageSize, d)
          BY <1>10, <5>1
        <5>3. /\ r \in Seq(T) /\ Ordered(r, d) /\ Value!Last(r) \in Items(r) /\ Value!Last(r) \in T
              /\ \A x \in Items(r) : ~Before(Value!Last(r), x, d)
              /\ \A p \in T : p \in Items(r) \/ Before(Value!Last(r), p, d)
          BY <1>8, <2>3, <5>2, FullPage, Zenon
        <5> QED
          BY <5>1, <5>3
      <4> QED
        BY <2>1, <3>1, <4>1
    <3>4. l \in Nat /\ l \in Value!Places /\ l # None /\ Value!InRange(l) /\ ~Passed(l)
      <4>1. l \in Nat /\ l \in Value!Places /\ Value!InRange(l) /\ ~Passed(l)
        BY <1>1, <1>2, <3>3
      <4> QED
        BY <4>1 DEF PagesBounds
    <3>5. /\ s3' \in [at : Nat, edge : Value!Places \cup {None}, finished : BOOLEAN]
          /\ ~s3'.finished /\ s3'.edge = l
      BY <1>2, <3>2, <3>4
    <3>6. \A p \in Value!Places : Passed(p)' <=> ~Before(l, p, s1.desc)
      BY <1>5, <3>4, <3>5 DEF Passed
    <3>7. \A p \in S : Passed(p)' => p \in Items(r)
      BY <1>2, <3>3, <3>6
    <3>8. \A p \in Value!Places : Passed(p) \/ p \in Items(r) => Passed(p)'
      <4>1. ASSUME NEW p \in Value!Places, Passed(p) PROVE Passed(p)'
        <5>1. Before(p, l, s1.desc)
          BY <1>2, <3>4, <4>1, PassedFirst
        <5>2. ~Before(l, p, s1.desc)
          BY <1>2, <3>4, <5>1 DEF Before
        <5> QED
          BY <3>6, <5>2
      <4> QED
        BY <3>3, <3>6, <4>1
    <3> QED
      BY <1>1, <1>2, <1>5, <1>12, <2>1, <3>2, <3>3, <3>4, <3>5, <3>7, <3>8, PlacesStep
  <2> QED
    BY <2>2, <2>3
\* At time 0 the page before has had all there is.
<1>14. CASE s3.edge # None /\ s1.desc /\ s3.edge = 0
  <2>1. \A p \in Value!Places : Passed(p)
    BY <1>2, <1>14 DEF Passed, Before
  <2>2. 0 \in Items(s4) /\ Value!TimeZero
    <3>1. 0 \in Items(s4)
      BY <1>2, <1>5, <1>14 DEF PlacesRead
    <3> QED
      BY <1>14, <3>1 DEF Value!TimeZero, Items
  <2>3. T \subseteq {0}
    <3>1. lo \in Nat /\ hi = 0
      BY <1>3, <1>6, <1>14 DEF Value!Earlier, Value!Larger
    <3> QED
      BY <1>2, <1>7, <3>1 DEF Value!Span
  <2>4. /\ s4' = s4 \o r
        /\ s3' \in [at : Nat, edge : Value!Places \cup {None}, finished : BOOLEAN]
        /\ ~s3'.finished => s3'.edge = 0
    <3>1. CASE Len(r) < PageSize
      <4>1. Value!TimePage = Value!PageOf(r, s3.at, None, TRUE)
        BY <1>11, <3>1
      <4>2. s4' = s4 \o r /\ s3' = [at |-> s3.at, edge |-> None, finished |-> TRUE]
        BY <1>4, <4>1, OnePageOf
      <4> QED
        BY <1>2, <4>2
    <3>2. CASE ~(Len(r) < PageSize)
      <4>1. Value!TimePage = Value!PageOf(r, s3.at, Value!Last(r), FALSE)
        BY <1>11, <3>2
      <4>2. /\ s4' = s4 \o r
            /\ s3' = [at |-> s3.at, edge |-> Value!Last(r), finished |-> FALSE]
        BY <1>4, <4>1, OnePageOf
      <4>3. Value!Last(r) \in T
        BY <1>2, <1>8, <1>10, <3>2, FullPage
      <4> QED
        BY <1>2, <1>8, <2>3, <4>2, <4>3
    <3> QED
      BY <3>1, <3>2
  <2>5. s4 \in Seq(Value!Places) /\ r \in Seq(Value!Places)
    BY <1>8, <1>12 DEF PagesTyped, Value!TypeOK
  <2>6. Items(s4') = Items(s4) \cup Items(r)
    <3>1. Items(s4 \o r) = Items(s4) \cup Items(r)
      BY <2>5, Joined
    <3> QED
      BY <2>4, <3>1
  <2>7. PagesTyped'
    BY <1>5, <2>4, <2>5, PageTyped
  <2>8. \A p : Value!InRange(p)' <=> Value!InRange(p)
    <3>1. Value!From' = Value!From /\ Value!To' = Value!To
      BY <1>5 DEF Value!From, Value!To
    <3> QED
      BY <1>5, <3>1 DEF Value!InRange
  <2>9. \A p \in s5 : Value!InRange(p) => p \in Items(s4')
    BY <1>2, <2>1, <2>6 DEF PlacesRead, PagesTyped
  <2>10. ~s3'.finished => \A p \in Items(s4') : Passed(p)'
    <3>1. \A p \in Items(s4') : p \in Value!Places
      BY <2>7 DEF PagesTyped, Value!TypeOK, Items
    <3>2. ~s3'.finished => \A p \in Value!Places : Passed(p)'
      <4>1. ~s3'.finished => s3'.edge = 0 /\ s3'.edge # None
        BY <1>14, <2>4
      <4> QED
        BY <1>2, <1>5, <1>14, <4>1 DEF Passed, Before
    <3> QED
      BY <3>1, <3>2
  <2>11. Value!TimeZero'
    <3>1. PICK i \in DOMAIN s4' : s4'[i] = 0
      BY <2>2, <2>6 DEF Items
    <3> QED
      BY <1>5, <1>14, <3>1 DEF Value!TimeZero
  <2>12. ~s3'.finished => Value!InRange(s3.edge)' /\ s3'.edge = s3.edge
                             /\ s3'.edge \in Items(s4')
    <3>1. Value!InRange(s3.edge)
      BY <1>2, <1>5, <1>14 DEF PlacesRead
    <3> QED
      BY <1>14, <2>2, <2>4, <2>6, <2>8, <3>1
  <2>13. \A p \in s5' : Value!InRange(p)' => p \in Items(s4')
    BY <1>5, <2>8, <2>9
  <2> QED
    BY <1>5, <2>7, <2>10, <2>11, <2>12, <2>13 DEF PlacesRead
<1> QED
  BY <1>13, <1>14

LEMMA NameStep ==
  ASSUME PagesBounds, PagesTyped, PlacesRead, Value!Page, s1.kind = "vector"
  PROVE  PagesTyped' /\ PlacesRead'
<1>1. PICK S : S = {p \in s2 : Value!InRange(p) /\ ~Passed(p)}
  OBVIOUS
<1>2. /\ S \subseteq Value!Places /\ s3.at \in Nat /\ ~s1.desc /\ s1.kind \in ByPlace
      /\ \A p \in Value!Places : p \in Nat
      /\ s2 \subseteq Value!Places
      /\ s3.edge # None => s3.edge \in Nat
  <2>1. ~s1.desc /\ s1.kind \in ByPlace
    BY DEF PagesTyped, AskIs, Value!OneWay, ByPlace
  <2> QED
    BY <1>1, <2>1, ReadTyped
<1>3. Value!PagesOf = {Value!NamePage}
  BY DEF Value!PagesOf
<1>4. ~s3.finished /\ UNCHANGED <<s1, s2, s5, s6>>
  BY DEF Value!Page
<1>5. \A p \in Value!Places : Value!InRange(p)
  <2>1. s1.min = None /\ s1.max = None
    BY DEF PagesTyped, AskIs
  <2> QED
    BY <1>2, <2>1 DEF Value!InRange, Value!From, Value!To, Value!Places
<1>6. {p \in s2 : s3.edge = None \/ p > s3.edge} = S
  BY <1>1, <1>2, <1>5 DEF Passed, Before
<1>7. PICK r : r = Value!FirstOf(S, PageSize, FALSE)
  OBVIOUS
<1>8. FirstRows(r, S, PageSize, FALSE)
  BY <1>2, <1>7, FirstIs DEF PagesBounds
<1>9. Value!NamePage = IF Len(r) < PageSize THEN Value!PageOf(r, s3.at, s3.edge, TRUE)
                 ELSE Value!PageOf(r, s3.at, Value!Last(r), FALSE)
  BY <1>6, <1>7 DEF Value!NamePage, Value!Finish
<1>10. r \in Seq(S) /\ Ordered(r, s1.desc) /\ Items(r) \subseteq S
  BY <1>2, <1>8 DEF FirstRows, Items, Ordered, Before
<1>11. CASE Len(r) < PageSize
  <2>1. s4' = s4 \o r /\ s3' = [at |-> s3.at, edge |-> s3.edge, finished |-> TRUE]
    <3>1. Value!NamePage = Value!PageOf(r, s3.at, s3.edge, TRUE)
      BY <1>9, <1>11
    <3> QED
      BY <1>3, <3>1, OnePageOf
  <2>2. Items(r) = S
    BY <1>8, <1>11 DEF FirstRows
  <2>3. s3' \in [at : Nat, edge : Value!Places \cup {None}, finished : BOOLEAN] /\ s3'.finished
    BY <2>1, ReadTyped
  <2> QED
    BY <1>1, <1>2, <1>4, <1>10, <2>1, <2>2, <2>3, PlacesStep
<1>12. CASE ~(Len(r) < PageSize)
  <2>1. PICK l : l = Value!Last(r)
    OBVIOUS
  <2>2. s4' = s4 \o r /\ s3' = [at |-> s3.at, edge |-> l, finished |-> FALSE]
    <3>1. Value!NamePage = Value!PageOf(r, s3.at, l, FALSE)
      BY <1>9, <1>12, <2>1
    <3> QED
      BY <1>3, <3>1, OnePageOf
  <2>3. /\ l \in Items(r) /\ l \in S
        /\ \A x \in Items(r) : ~Before(l, x, FALSE)
        /\ \A p \in S : p \in Items(r) \/ Before(l, p, FALSE)
    <3>1. /\ Value!Last(r) \in Items(r) /\ Value!Last(r) \in S
          /\ \A x \in Items(r) : ~Before(Value!Last(r), x, FALSE)
          /\ \A p \in S : p \in Items(r) \/ Before(Value!Last(r), p, FALSE)
      BY <1>2, <1>8, <1>12, FullPage
    <3> QED
      BY <2>1, <3>1
  <2>4. l \in Nat /\ l \in Value!Places /\ l # None /\ Value!InRange(l) /\ ~Passed(l)
    <3>1. l \in Nat /\ l \in Value!Places /\ Value!InRange(l) /\ ~Passed(l)
      BY <1>1, <1>2, <2>3
    <3> QED
      BY <3>1 DEF PagesBounds
  <2>5. /\ s3' \in [at : Nat, edge : Value!Places \cup {None}, finished : BOOLEAN]
        /\ ~s3'.finished /\ s3'.edge = l
    BY <1>2, <2>2, <2>4
  <2>6. \A p \in Value!Places : Passed(p)' <=> p <= l
    BY <1>2, <1>4, <2>4, <2>5 DEF Passed, Before
  <2>7. \A p \in S : Passed(p)' => p \in Items(r)
    BY <1>2, <2>3, <2>4, <2>6 DEF Before
  <2>8. \A p \in Value!Places : Passed(p) \/ p \in Items(r) => Passed(p)'
    <3>1. ASSUME NEW p \in Value!Places, Passed(p) PROVE Passed(p)'
      <4>1. Before(p, l, s1.desc)
        BY <1>2, <2>4, <3>1, PassedFirst
      <4>2. p <= l
        BY <1>2, <2>4, <4>1 DEF Before
      <4> QED
        BY <2>6, <4>2
    <3>2. ASSUME NEW p \in Value!Places, p \in Items(r) PROVE p <= l
      BY <1>2, <2>3, <2>4, <3>2 DEF Before
    <3> QED
      BY <2>6, <3>1, <3>2
  <2> QED
    BY <1>1, <1>2, <1>4, <1>10, <2>2, <2>3, <2>4, <2>5, <2>7, <2>8, PlacesStep
<1> QED
  BY <1>11, <1>12

LEMMA SeqWithin ==
  ASSUME NEW S, NEW T, S \subseteq T, NEW q \in Seq(S)
  PROVE  q \in Seq(T)
<1>1. PICK n \in Nat : n = Len(q) /\ DOMAIN q = 1..n
  OBVIOUS
<1>2. q \in [1..n -> T]
  BY <1>1
<1> QED
  BY <1>2

LEMMA SliceIs ==
  ASSUME NEW S, NEW all \in Seq(S), NEW k \in Nat, NEW m \in Nat, m <= Len(all)
  PROVE  /\ SubSeq(all, k + 1, m) \in Seq(S)
         /\ Len(SubSeq(all, k + 1, m)) = IF k < m THEN m - k ELSE 0
         /\ Follows(SubSeq(all, k + 1, m), k, all)
<1>1. PICK b \in Nat : b = k + 1
  OBVIOUS
<1>2. PICK r : r = SubSeq(all, b, m)
  OBVIOUS
<1>3. CASE k < m
  <2>1. r \in Seq(S) /\ Len(r) = m - b + 1
    BY <1>1, <1>2, <1>3
  <2>2. \A i \in 1..m - b + 1 : r[i] = all[b + i - 1]
    BY <1>1, <1>2, <1>3
  <2>3. m - b + 1 = m - k /\ \A i \in 1..m - b + 1 : b + i - 1 = k + i
    BY <1>1
  <2>4. \A i \in 1..Len(r) : r[i] = all[k + i]
    BY <2>1, <2>2, <2>3
  <2> QED
    BY <1>1, <1>2, <1>3, <2>1, <2>3, <2>4 DEF Follows
<1>4. CASE ~(k < m)
  <2>1. r = <<>>
    BY <1>1, <1>2, <1>4
  <2> QED
    BY <1>1, <1>2, <1>4, <2>1 DEF Follows
<1> QED
  BY <1>3, <1>4

LEMMA StartLonger ==
  ASSUME NEW S, NEW s \in Seq(S), NEW q \in Seq(S), NEW all \in Seq(S), StartOf(s, all),
         Follows(q, Len(s), all), Len(s) + Len(q) <= Len(all)
  PROVE  StartOf(s \o q, all) /\ Len(s \o q) = Len(s) + Len(q)
<1>1. PICK a \in Nat, k \in Nat : a = Len(s) /\ k = Len(q)
  OBVIOUS
<1>2. PICK t : t = s \o q
  OBVIOUS
<1>3. /\ Len(t) = a + k
      /\ \A i \in 1..a : t[i] = s[i]
      /\ \A i \in 1..k : t[a + i] = q[i]
  BY <1>1, <1>2, Joined
<1>4. \A i \in 1..a : t[i] = all[i]
  BY <1>1, <1>3 DEF StartOf
<1>5. \A i \in 1..k : t[a + i] = all[a + i]
  BY <1>1, <1>3 DEF Follows
<1>6. ASSUME NEW i \in 1..a + k PROVE t[i] = all[i]
  <2>1. CASE i <= a
    BY <1>4, <2>1
  <2>2. CASE i > a
    <3>1. i - a \in 1..k /\ a + (i - a) = i
      BY <2>2
    <3> QED
      BY <1>5, <3>1
  <2> QED
    BY <2>1, <2>2
<1> QED
  BY <1>1, <1>2, <1>3, <1>6 DEF StartOf

\* Rows that follow those of the pages before.
LEMMA ScoreRows ==
  ASSUME PagesBounds, PagesTyped, ScoresRead, s1.kind = "zset", ~s3.finished,
         UNCHANGED <<s1, s2, s5, s6>>, NEW all, all = Value!Sorted(Value!Span(Value!From, Value!To), FALSE),
         NEW q \in Seq(Value!Places), Follows(q, s3.at, all), s4' = s4 \o q,
         s3' \in [at : Nat, edge : Value!Places \cup {None}, finished : BOOLEAN],
         s6 => /\ s3.at + Len(q) <= Len(all)
               /\ IF s3'.finished THEN s3.at + Len(q) = Len(all)
                  ELSE s3'.at = s3.at + Len(q)
  PROVE  PagesTyped' /\ ScoresRead'
<1>1. PagesTyped'
  BY PageTyped
<1>2. Value!Sorted(Value!Span(Value!From, Value!To), FALSE)' = all
  BY DEF Value!Span, Value!From, Value!To, Value!Sorted, Value!UpTo
<1>3. ASSUME s6
      PROVE  /\ StartOf(s4', all)
             /\ IF s3'.finished THEN Len(s4') = Len(all) ELSE s3'.at = Len(s4')
  <2>1. StartOf(s4, all) /\ s3.at = Len(s4)
    BY <1>3 DEF ScoresRead
  <2>2. s4 \in Seq(Value!Places)
    BY DEF PagesTyped, Value!TypeOK
  <2>3. all \in Seq(Value!Places)
    <3>1. Value!Span(Value!From, Value!To) \subseteq Value!Places
      BY DEF Value!Span, PagesTyped, Value!TypeOK
    <3>2. all \in Seq(Value!Span(Value!From, Value!To))
      BY <3>1, SortedIs
    <3> QED
      BY <3>1, <3>2, SeqWithin
  <2>4. Follows(q, Len(s4), all) /\ Len(s4) + Len(q) <= Len(all)
    BY <1>3, <2>1
  <2>5. StartOf(s4 \o q, all) /\ Len(s4 \o q) = Len(s4) + Len(q)
    BY <2>1, <2>2, <2>3, <2>4, StartLonger, ZenonT(30)
  <2> QED
    BY <1>3, <2>1, <2>5
<1>4. ScoresRead'
  BY <1>2, <1>3 DEF ScoresRead
<1> QED
  BY <1>1, <1>4

LEMMA ScoreStep ==
  ASSUME PagesBounds, PagesTyped, ScoresRead, Value!Page, s1.kind = "zset"
  PROVE  PagesTyped' /\ ScoresRead'
<1>1. Value!Span(Value!From, Value!To) \subseteq Value!Places /\ s3.at \in Nat
      /\ s3.edge \in Value!Places \cup {None}
  BY ReadTyped DEF Value!Span
<1>2. PICK all : all = Value!Sorted(Value!Span(Value!From, Value!To), FALSE)
  OBVIOUS
<1>3. all \in Seq(Value!Places)
  <2>1. all \in Seq(Value!Span(Value!From, Value!To))
    BY <1>1, <1>2, SortedIs
  <2> QED
    BY <1>1, <2>1, SeqWithin
<1>4. PICK c \in Nat, n \in Nat \ {0}, a \in Nat : c = Len(all) /\ n = PageSize /\ a = s3.at
  <2>1. Len(all) \in Nat
    BY <1>3
  <2>2. PageSize \in Nat \ {0}
    BY DEF PagesBounds
  <2> QED
    BY <1>1, <2>1, <2>2
<1>5. ~s3.finished /\ UNCHANGED <<s1, s2, s5, s6>> /\ Value!PagesOf = {Value!ScorePage}
  BY DEF Value!Page, Value!PagesOf
<1>6. PICK m \in Nat : m = IF a + n + 1 < c THEN a + n + 1 ELSE c
  OBVIOUS
<1>7. PICK r : r = SubSeq(all, a + 1, m)
  OBVIOUS
<1>8. m <= c
  BY <1>6
<1>9. Value!ScorePage = IF Value!More(r) THEN Value!PageOf(Value!Front(r), a + n, s3.edge, FALSE)
                  ELSE Value!PageOf(r, a, s3.edge, TRUE)
  BY <1>2, <1>4, <1>6, <1>7 DEF Value!ScorePage, Value!Finish, Value!Smaller
<1>10. r \in Seq(Value!Places) /\ Len(r) = (IF a < m THEN m - a ELSE 0) /\ Follows(r, a, all)
  BY <1>3, <1>4, <1>7, <1>8, SliceIs
<1>11. Len(r) \in Nat
  <2>1. r \in Seq(Value!Places)
    BY <1>10
  <2> QED
    BY <2>1
<1>12. s6 => a <= c
  <2>1. s6 => Len(s4) <= Len(all) /\ a = Len(s4)
    BY <1>2, <1>4, <1>5 DEF ScoresRead, StartOf
  <2> QED
    BY <1>4, <2>1
<1>13. CASE ~Value!More(r)
  <2>1. s4' = s4 \o r /\ s3' = [at |-> a, edge |-> s3.edge, finished |-> TRUE]
    <3>1. Value!ScorePage = Value!PageOf(r, a, s3.edge, TRUE)
      BY <1>9, <1>13
    <3> QED
      BY <1>5, <3>1, OnePageOf
  <2>2. PICK k \in Nat : k = Len(r)
    BY <1>11
  <2>3. ~(k > n)
    BY <1>4, <1>13, <2>2 DEF Value!More
  <2>4. s6 => a + k = c
    BY <1>6, <1>10, <1>12, <2>2, <2>3
  <2>5. s3' \in [at : Nat, edge : Value!Places \cup {None}, finished : BOOLEAN] /\ s3'.finished
    BY <1>1, <2>1
  <2>6. s6 => s3.at + Len(r) <= Len(all) /\ s3.at + Len(r) = Len(all)
    BY <1>4, <2>2, <2>4
  <2>7. Follows(r, s3.at, all)
    BY <1>4, <1>10
  <2> QED
    BY <1>2, <1>5, <1>10, <2>1, <2>5, <2>6, <2>7, ScoreRows
<1>14. CASE Value!More(r)
  <2>1. PICK q : q = Value!Front(r)
    OBVIOUS
  <2>2. s4' = s4 \o q /\ s3' = [at |-> a + n, edge |-> s3.edge, finished |-> FALSE]
    <3>1. Value!ScorePage = Value!PageOf(q, a + n, s3.edge, FALSE)
      BY <1>9, <1>14, <2>1
    <3> QED
      BY <1>5, <3>1, OnePageOf
  <2>3. PICK k \in Nat : k = Len(r)
    BY <1>11
  <2>4. k > n
    BY <1>4, <1>14, <2>3 DEF Value!More
  <2>5. k = n + 1 /\ m = a + n + 1
    BY <1>6, <1>10, <2>3, <2>4
  <2>6. q = SubSeq(r, 1, n)
    BY <2>1, <2>3, <2>5 DEF Value!Front
  <2>7. q \in Seq(Value!Places) /\ Len(q) = n /\ \A i \in 1..n : q[i] = r[i]
    BY <1>10, <2>3, <2>5, <2>6
  <2>8. Follows(q, s3.at, all)
    <3>1. \A i \in 1..n : i \in 1..Len(r)
      BY <2>3, <2>5
    <3> QED
      BY <1>4, <1>10, <2>7, <3>1 DEF Follows
  <2>9. s3.at + Len(q) <= Len(all) /\ s3'.at = s3.at + Len(q)
    BY <1>4, <1>8, <2>2, <2>5, <2>7
  <2>10. s3' \in [at : Nat, edge : Value!Places \cup {None}, finished : BOOLEAN] /\ ~s3'.finished
    BY <1>1, <2>2
  <2> QED
    BY <1>2, <1>5, <2>2, <2>7, <2>8, <2>9, <2>10, ScoreRows
<1> QED
  BY <1>13, <1>14

LEMMA NumberedLonger ==
  ASSUME NEW s \in Seq(Value!Places), NEW q \in Seq(Value!Places), NEW b \in Nat, NEW desc \in BOOLEAN,
         NEW k \in Nat, k = Len(s), Numbered(s, b, desc),
         Numbered(q, Onward(b, k, desc), desc)
  PROVE  Numbered(s \o q, b, desc)
<1>1. PICK n \in Nat : n = Len(q)
  OBVIOUS
<1>2. PICK t : t = s \o q
  OBVIOUS
<1>3. /\ Len(t) = k + n
      /\ \A i \in 1..k : t[i] = s[i]
      /\ \A i \in 1..n : t[k + i] = q[i]
  BY <1>1, <1>2, Joined
<1>4. \A i \in 1..k : s[i] = IF desc THEN b - i + 1 ELSE b + i - 1
  BY DEF Numbered
<1>5. \A i \in 1..k : t[i] = IF desc THEN b - i + 1 ELSE b + i - 1
  BY <1>3, <1>4
<1>6. \A i \in 1..n : t[k + i] = IF desc THEN b - (k + i) + 1 ELSE b + (k + i) - 1
  <2>1. CASE desc
    <3>1. \A i \in 1..n : q[i] = (b - k) - i + 1 /\ (b - k) - i + 1 = b - (k + i) + 1
      BY <1>1, <2>1 DEF Numbered, Onward
    <3> QED
      BY <1>3, <2>1, <3>1
  <2>2. CASE ~desc
    <3>1. \A i \in 1..n : q[i] = (b + k) + i - 1 /\ (b + k) + i - 1 = b + (k + i) - 1
      BY <1>1, <2>2 DEF Numbered, Onward
    <3> QED
      BY <1>3, <2>2, <3>1
  <2> QED
    BY <2>1, <2>2
<1>7. ASSUME NEW i \in 1..k + n PROVE t[i] = IF desc THEN b - i + 1 ELSE b + i - 1
  <2>1. CASE i <= k
    <3>1. i \in 1..k
      BY <2>1
    <3> QED
      BY <1>5, <3>1
  <2>2. CASE i > k
    <3>1. i - k \in 1..n /\ k + (i - k) = i
      BY <2>2
    <3> QED
      BY <1>6, <3>1
  <2> QED
    BY <2>1, <2>2
<1>8. Numbered(t, b, desc)
  BY <1>3, <1>7 DEF Numbered
<1> QED
  BY <1>2, <1>8

\* The bounds of a list are indices, whatever is asked.
LEMMA ListBounds ==
  ASSUME PagesBounds, PagesTyped, s1.kind = "list"
  PROVE  /\ Value!ListMin \in Nat /\ Value!ListMax \in Nat /\ s2 \in Value!Lists
         /\ Cardinality(s2) \in 0..Top + 1 /\ s2 = 0..Cardinality(s2) - 1
         /\ \A p : p \in s2 <=> p \in Nat /\ p < Cardinality(s2)
<1>1. s2 \in Value!Lists
  BY DEF PagesTyped, Value!TypeOK
<1>2. PICK n \in Nat : /\ n = Cardinality(s2) /\ n \in 0..Top + 1 /\ s2 = 0..n - 1
                       /\ \A p : p \in s2 <=> p \in Nat /\ p < n
  BY <1>1, ListHas DEF PagesBounds
<1>3. s1.min # None => s1.min \in Int
  BY DEF PagesBounds, PagesTyped, Value!TypeOK
<1>4. s1.max # None => s1.max \in Int
  BY DEF PagesBounds, PagesTyped, Value!TypeOK
<1>5. \A v, d : d \in Nat /\ (v # None => v \in Int) => Value!Index(v, d) \in Nat
  BY <1>2, SameCardinality DEF Value!Index, Value!FromEnd, Value!Larger
<1>6. Value!Larger(n - 1, 0) \in Nat
  BY DEF Value!Larger
<1> QED
  BY <1>1, <1>2, <1>3, <1>4, <1>5, <1>6, SameCardinality DEF Value!ListMin, Value!ListMax

\* Rows that follow those of the pages before, from the end that was asked for.
LEMMA ListRows ==
  ASSUME PagesBounds, PagesTyped, ListRead, s1.kind = "list", ~s3.finished,
         UNCHANGED <<s1, s2, s5, s6>>, NEW q \in Seq(Value!Places), s4' = s4 \o q,
         s3' \in [at : Nat, edge : Value!Places \cup {None}, finished : BOOLEAN],
         s3'.at = s3.at + Len(q),
         Value!Unshifted /\ ~Value!PastEnd =>
           /\ Numbered(q, Onward(IF s1.desc THEN Value!ListMax ELSE Value!ListMin, s3.at, s1.desc), s1.desc)
           /\ s3'.finished => \A p \in s2 : Value!InRange(p) =>
                IF s1.desc THEN p > Value!ListMax - s3'.at ELSE p < Value!ListMin + s3'.at
  PROVE  PagesTyped' /\ ListRead'
<1>1. PagesTyped'
  BY PageTyped
<1>2. Value!ListMin' = Value!ListMin /\ Value!ListMax' = Value!ListMax
  BY DEF Value!ListMin, Value!ListMax, Value!Index
<1>3. (Value!Unshifted' <=> Value!Unshifted) /\ (Value!PastEnd' <=> Value!PastEnd) /\ (\A p : Value!InRange(p)' <=> Value!InRange(p))
  BY <1>2 DEF Value!Unshifted, Value!PastEnd, Value!InRange
<1>4. ASSUME Value!Unshifted, ~Value!PastEnd
      PROVE  /\ s3'.at = Len(s4')
             /\ Numbered(s4', IF s1.desc THEN Value!ListMax ELSE Value!ListMin, s1.desc)
  <2>1. PICK b \in Nat, d \in BOOLEAN, k \in Nat : b = (IF s1.desc THEN Value!ListMax ELSE Value!ListMin) /\ d = s1.desc
                                         /\ k = s3.at
    BY ListBounds, ReadTyped
  <2>2. k = Len(s4) /\ Numbered(s4, b, d) /\ s4 \in Seq(Value!Places)
    BY <1>4, <2>1 DEF ListRead, PagesTyped, Value!TypeOK
  <2>3. Numbered(q, Onward(b, k, d), d)
    BY <1>4, <2>1
  <2>4. k \in Nat
    BY <2>1, ReadTyped
  <2>5. Numbered(s4 \o q, b, d)
    BY <2>1, <2>2, <2>3, <2>4, NumberedLonger
  <2>6. Len(s4 \o q) = Len(s4) + Len(q)
    BY <2>2, Joined
  <2> QED
    BY <2>1, <2>2, <2>5, <2>6
<1>5. ListRead'
  BY <1>2, <1>3, <1>4 DEF ListRead
<1> QED
  BY <1>1, <1>5

LEMMA NoneOfNone == ASSUME NEW S, S = {}, NEW r \in Seq(S) PROVE r = <<>>
<1>1. Len(r) \in Nat /\ \A i \in 1..Len(r) : r[i] \in S
  OBVIOUS
<1>2. Len(r) = 0
  BY <1>1
<1> QED
  BY <1>2

\* What LRANGE answers for indices that are no more than a page apart.
RowsBetween(r, a, e, n) ==
  /\ r \in Seq(Value!Places) /\ Len(r) \in Nat
  /\ a <= e /\ a < n => Numbered(r, a, FALSE) /\ Len(r) = (IF e < n THEN e - a + 1 ELSE n - a)
  /\ ~(a <= e /\ a < n) => r = <<>>
ListOf(n) == n \in 0..Top + 1 /\ s2 = 0..n - 1

LEMMA SpanFirst ==
  ASSUME PagesBounds, NEW n \in Nat, ListOf(n), NEW a \in Nat, NEW e \in Nat, NEW z \in Nat,
         z = PageSize, e - a + 1 <= z
  PROVE  RowsBetween(Value!FirstOf(Value!Span(a, e), PageSize, FALSE), a, e, n)
<1>1. PICK t \in Nat : t = Top /\ n <= t + 1
  BY DEF PagesBounds, ListOf
<1>2. PICK r : r = Value!FirstOf(Value!Span(a, e), z, FALSE)
  OBVIOUS
<1>3. CASE a <= e /\ a < n
  <2>1. PICK m \in Nat : m = IF e < n THEN e ELSE n - 1
    BY <1>3
  <2>2. a <= m /\ m <= t /\ m - a + 1 <= z /\ m - a + 1 = (IF e < n THEN e - a + 1 ELSE n - a)
    BY <1>1, <1>3, <2>1
  <2>3. Value!Span(a, e) = a..m
    <3>1. \A p \in Int : 0 <= p /\ p <= n - 1 /\ a <= p /\ p <= e <=> a <= p /\ p <= m
      BY <1>3, <2>1
    <3>2. s2 = 0..n - 1
      BY DEF ListOf
    <3>3. Value!Span(a, e) \subseteq a..m
      BY <3>1, <3>2, SMTT(20) DEF Value!Span
    <3>4. a..m \subseteq Value!Span(a, e)
      BY <1>3, <2>1, <3>1, <3>2 DEF Value!Span
    <3> QED
      BY <3>3, <3>4
  <2>4. PICK c \in Nat : c = m - a + 1
    BY <2>1, <2>2
  <2>5. a <= m /\ m <= Top /\ m - a + 1 <= z
    BY <1>1, <2>2
  <2>6. Interval(a, m, z)
    BY <2>1, <2>5 DEF Interval
  <2>7. IsInterval(Value!FirstOf(a..m, z, FALSE), a, m)
    BY <2>6, IntervalFirst
  <2>8. r \in Seq(Value!Places) /\ Len(r) = c /\ \A i \in 1..c : r[i] = a + i - 1
    BY <1>2, <2>3, <2>4, <2>7 DEF IsInterval
  <2>9. Numbered(r, a, FALSE)
    BY <2>8 DEF Numbered
  <2> QED
    BY <1>2, <1>3, <2>2, <2>4, <2>8, <2>9 DEF RowsBetween
<1>4. CASE ~(a <= e /\ a < n)
  <2>1. PICK S : S = Value!Span(a, e)
    OBVIOUS
  <2>2. s2 = 0..n - 1
    BY DEF ListOf
  <2>3. S = {}
    BY <1>4, <2>1, <2>2 DEF Value!Span
  <2>4. FirstRows(r, S, z, FALSE)
    BY <1>2, <2>1, <2>3, FirstIs
  <2>5. r = <<>>
    BY <2>3, <2>4, NoneOfNone DEF FirstRows
  <2>6. r \in Seq(Value!Places) /\ Len(r) \in Nat
    BY <2>5
  <2> QED
    BY <1>2, <1>4, <2>5, <2>6 DEF RowsBetween
<1> QED
  BY <1>3, <1>4

LEMMA BackwardsIs ==
  ASSUME NEW r \in Seq(Value!Places), NEW a \in Nat, Numbered(r, a, FALSE)
  PROVE  /\ Value!Reverse(r) \in Seq(Value!Places) /\ Len(Value!Reverse(r)) = Len(r)
         /\ Numbered(Value!Reverse(r), a + Len(r) - 1, TRUE)
<1>1. PICK n \in Nat : n = Len(r)
  OBVIOUS
<1>2. PICK t : t = Value!Reverse(r)
  OBVIOUS
<1>3. t = [i \in 1..n |-> r[(n - i) + 1]]
  BY <1>1, <1>2 DEF Value!Reverse
<1>4. \A i \in 1..n : (n - i) + 1 \in 1..n
  OBVIOUS
<1>5. \A i \in 1..n : t[i] \in Value!Places
  BY <1>1, <1>3, <1>4
<1>6. t \in Seq(Value!Places) /\ Len(t) = n
  BY <1>3, <1>5
<1>7. ASSUME NEW i \in 1..n PROVE t[i] = (a + n - 1) - i + 1
  <2>1. PICK j \in 1..n : j = (n - i) + 1
    BY <1>4
  <2>2. t[i] = r[j]
    BY <1>3, <2>1
  <2>3. r[j] = a + j - 1
    BY <1>1, <2>1 DEF Numbered
  <2> QED
    BY <2>1, <2>2, <2>3
<1>8. Numbered(t, a + n - 1, TRUE)
  BY <1>6, <1>7 DEF Numbered
<1> QED
  BY <1>1, <1>2, <1>6, <1>8

LEMMA ListStep ==
  ASSUME PagesBounds, PagesTyped, ListRead, Value!Page, s1.kind = "list"
  PROVE  PagesTyped' /\ ListRead'
<1>1. ~s3.finished /\ UNCHANGED <<s1, s2, s5, s6>> /\ Value!PagesOf = {Value!ListPage}
  BY DEF Value!Page, Value!PagesOf
<1>2. PICK k \in Nat, lo \in Nat, hi \in Nat, z \in Nat \ {0} :
         k = s3.at /\ lo = Value!ListMin /\ hi = Value!ListMax /\ z = PageSize
  BY ReadTyped, ListBounds DEF PagesBounds
<1>3. PICK n \in 0..Top + 1 : /\ n = Cardinality(s2) /\ s2 = 0..n - 1
                              /\ \A p : p \in s2 <=> p \in Nat /\ p < n
  BY ListBounds
<1>4. n \in Nat /\ s3.edge \in Value!Places \cup {None} /\ ListOf(n)
  BY <1>3, ReadTyped DEF PagesBounds, ListOf
<1>5. \A p : Value!InRange(p) <=> lo <= p /\ p <= hi
  BY <1>2 DEF Value!InRange
\* The last page has no rows when no element of the range is left.
<1>6. ASSUME Value!ListPage = Value!Finish(<<>>),
             Value!Unshifted /\ ~Value!PastEnd => \A p \in s2 : Value!InRange(p) =>
               IF s1.desc THEN p > hi - k ELSE p < lo + k
      PROVE  PagesTyped' /\ ListRead'
  <2>1. PICK q : q = <<>>
    OBVIOUS
  <2>2. s4' = s4 \o q /\ s3' = [at |-> k, edge |-> s3.edge, finished |-> TRUE]
    <3>1. Value!ListPage = Value!PageOf(q, k, s3.edge, TRUE)
      BY <1>2, <1>6, <2>1 DEF Value!Finish
    <3> QED
      BY <1>1, <3>1, OnePageOf
  <2>3. q \in Seq(Value!Places) /\ Len(q) = 0
    BY <2>1
  <2>4. s3' \in [at : Nat, edge : Value!Places \cup {None}, finished : BOOLEAN]
        /\ s3'.at = s3.at + Len(q)
    BY <1>2, <1>4, <2>2, <2>3
  <2>5. \A b, d : Numbered(q, b, d)
    BY <2>3 DEF Numbered
  <2> QED
    BY <1>1, <1>2, <1>6, <2>2, <2>3, <2>4, <2>5, ListRows
<1>7. CASE s2 = {} \/ Value!ListMin > Value!ListMax \/ (s1.desc /\ Value!ListMax - s3.at < Value!ListMin)
  <2>1. Value!ListPage = Value!Finish(<<>>)
    BY <1>7 DEF Value!ListPage
  <2>2. ASSUME NEW p \in s2, Value!InRange(p) PROVE s1.desc /\ p > hi - k
    BY <1>2, <1>3, <1>5, <1>7, <2>2
  <2> QED
    BY <1>6, <2>1, <2>2
<1>8. CASE ~(s2 = {} \/ Value!ListMin > Value!ListMax \/ (s1.desc /\ Value!ListMax - s3.at < Value!ListMin))
  <2>1. CASE ~s1.desc
    <3>1. PICK a \in Nat, e \in Nat : a = lo + k /\ e = IF a + z - 1 < hi THEN a + z - 1 ELSE hi
      BY <1>2
    <3>2. e - a + 1 <= z /\ e <= hi
      BY <1>2, <3>1
    <3>3. Value!ListPage = Value!Range2(a, e)
      BY <1>2, <1>8, <2>1, <3>1 DEF Value!ListPage, Value!Smaller
    <3>4. PICK r : r = Value!FirstOf(Value!Span(a, e), PageSize, FALSE) /\ RowsBetween(r, a, e, n)
      BY <1>2, <1>4, <3>1, <3>2, SpanFirst
    <3>5. CASE a <= e /\ a < n
      <4>1. /\ r \in Seq(Value!Places) /\ Numbered(r, a, FALSE)
            /\ Len(r) = (IF e < n THEN e - a + 1 ELSE n - a) /\ Len(r) \in Nat
        BY <3>2, <3>4, <3>5 DEF RowsBetween
      <4>2. PICK c \in Nat : c = Len(r) /\ c = (IF e < n THEN e - a + 1 ELSE n - a) /\ c # 0
        <5>1. PICK c \in Nat : c = Len(r) /\ c = (IF e < n THEN e - a + 1 ELSE n - a)
          BY <4>1
        <5>2. c # 0
          BY <1>4, <3>1, <3>5, <5>1
        <5> QED
          BY <5>1, <5>2
      <4>3. PICK f : f = Value!Covered(a, e)
        OBVIOUS
      <4>4. f \in BOOLEAN /\ (f <=> e >= hi)
        <5>1. CASE e >= hi
          <6>1. Value!Covered(a, e) = TRUE
            BY <1>2, <2>1, <5>1 DEF Value!Covered
          <6> QED
            BY <4>3, <5>1, <6>1
        <5>2. CASE ~(e >= hi)
          <6>1. Value!Covered(a, e) = FALSE
            BY <1>2, <2>1, <5>2 DEF Value!Covered
          <6> QED
            BY <4>3, <5>2, <6>1
        <5> QED
          BY <5>1, <5>2
      <4>5. s4' = s4 \o r /\ s3' = [at |-> k + c, edge |-> s3.edge, finished |-> f]
        <5>1. r # <<>>
          BY <4>2
        <5>2. Value!ListPage = Value!PageOf(r, k + c, s3.edge, f)
          BY <1>2, <2>1, <3>3, <3>4, <4>2, <4>3, <5>1 DEF Value!Range2
        <5> QED
          BY <1>1, <5>2, OnePageOf
      <4>6. s3' \in [at : Nat, edge : Value!Places \cup {None}, finished : BOOLEAN]
            /\ s3'.at = s3.at + Len(r)
        BY <1>2, <1>4, <4>2, <4>5, <4>4
      <4>7. ASSUME s3'.finished, NEW p \in s2, Value!InRange(p) PROVE p < Value!ListMin + s3'.at
        <5>1. e >= hi /\ p <= hi /\ p \in Nat /\ p < n
          BY <1>3, <1>5, <4>5, <4>7, <4>4
        <5>2. p < lo + (k + c)
          BY <1>4, <3>1, <4>1, <4>2, <5>1
        <5> QED
          BY <1>2, <4>5, <5>2
      <4>8. Numbered(r, Onward(IF s1.desc THEN Value!ListMax ELSE Value!ListMin, s3.at, s1.desc), s1.desc)
        <5>1. Onward(Value!ListMin, s3.at, FALSE) = a
          BY <1>2, <3>1 DEF Onward
        <5>2. s1.desc = FALSE
          BY <2>1, ReadTyped
        <5> QED
          BY <4>1, <5>1, <5>2
      <4>9. s3'.finished => \A p \in s2 : Value!InRange(p) =>
              IF s1.desc THEN p > Value!ListMax - s3'.at ELSE p < Value!ListMin + s3'.at
        BY <2>1, <4>7
      <4> QED
        BY <1>1, <4>1, <4>5, <4>6, <4>8, <4>9, ListRows
    <3>6. CASE ~(a <= e /\ a < n)
      <4>1. r = <<>>
        BY <3>4, <3>6 DEF RowsBetween
      <4>2. Value!ListPage = Value!Finish(<<>>)
        BY <3>3, <3>4, <4>1 DEF Value!Range2, Value!EmptyPage
      <4>3. ASSUME NEW p \in s2, Value!InRange(p) PROVE p < lo + k
        <5>1. p <= hi /\ p \in Nat /\ p < n
          BY <1>3, <1>5, <4>3
        <5> QED
          BY <1>2, <1>4, <3>1, <3>6, <5>1
      <4> QED
        BY <1>6, <2>1, <4>2, <4>3
    <3> QED
      BY <3>5, <3>6
  <2>2. CASE s1.desc
    <3>1. hi - k >= lo
      BY <1>2, <1>8, <2>2
    <3>2. PICK e \in Nat : e = hi - k
      BY <1>2, <3>1
    <3>3. PICK a \in Nat : a = IF e - z + 1 > lo THEN e - z + 1 ELSE lo
      BY <1>2, <3>2
    <3>4. e = hi - k /\ a = (IF e - z + 1 > lo THEN e - z + 1 ELSE lo) /\ e \in Nat /\ a \in Nat
      BY <3>2, <3>3
    <3>5. e - a + 1 <= z /\ a <= e /\ lo <= a
      BY <1>2, <3>4, <3>1
    <3>6. Value!ListPage = Value!Range2(a, e)
      BY <1>2, <1>8, <2>2, <3>4 DEF Value!ListPage, Value!Larger
    <3>7. PICK r : r = Value!FirstOf(Value!Span(a, e), PageSize, FALSE) /\ RowsBetween(r, a, e, n)
      BY <1>2, <1>4, <3>4, <3>5, SpanFirst
    <3>8. CASE a < n
      <4>1. /\ r \in Seq(Value!Places) /\ Numbered(r, a, FALSE)
            /\ Len(r) = (IF e < n THEN e - a + 1 ELSE n - a) /\ Len(r) \in Nat
        BY <3>5, <3>7, <3>8 DEF RowsBetween
      <4>2. PICK c \in Nat : c = Len(r) /\ c = (IF e < n THEN e - a + 1 ELSE n - a) /\ c # 0
        <5>1. PICK c \in Nat : c = Len(r) /\ c = (IF e < n THEN e - a + 1 ELSE n - a)
          BY <4>1
        <5>2. c # 0
          BY <1>4, <3>4, <3>5, <3>8, <5>1
        <5> QED
          BY <5>1, <5>2
      <4>3. PICK f, q : f = Value!Covered(a, e) /\ q = Value!Reverse(r)
        OBVIOUS
      <4>4. f \in BOOLEAN /\ (f <=> a <= lo)
        <5>1. CASE a <= lo
          <6>1. Value!Covered(a, e) = TRUE
            BY <1>2, <2>2, <5>1 DEF Value!Covered
          <6> QED
            BY <4>3, <5>1, <6>1
        <5>2. CASE ~(a <= lo)
          <6>1. Value!Covered(a, e) = FALSE
            BY <1>2, <2>2, <5>2 DEF Value!Covered
          <6> QED
            BY <4>3, <5>2, <6>1
        <5> QED
          BY <5>1, <5>2
      <4>5. q \in Seq(Value!Places) /\ Len(q) = c /\ Numbered(q, a + c - 1, TRUE)
        BY <4>1, <4>2, <4>3, BackwardsIs
      <4>6. s4' = s4 \o q /\ s3' = [at |-> k + c, edge |-> s3.edge, finished |-> f]
        <5>1. r # <<>>
          BY <4>2
        <5>2. Value!ListPage = Value!PageOf(q, k + c, s3.edge, f)
          BY <1>2, <2>2, <3>6, <3>7, <4>2, <4>3, <5>1 DEF Value!Range2
        <5> QED
          BY <1>1, <5>2, OnePageOf
      <4>7. s3' \in [at : Nat, edge : Value!Places \cup {None}, finished : BOOLEAN]
            /\ s3'.at = s3.at + Len(q)
        BY <1>2, <1>4, <4>2, <4>5, <4>6, <4>4
      <4>8. ASSUME ~Value!PastEnd PROVE c = e - a + 1
        <5>1. hi < Value!Larger(n, 1)
          BY <1>2, <1>3, <1>4, <2>2, <4>8, SameCardinality DEF Value!PastEnd, Value!Larger
        <5>2. hi < n
          BY <1>2, <1>4, <3>8, <5>1 DEF Value!Larger
        <5> QED
          BY <1>4, <3>4, <4>1, <4>2, <5>2
      <4>9. ASSUME ~Value!PastEnd
            PROVE  /\ Numbered(q, Onward(IF s1.desc THEN Value!ListMax ELSE Value!ListMin, s3.at, s1.desc), s1.desc)
                   /\ s3'.finished => \A p \in s2 : Value!InRange(p) =>
                        IF s1.desc THEN p > Value!ListMax - s3'.at ELSE p < Value!ListMin + s3'.at
        <5>1. a + c - 1 = hi - k
          BY <3>4, <4>8, <4>9
        <5>2. ASSUME s3'.finished, NEW p \in s2, Value!InRange(p) PROVE p > hi - (k + c)
          <6>1. a <= lo /\ lo <= p /\ p \in Nat
            BY <1>3, <1>5, <4>6, <4>4, <5>2
          <6>2. hi - (k + c) = a - 1
            BY <1>2, <3>4, <4>2, <5>1
          <6>3. p >= a
            BY <1>2, <3>4, <6>1
          <6>4. p > a - 1
            BY <3>4, <6>1, <6>3
          <6> QED
            BY <6>2, <6>4
        <5>3. s3'.at = k + c
          BY <4>6
        <5>4. Onward(Value!ListMax, s3.at, TRUE) = a + c - 1
          BY <1>2, <5>1 DEF Onward
        <5>5. s1.desc = TRUE
          BY <2>2, ReadTyped
        <5>6. Numbered(q, Onward(IF s1.desc THEN Value!ListMax ELSE Value!ListMin, s3.at, s1.desc), s1.desc)
          BY <4>5, <5>4, <5>5
        <5> QED
          BY <1>2, <2>2, <5>2, <5>3, <5>6
      <4> QED
        BY <1>1, <4>5, <4>6, <4>7, <4>9, ListRows
    <3>9. CASE ~(a < n)
      <4>1. r = <<>>
        BY <3>7, <3>9 DEF RowsBetween
      <4>2. Value!ListPage = Value!Finish(<<>>)
        BY <3>6, <3>7, <4>1 DEF Value!Range2, Value!EmptyPage
      <4>3. ASSUME ~Value!PastEnd PROVE FALSE
        <5>1. hi < Value!Larger(n, 1)
          BY <1>2, <1>3, <1>4, <2>2, <4>3, SameCardinality DEF Value!PastEnd, Value!Larger
        <5>2. n # 0
          BY <1>3, <1>8
        <5> QED
          BY <1>2, <1>4, <3>4, <3>5, <3>9, <5>1, <5>2 DEF Value!Larger
      <4> QED
        BY <1>6, <4>2, <4>3
    <3> QED
      BY <3>8, <3>9
  <2> QED
    BY <2>1, <2>2
<1> QED
  BY <1>7, <1>8

LEMMA SampleStep ==
  ASSUME PagesBounds, PagesTyped, SampleRead, Value!Page, s1.kind = "sample"
  PROVE  PagesTyped' /\ SampleRead'
<1>1. Value!PagesOf = Value!SamplePages
  BY DEF Value!PagesOf
<1>2. PICK S \in SUBSET s2 :
        /\ ~s3.finished /\ UNCHANGED <<s1, s2, s5, s6>>
        /\ s4' = s4 \o Value!PageOf(Value!FirstOf(S, PageSize, FALSE), s3.at, None, TRUE).rows
        /\ s3' = Value!PageOf(Value!FirstOf(S, PageSize, FALSE), s3.at, None, TRUE).cursor
  BY <1>1 DEF Value!Page, Value!SamplePages
<1>3. PICK r : r = Value!FirstOf(S, PageSize, FALSE)
  OBVIOUS
<1>4. s4' = s4 \o r /\ s3' = [at |-> s3.at, edge |-> None, finished |-> TRUE]
  BY <1>2, <1>3 DEF Value!PageOf
<1>5. S \subseteq Value!Places /\ s3.at \in Nat
  BY ReadTyped
<1>6. r \in Seq(S) /\ Ordered(r, FALSE)
  BY <1>3, <1>5, FirstIs DEF PagesBounds, FirstRows
<1>7. r \in Seq(Value!Places) /\ s4 = <<>>
  BY <1>2, <1>5, <1>6 DEF SampleRead
<1>8. s4' = r
  BY <1>4, <1>7
<1>9. s3' \in [at : Nat, edge : Value!Places \cup {None}, finished : BOOLEAN] /\ s3'.finished
  BY <1>4, <1>5
<1>10. PagesTyped'
  BY <1>2, <1>4, <1>7, <1>9, PageTyped
<1> QED
  BY <1>2, <1>6, <1>8, <1>9, <1>10 DEF SampleRead

-----------------------------------------------------------------------------
LEMMA PagesInvStep == ASSUME PagesBounds, PagesInv, [Value!Next]_(Value!vars) PROVE PagesInv'
<1>1. PagesTyped /\ PlacesRead /\ ListRead /\ ScoresRead /\ SampleRead
  BY DEF PagesInv
<1>2. CASE Value!Page
  <2>1. s1' = s1
    BY <1>2 DEF Value!Page
  <2>2. s1.kind \in {"array", "zset", "vector", "sample", "list", "stream", "ts"}
    BY <1>1 DEF PagesTyped, Value!TypeOK, PagesBounds, Value!OneWay
  <2>3. CASE s1.kind \in ByPlace
    <3>1. PagesTyped' /\ PlacesRead'
      BY <1>1, <1>2, <2>3, ArrayStep, StreamStep, TimeStep, NameStep DEF ByPlace
    <3>2. ListRead' /\ ScoresRead' /\ SampleRead'
      BY <2>1, <2>3 DEF ByPlace, ListRead, ScoresRead, SampleRead
    <3> QED
      BY <3>1, <3>2 DEF PagesInv
  <2>4. CASE s1.kind = "list"
    <3>1. PagesTyped' /\ ListRead'
      BY <1>1, <1>2, <2>4, ListStep
    <3>2. PlacesRead' /\ ScoresRead' /\ SampleRead'
      BY <2>1, <2>4 DEF ByPlace, PlacesRead, ScoresRead, SampleRead
    <3> QED
      BY <3>1, <3>2 DEF PagesInv
  <2>5. CASE s1.kind = "zset"
    <3>1. PagesTyped' /\ ScoresRead'
      BY <1>1, <1>2, <2>5, ScoreStep
    <3>2. PlacesRead' /\ ListRead' /\ SampleRead'
      BY <2>1, <2>5 DEF ByPlace, PlacesRead, ListRead, SampleRead
    <3> QED
      BY <3>1, <3>2 DEF PagesInv
  <2>6. CASE s1.kind = "sample"
    <3>1. PagesTyped' /\ SampleRead'
      BY <1>1, <1>2, <2>6, SampleStep
    <3>2. PlacesRead' /\ ListRead' /\ ScoresRead'
      BY <2>1, <2>6 DEF ByPlace, PlacesRead, ListRead, ScoresRead
    <3> QED
      BY <3>1, <3>2 DEF PagesInv
  <2> QED
    BY <2>2, <2>3, <2>4, <2>5, <2>6 DEF ByPlace
<1>3. CASE \E p \in Value!Places : Value!Grow(p) \/ Value!Shrink(p)
  BY <1>3, OthersStep
<1>4. CASE UNCHANGED Value!vars
  <2>1. UNCHANGED <<s1, s2, s3, s4, s5, s6>>
    BY <1>4 DEF Value!vars
  <2>2. /\ Value!From' = Value!From /\ Value!To' = Value!To /\ Value!ListMin' = Value!ListMin
        /\ Value!ListMax' = Value!ListMax
    BY <2>1 DEF Value!From, Value!To, Value!ListMin, Value!ListMax, Value!Index
  <2>3. Value!Sorted(Value!Span(Value!From, Value!To), FALSE)' = Value!Sorted(Value!Span(Value!From, Value!To), FALSE)
    BY <2>1, <2>2 DEF Value!Span, Value!Sorted, Value!UpTo
  <2>4. \A p : (Value!InRange(p)' <=> Value!InRange(p)) /\ (Passed(p)' <=> Passed(p))
    BY <2>1, <2>2 DEF Value!InRange, Passed
  <2>5. (Value!Unshifted' <=> Value!Unshifted) /\ (Value!PastEnd' <=> Value!PastEnd) /\ (Value!TimeZero' <=> Value!TimeZero)
    BY <2>1, <2>2 DEF Value!Unshifted, Value!PastEnd, Value!TimeZero
  <2>6. PagesTyped'
    BY <1>1, <2>1 DEF PagesTyped, Value!TypeOK, AskIs
  <2>7. PlacesRead'
    <3>1. s3'.edge = s3.edge /\ (Value!InRange(s3.edge)' <=> Value!InRange(s3.edge))
      BY <2>1, <2>2 DEF Value!InRange
    <3> QED
      BY <1>1, <2>1, <2>4, <2>5, <3>1 DEF PlacesRead
  <2>8. ListRead'
    BY <1>1, <2>1, <2>2, <2>4, <2>5 DEF ListRead
  <2>9. ScoresRead' /\ SampleRead'
    BY <1>1, <2>1, <2>3 DEF ScoresRead, SampleRead
  <2> QED
    BY <2>6, <2>7, <2>8, <2>9 DEF PagesInv
<1> QED
  BY <1>2, <1>3, <1>4 DEF Value!Next

\* Neighbours are in the order that all are in.
LEMMA OrderedIsInOrder ==
  ASSUME PagesBounds, NEW q \in Seq(Value!Places), NEW desc \in BOOLEAN, Ordered(q, desc)
  PROVE  \A i \in 2..Len(q) : IF desc THEN q[i] < q[i - 1] ELSE q[i] > q[i - 1]
<1>1. PICK n \in Nat : n = Len(q) /\ DOMAIN q = 1..n
  OBVIOUS
<1>2. ASSUME NEW i \in 2..n PROVE Before(q[i - 1], q[i], desc)
  <2>1. PICK h \in 1..n : h = i - 1 /\ i \in 1..n /\ h < i
    <3>1. i - 1 \in 1..n /\ i \in 1..n /\ i - 1 < i
      OBVIOUS
    <3> QED
      BY <3>1
  <2>2. Before(q[h], q[i], desc)
    BY <1>1, <2>1 DEF Ordered
  <2> QED
    BY <2>1, <2>2
<1>3. ASSUME NEW i \in 2..n PROVE q[i] \in Nat /\ q[i - 1] \in Nat
  <2>1. i \in 1..n /\ i - 1 \in 1..n
    OBVIOUS
  <2>2. \A j \in 1..n : q[j] \in Nat
    BY <1>1 DEF Value!Places, PagesBounds
  <2> QED
    BY <2>1, <2>2
<1> QED
  BY <1>1, <1>2, <1>3 DEF Before

LEMMA NumberedOrdered ==
  ASSUME NEW q \in Seq(Value!Places), NEW b \in Nat, NEW desc \in BOOLEAN, Numbered(q, b, desc)
  PROVE  Ordered(q, desc)
<1>1. PICK n \in Nat : n = Len(q) /\ DOMAIN q = 1..n
  OBVIOUS
<1>2. ASSUME NEW i \in 1..n, NEW j \in 1..n, i < j PROVE Before(q[i], q[j], desc)
  <2>1. CASE desc
    <3>1. q[i] = b - i + 1 /\ q[j] = b - j + 1
      BY <1>1, <2>1 DEF Numbered
    <3> QED
      BY <1>2, <2>1, <3>1 DEF Before
  <2>2. CASE ~desc
    <3>1. q[i] = b + i - 1 /\ q[j] = b + j - 1
      BY <1>1, <2>2 DEF Numbered
    <3> QED
      BY <1>2, <2>2, <3>1 DEF Before
  <2> QED
    BY <2>1, <2>2
<1> QED
  BY <1>1, <1>2 DEF Ordered

LEMMA PagesSafe == ASSUME PagesBounds, PagesInv PROVE Value!PagesComplete /\ Value!PagesInOrder
<1>1. PagesTyped /\ PlacesRead /\ ListRead /\ ScoresRead /\ SampleRead
  BY DEF PagesInv
<1>2. /\ s4 \in Seq(Value!Places) /\ s1.desc \in BOOLEAN /\ s5 \subseteq s2
      /\ s2 \subseteq Value!Places
      /\ s1.kind \in {"array", "zset", "vector", "sample", "list", "stream", "ts"}
  BY <1>1 DEF PagesTyped, Value!TypeOK, PagesBounds, Value!OneWay
<1>3. \A p : p \in Items(s4) => Value!Contains(s4, p)
  BY <1>2 DEF Items, Value!Contains
<1>4. ASSUME s1.kind \in ByPlace
      PROVE  /\ s3.finished => \A p \in s5 : Value!InRange(p) => p \in Items(s4)
             /\ ~Value!TimeZero => Ordered(s4, s1.desc)
  BY <1>1, <1>4 DEF PlacesRead
<1>5. ASSUME s1.kind = "list", Value!Unshifted, ~Value!PastEnd
      PROVE  /\ s3.finished => \A p \in s5 : Value!InRange(p) => p \in Items(s4)
             /\ Ordered(s4, s1.desc)
  <2>1. PICK b \in Nat, d \in BOOLEAN, k \in Nat, lo \in Nat, hi \in Nat :
          /\ b = (IF s1.desc THEN Value!ListMax ELSE Value!ListMin) /\ d = s1.desc /\ k = s3.at
          /\ lo = Value!ListMin /\ hi = Value!ListMax
    BY <1>1, <1>5, ListBounds, ReadTyped
  <2>2. k = Len(s4) /\ Numbered(s4, b, d)
    BY <1>1, <1>5, <2>1 DEF ListRead
  <2>3. Ordered(s4, s1.desc)
    BY <1>2, <2>1, <2>2, NumberedOrdered
  <2>4. ASSUME s3.finished, NEW p \in s5, Value!InRange(p) PROVE p \in Items(s4)
    <3>1. p \in Nat /\ lo <= p /\ p <= hi
      BY <1>1, <1>2, <1>5, <2>1, <2>4, ReadTyped DEF Value!InRange
    <3>2. IF d THEN p > hi - k ELSE p < lo + k
      BY <1>1, <1>2, <1>5, <2>1, <2>4 DEF ListRead
    <3>3. CASE d
      <4>1. PICK i \in 1..k : i = hi - p + 1
        BY <3>1, <3>2, <3>3
      <4>2. s4[i] = p
        <5>1. s4[i] = hi - i + 1
          BY <2>1, <2>2, <3>3, <4>1 DEF Numbered
        <5> QED
          BY <3>1, <4>1, <5>1
      <4> QED
        BY <1>2, <2>2, <4>1, <4>2 DEF Items
    <3>4. CASE ~d
      <4>1. PICK i \in 1..k : i = p - lo + 1
        BY <3>1, <3>2, <3>4
      <4>2. s4[i] = p
        <5>1. s4[i] = lo + i - 1
          BY <2>1, <2>2, <3>4, <4>1 DEF Numbered
        <5> QED
          BY <3>1, <4>1, <5>1
      <4> QED
        BY <1>2, <2>2, <4>1, <4>2 DEF Items
    <3> QED
      BY <3>3, <3>4
  <2> QED
    BY <2>3, <2>4
<1>6. ASSUME s1.kind = "zset", Value!Unshifted
      PROVE  /\ s3.finished => \A p \in s5 : Value!InRange(p) => p \in Items(s4)
             /\ Ordered(s4, s1.desc)
  <2>1. s6 /\ s1.desc = FALSE
    BY <1>1, <1>2, <1>6 DEF Value!Unshifted, PagesTyped, AskIs, Value!OneWay
  <2>2. PICK all : all = Value!Sorted(Value!Span(Value!From, Value!To), FALSE)
    OBVIOUS
  <2>3. Value!Span(Value!From, Value!To) \subseteq Value!Places
    BY <1>2 DEF Value!Span
  <2>4. /\ all \in Seq(Value!Span(Value!From, Value!To))
        /\ Items(all) = Value!Span(Value!From, Value!To) /\ Ordered(all, FALSE)
    BY <2>2, <2>3, SortedIs
  <2>5. PICK n \in Nat, k \in Nat : n = Len(all) /\ k = Len(s4) /\ DOMAIN all = 1..n /\ DOMAIN s4 = 1..k
    BY <1>2, <2>4
  <2>6. k <= n /\ \A i \in 1..k : i \in 1..n /\ s4[i] = all[i]
    <3>1. StartOf(s4, all)
      BY <1>1, <1>6, <2>1, <2>2 DEF ScoresRead
    <3> QED
      BY <2>5, <3>1 DEF StartOf
  <2>7. Ordered(s4, FALSE)
    BY <2>4, <2>5, <2>6 DEF Ordered
  <2>8. ASSUME s3.finished, NEW p \in s5, Value!InRange(p) PROVE p \in Items(s4)
    <3>1. p \in Value!Span(Value!From, Value!To)
      BY <1>2, <1>6, <2>8 DEF Value!InRange, Value!Span
    <3>2. PICK i \in 1..n : all[i] = p
      BY <2>4, <2>5, <3>1 DEF Items
    <3>3. k = n
      BY <1>1, <1>6, <2>1, <2>2, <2>5, <2>8 DEF ScoresRead
    <3> QED
      BY <2>5, <2>6, <3>2, <3>3 DEF Items
  <2> QED
    BY <2>1, <2>7, <2>8
<1>7. ASSUME s1.kind = "sample" PROVE Ordered(s4, s1.desc)
  <2>1. s1.desc = FALSE
    BY <1>1, <1>2, <1>7 DEF PagesTyped, AskIs, Value!OneWay
  <2>2. Ordered(s4, FALSE)
    <3>1. CASE s3.finished
      BY <1>1, <1>7, <3>1 DEF SampleRead
    <3>2. CASE ~s3.finished
      <4>1. s4 = <<>>
        BY <1>1, <1>7, <3>2 DEF SampleRead
      <4> QED
        BY <4>1 DEF Ordered
    <3> QED
      BY <3>1, <3>2
  <2> QED
    BY <2>1, <2>2
<1>8. Value!PagesComplete
  BY <1>2, <1>3, <1>4, <1>5, <1>6 DEF Value!PagesComplete, ByPlace
<1>9. Value!Unshifted /\ ~Value!PastEnd /\ ~Value!TimeZero => Ordered(s4, s1.desc)
  BY <1>2, <1>4, <1>5, <1>6, <1>7 DEF ByPlace
<1>10. Value!PagesInOrder
  BY <1>2, <1>9, OrderedIsInOrder DEF Value!PagesInOrder
<1> QED
  BY <1>8, <1>10

-----------------------------------------------------------------------------
LEMMA PagesInit == Init => (part = "pages" => PagesInv)
<1> SUFFICES ASSUME Value!Init PROVE PagesInv
  BY DEF Init
<1>1. PagesBounds
  BY PanelsAssumption DEF PanelsAssumption, PagesBounds, Value!OneWay
<1> QED
  BY <1>1, PagesInvInit

LEMMA PagesStep ==
  ASSUME part = "pages" => PagesInv, [Next]_vars
  PROVE  (part = "pages" => PagesInv)'
<1> SUFFICES ASSUME part = "pages", PagesInv PROVE PagesInv'
  BY DEF Next, vars
<1>1. PagesBounds
  BY PanelsAssumption DEF PanelsAssumption, PagesBounds, Value!OneWay
<1>2. Value!Next \/ UNCHANGED Value!vars
  BY DEF Next, vars, Value!vars
<1> QED
  BY <1>1, <1>2, PagesInvStep

\* Pages that are finished have had every element within the bounds that was there all the time,
\* and they follow one another in the direction asked for, with nothing twice, for any value, any
\* bounds and any page size: ops/field_scan.rs.
THEOREM PagesHaveAll == Spec => []PagesComplete
<1>1. PagesInv => Value!PagesComplete /\ Value!PagesInOrder
  BY PagesSafe, PanelsAssumption DEF PanelsAssumption, PagesBounds, Value!OneWay
<1>2. (part = "pages" => PagesInv) => PagesComplete
  BY <1>1 DEF PagesComplete
<1>3. Spec => Init /\ [][Next]_vars
  BY DEF Spec
<1> QED
  BY <1>2, <1>3, PagesInit, PagesStep, PTL
=============================================================================
