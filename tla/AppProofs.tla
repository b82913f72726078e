------------------------------ MODULE AppProofs ------------------------------
(***************************************************************************)
(* The parts of Panels that are about the application's own windows and    *)
(* pages, proved for all values of the constants: the search page, the     *)
(* list of the connections and the panel that edits a row.                 *)
(***************************************************************************)
EXTENDS Panels, Sequences, FiniteSetTheorems, SequenceTheorems, TLAPS

-----------------------------------------------------------------------------
(* Sequences: what they have. *)

\* The elements of a sequence.
Items(q) == {q[i] : i \in DOMAIN q}

\* A sequence without its i-th element.
Without(q, i) == SubSeq(q, 1, i - 1) \o SubSeq(q, i + 1, Len(q))

LEMMA EmptyItems == Items(<<>>) = {}
BY DEF Items

\* An element more, the first less, one less.
LEMMA ItemAdded ==
  ASSUME NEW S, NEW q \in Seq(S), NEW c \in S
  PROVE  /\ Append(q, c) \in Seq(S) /\ Items(Append(q, c)) = Items(q) \cup {c}
         /\ Append(q, c) # <<>> /\ Append(q, c)[Len(Append(q, c))] = c
<1> DEFINE p == Append(q, c)
<1>1. /\ p \in Seq(S) /\ DOMAIN q = 1..Len(q) /\ Len(q) \in Nat /\ Len(p) = Len(q) + 1
      /\ DOMAIN p = 1..Len(q) + 1 /\ p[Len(q) + 1] = c
      /\ \A i \in DOMAIN q : p[i] = q[i]
  OBVIOUS
<1> HIDE DEF p
<1>2. p # <<>> /\ Items(p) = Items(q) \cup {c} /\ p[Len(p)] = c
  BY <1>1 DEF Items
<1> QED
  BY <1>1, <1>2 DEF p

\* What a sequence has is of the set that it is over.
LEMMA ItemsTyped == ASSUME NEW S, NEW q \in Seq(S) PROVE Items(q) \subseteq S
BY DEF Items

LEMMA HeadTaken ==
  ASSUME NEW S, NEW q \in Seq(S), q # <<>>, NEW p, p = Tail(q)
  PROVE  /\ Head(q) \in S /\ p \in Seq(S) /\ Items(q) = Items(p) \cup {Head(q)}
         /\ IF p = <<>> THEN q[Len(q)] = Head(q) ELSE q[Len(q)] = p[Len(p)]
<1>1. /\ p \in Seq(S) /\ DOMAIN q = 1..Len(q) /\ Len(q) \in Nat \ {0} /\ Len(p) = Len(q) - 1
      /\ DOMAIN p = 1..Len(q) - 1 /\ Head(q) = q[1]
      /\ \A i \in DOMAIN p : p[i] = q[i + 1]
  OBVIOUS
<1>2. Head(q) \in S /\ (p = <<>> => Len(q) = 1) /\ (p # <<>> => Len(p) \in DOMAIN p)
  BY <1>1
<1>3. Items(q) = Items(p) \cup {Head(q)}
  <2>1. ASSUME NEW i \in DOMAIN q PROVE q[i] \in Items(p) \cup {Head(q)}
    <3>1. CASE i = 1
      BY <1>1, <3>1
    <3>2. CASE i # 1
      <4>1. i - 1 \in DOMAIN p /\ p[i - 1] = q[i]
        BY <1>1, <3>2
      <4> QED
        BY <4>1 DEF Items
    <3> QED
      BY <3>1, <3>2
  <2>2. \A i \in DOMAIN p : p[i] \in Items(q)
    BY <1>1 DEF Items
  <2>3. Head(q) \in Items(q)
    BY <1>1 DEF Items
  <2> QED
    BY <2>1, <2>2, <2>3 DEF Items
<1> QED
  BY <1>1, <1>2, <1>3

LEMMA ItemRemoved ==
  ASSUME NEW S, NEW q \in Seq(S), NEW i \in DOMAIN q
  PROVE  /\ Without(q, i) \in Seq(S) /\ q[i] \in S
         /\ Items(q) = Items(Without(q, i)) \cup {q[i]}
<1>0. PICK p : p = Without(q, i)
  OBVIOUS
<1> DEFINE front == SubSeq(q, 1, i - 1)
           back == SubSeq(q, i + 1, Len(q))
<1>1. p = front \o back
  BY <1>0 DEF Without
<1>2. DOMAIN q = 1..Len(q) /\ Len(q) \in Nat /\ i \in 1..Len(q) /\ q[i] \in S
  OBVIOUS
<1>3. front \in Seq(S) /\ Len(front) = i - 1 /\ \A k \in 1..i - 1 : front[k] = q[k]
  BY <1>2
<1>4. /\ back \in Seq(S) /\ Len(back) = Len(q) - i
      /\ \A k \in 1..Len(q) - i : back[k] = q[k + i]
  BY <1>2
<1> HIDE DEF front, back
<1>5. /\ front \o back \in Seq(S) /\ Len(front \o back) = Len(front) + Len(back)
      /\ \A k \in 1..Len(front) + Len(back) :
           (front \o back)[k] = IF k <= Len(front) THEN front[k] ELSE back[k - Len(front)]
  BY <1>3, <1>4, ConcatProperties, Zenon
<1>6. /\ p \in Seq(S) /\ Len(p) = Len(front) + Len(back)
      /\ \A k \in 1..Len(front) + Len(back) :
           p[k] = IF k <= Len(front) THEN front[k] ELSE back[k - Len(front)]
  BY <1>1, <1>5, Zenon
<1>7. DOMAIN p = 1..Len(q) - 1 /\ Len(front) + Len(back) = Len(q) - 1
  <2>1. DOMAIN p = 1..Len(p)
    BY <1>6
  <2> QED
    BY <1>2, <1>3, <1>4, <1>6, <2>1
<1>8. ASSUME NEW k \in DOMAIN p PROVE p[k] = IF k < i THEN q[k] ELSE q[k + 1]
  <2>1. CASE k < i
    BY <1>2, <1>3, <1>6, <1>7, <2>1
  <2>2. CASE k >= i
    <3>1. k - Len(front) \in 1..Len(q) - i /\ (k - Len(front)) + i = k + 1 /\ ~(k <= Len(front))
      BY <1>2, <1>3, <1>7, <2>2
    <3> QED
      BY <1>4, <1>6, <1>7, <2>2, <3>1
  <2> QED
    BY <1>2, <1>7, <2>1, <2>2
<1>9. \A k \in DOMAIN p : p[k] \in Items(q)
  BY <1>2, <1>7, <1>8 DEF Items
<1>10. ASSUME NEW k \in DOMAIN q, k # i PROVE q[k] \in Items(p)
  <2>1. CASE k < i
    <3>1. k \in DOMAIN p /\ p[k] = q[k]
      BY <1>2, <1>7, <1>8, <2>1
    <3> QED
      BY <3>1 DEF Items
  <2>2. CASE k > i
    <3>1. k - 1 \in DOMAIN p /\ ~(k - 1 < i) /\ (k - 1) + 1 = k
      BY <1>2, <1>7, <2>2
    <3>2. p[k - 1] = q[k]
      BY <1>8, <3>1
    <3> QED
      BY <3>1, <3>2 DEF Items
  <2> QED
    BY <1>10, <1>2, <2>1, <2>2
<1> QED
  BY <1>0, <1>2, <1>6, <1>9, <1>10 DEF Items

-----------------------------------------------------------------------------
(* SearchPage: exist, rows, sel, page, dialogs, tags, syn, hits, loading, calls and off
   are s1 to s11.  What an answer is about, as long as somebody waits for it, is what the
   page shows by then; and of the lists only the last one asked for is under way. *)

\* What a call carries is what its kind is about.
ArgsFit ==
  \A c \in s10 : /\ c.what = "tags" => c.arg \in Fields
                 /\ c.what \in {"query", "again"} => c.arg \in Queries
                 /\ c.what \in Search!Changes => c.index \in Indexes
QueryAlone == s4.query => s5 = {}
SearchTyped == Search!TypeOK /\ ArgsFit /\ QueryAlone

TagsWaited == "tags" \in s5 /\ ~s11.steered =>
  \A c \in s10 : c.what = "tags" /\ c.fresh => c.index = s3 /\ c.arg = s6.field
SynWaited == "syn" \in s5 /\ ~s11.steered =>
  \A c \in s10 : c.what = "syn" /\ c.fresh => c.index = s3
HitsWaited == s4.query /\ ~s11.queries =>
  /\ \A c \in s10 : c.what \in {"query", "again"} => c.index = s3 /\ c.arg = s4.text
  /\ Search!Waiting({"query", "again"}) \/ s8 = <<s3, s4.text>>

\* A change that the server has made, and nobody has asked for the list since.
Unlisted == \E c \in s10 : c.what \in Search!Changes /\ c.served
ListsWaited == ~s11.lists =>
  /\ \A c, d \in s10 : c.what = "list" /\ d.what = "list" => c = d
  /\ \A c \in s10 : c.what = "list" /\ c.served /\ ~Unlisted => c.got = s1
  /\ ~Search!Waiting({"list"}) /\ ~Unlisted /\ s2 # {} => s2 = s1

SearchInv ==
  /\ SearchTyped
  /\ TagsWaited /\ Search!TagsOfField
  /\ SynWaited /\ Search!SynOfIndex
  /\ HitsWaited /\ ListsWaited

-----------------------------------------------------------------------------
LEMMA SearchNone == None \notin Indexes /\ None \notin Fields /\ None \notin Queries
BY PanelsAssumption DEF PanelsAssumption

\* A call's kind, index and argument are still the same when it is not waited for any more.
LEMMA DroppedCalls ==
  ASSUME NEW q \in SUBSET Search!Call, NEW whats
  PROVE  /\ Search!Dropped(q, whats) \subseteq Search!Call
         /\ \A c \in Search!Dropped(q, whats) :
              \/ c \in q /\ c.what \notin whats
              \/ /\ c.what \in whats /\ ~c.fresh
                 /\ \E d \in q : d.what = c.what /\ d.index = c.index /\ d.arg = c.arg
                                 /\ d.served = c.served /\ d.got = c.got
         /\ \A c \in q : c.what \notin whats => c \in Search!Dropped(q, whats)
<1> DEFINE Drop(c) == [c EXCEPT !.fresh = FALSE]
<1>1. \A c \in Search!Call : /\ Drop(c) \in Search!Call /\ ~Drop(c).fresh
                             /\ Drop(c).what = c.what /\ Drop(c).index = c.index
                             /\ Drop(c).arg = c.arg /\ Drop(c).served = c.served
                             /\ Drop(c).got = c.got
  BY DEF Search!Call
<1>2. Search!Dropped(q, whats) = {IF c.what \in whats THEN Drop(c) ELSE c : c \in q}
  BY DEF Search!Dropped
<1> HIDE DEF Drop
<1> QED
  BY <1>1, <1>2

\* The server answers a list and makes a change.
LEMMA ServedCall ==
  ASSUME NEW c \in Search!Call, NEW got \in SUBSET Indexes
  PROVE  LET d == [c EXCEPT !.served = TRUE, !.got = got] IN
         /\ d \in Search!Call /\ d.what = c.what /\ d.index = c.index /\ d.arg = c.arg
         /\ d.fresh = c.fresh /\ d.served = TRUE /\ d.got = got
BY DEF Search!Call

-----------------------------------------------------------------------------
\* What a step of the page leaves alone, if it asks, drops or takes back only for the dialogs.
ListsAlone ==
  /\ UNCHANGED <<s1, s2>> /\ s11'.lists = s11.lists
  /\ \A c \in s10' : c.what \in Search!Changes \cup {"list"} => c \in s10
  /\ \A c \in s10 : c.what \in Search!Changes \cup {"list"} => c \in s10'

LEMMA ListsStay ==
  ASSUME ListsWaited, ListsAlone
  PROVE  ListsWaited'
BY DEF ListsWaited, ListsAlone, Unlisted, Search!Waiting

HitsAlone ==
  /\ UNCHANGED <<s3, s4, s8>> /\ s11'.queries = s11.queries
  /\ \A c \in s10' : c.what \in {"query", "again"} => c \in s10
  /\ \A c \in s10 : c.what \in {"query", "again"} => c \in s10'

LEMMA HitsStay ==
  ASSUME HitsWaited, HitsAlone
  PROVE  HitsWaited'
BY DEF HitsWaited, HitsAlone, Search!Waiting

TagsAlone ==
  /\ UNCHANGED <<s3, s6>> /\ s11'.steered = s11.steered /\ s5' \cap {"tags"} \subseteq s5
  /\ \A c \in s10' : c.what = "tags" /\ c.fresh => c \in s10

LEMMA TagsStay ==
  ASSUME TagsWaited, Search!TagsOfField, TagsAlone
  PROVE  TagsWaited' /\ (Search!TagsOfField)'
BY DEF TagsWaited, TagsAlone, Search!TagsOfField, Search!NoValues

SynAlone ==
  /\ UNCHANGED <<s3, s7>> /\ s11'.steered = s11.steered /\ s5' \cap {"syn"} \subseteq s5
  /\ \A c \in s10' : c.what = "syn" /\ c.fresh => c \in s10

LEMMA SynStay ==
  ASSUME SynWaited, Search!SynOfIndex, SynAlone
  PROVE  SynWaited' /\ (Search!SynOfIndex)'
BY DEF SynWaited, SynAlone, Search!SynOfIndex

-----------------------------------------------------------------------------
LEMMA TagsShownCalls ==
  ASSUME SearchTyped, NEW i \in Indexes, Search!TagsShown(i)
  PROVE  /\ s10' \subseteq Search!Call
         /\ s6' \in [field : Fields \cup {None}, of : Search!Maybe \X (Fields \cup {None})]
         /\ s6'.of = Search!NoValues
         /\ \A c \in s10' : \/ c \in s10 /\ c.what # "tags"
                            \/ /\ c.what = "tags" /\ c.arg \in Fields
                               /\ c.fresh => c.index = i /\ c.arg = s6'.field
         /\ \A c \in s10 : c.what # "tags" => c \in s10'
<1> DEFINE q == Search!Dropped(s10, {"tags"})
<1>1. /\ q \subseteq Search!Call
      /\ \A c \in q : \/ c \in s10 /\ c.what # "tags"
                      \/ c.what = "tags" /\ c.arg \in Fields /\ ~c.fresh
      /\ \A c \in s10 : c.what # "tags" => c \in q
  BY DroppedCalls DEF SearchTyped, ArgsFit, Search!TypeOK
<1>2. CASE \E f \in Fields : Search!LoadTags(i, f) /\ s6' = [field |-> f, of |-> Search!NoValues]
  <2> PICK f \in Fields : Search!LoadTags(i, f) /\ s6' = [field |-> f, of |-> Search!NoValues]
    BY <1>2
  <2> DEFINE n == Search!New("tags", i, f)
  <2>1. s10' = q \cup {n}
    BY DEF Search!LoadTags, Search!Ask
  <2>2. n \in Search!Call /\ n.what = "tags" /\ n.index = i /\ n.arg = f
    BY DEF Search!New, Search!Call, Search!Maybe
  <2>3. Search!NoValues \in Search!Maybe \X (Fields \cup {None})
    BY DEF Search!NoValues, Search!Maybe
  <2> HIDE DEF q, n
  <2> QED
    BY <1>1, <2>1, <2>2, <2>3
<1>3. CASE s10' = q /\ s6' = Search!NoTags
  <2> HIDE DEF q
  <2> QED
    BY <1>1, <1>3 DEF Search!NoTags, Search!NoValues, Search!Maybe
<1> QED
  BY <1>2, <1>3 DEF Search!TagsShown

LEMMA OpenTagsKeeps ==
  ASSUME SearchInv, NEW i \in Indexes, Search!OpenTags(i)
  PROVE  SearchInv'
<1> USE DEF SearchInv
<1>1. /\ Search!Row(i) /\ s5' = {"tags"} /\ Search!TagsShown(i)
      /\ s11' = [s11 EXCEPT !.steered = FALSE]
      /\ UNCHANGED <<s1, s2, s4, s7, s8, s9>>
  BY DEF Search!OpenTags
<1>2. s3' = i /\ i \in s2 /\ s5 = {} /\ ~s4.query
  BY <1>1 DEF Search!Row, Search!Behind
<1>3. s11' \in [steered : BOOLEAN, queries : BOOLEAN, lists : BOOLEAN] /\ ~s11'.steered
      /\ s11'.lists = s11.lists /\ s11'.queries = s11.queries
  BY <1>1 DEF SearchTyped, Search!TypeOK
<1>4. /\ s10' \subseteq Search!Call
      /\ s6' \in [field : Fields \cup {None}, of : Search!Maybe \X (Fields \cup {None})]
      /\ s6'.of = Search!NoValues
      /\ \A c \in s10' : \/ c \in s10 /\ c.what # "tags"
                         \/ /\ c.what = "tags" /\ c.arg \in Fields
                            /\ c.fresh => c.index = i /\ c.arg = s6'.field
      /\ \A c \in s10 : c.what # "tags" => c \in s10'
  BY <1>1, TagsShownCalls
<1>5. SearchTyped'
  BY <1>1, <1>2, <1>3, <1>4 DEF SearchTyped, Search!TypeOK, ArgsFit, QueryAlone, Search!Maybe,
                               Search!Changes
<1>6. TagsWaited' /\ (Search!TagsOfField)'
  BY <1>2, <1>4 DEF TagsWaited, Search!TagsOfField
<1>7. SynWaited' /\ (Search!SynOfIndex)'
  BY <1>1 DEF SynWaited, Search!SynOfIndex
<1>8. HitsWaited'
  BY <1>1, <1>2 DEF HitsWaited
<1>9. ListsWaited'
  BY <1>1, <1>3, <1>4, ListsStay DEF ListsAlone, Search!Changes
<1> QED
  BY <1>5, <1>6, <1>7, <1>8, <1>9

LEMMA OpenIndexKeeps ==
  ASSUME SearchInv, NEW i \in Indexes, NEW d \in {"detail", "alter"}, Search!OpenIndex(i, d)
  PROVE  SearchInv'
<1> USE DEF SearchInv
<1>1. /\ Search!Row(i) /\ s5' = {d} /\ s11' = [s11 EXCEPT !.steered = FALSE]
      /\ UNCHANGED <<s1, s2, s4, s6, s7, s8, s9, s10>>
  BY DEF Search!OpenIndex
<1>2. s3' = i /\ i \in s2 /\ s5 = {} /\ ~s4.query
  BY <1>1 DEF Search!Row, Search!Behind
<1>3. s11' \in [steered : BOOLEAN, queries : BOOLEAN, lists : BOOLEAN] /\ s11'.lists = s11.lists
  BY <1>1 DEF SearchTyped, Search!TypeOK
<1>4. SearchTyped'
  BY <1>1, <1>2, <1>3 DEF SearchTyped, Search!TypeOK, ArgsFit, QueryAlone, Search!Maybe
<1>5. /\ TagsWaited' /\ (Search!TagsOfField)' /\ SynWaited' /\ (Search!SynOfIndex)'
      /\ HitsWaited'
  BY <1>1, <1>2 DEF TagsWaited, Search!TagsOfField, SynWaited, Search!SynOfIndex, HitsWaited
<1>6. ListsWaited'
  BY <1>1, <1>3, ListsStay DEF ListsAlone
<1> QED
  BY <1>4, <1>5, <1>6

LEMMA OpenTagFieldKeeps ==
  ASSUME SearchInv, Search!OpenTagField
  PROVE  SearchInv'
<1> USE DEF SearchInv
<1>1. /\ s5 = {"detail"} /\ s5' = {"detail", "tags"} /\ Search!TagsShown(s3)
      /\ UNCHANGED <<s1, s2, s3, s4, s7, s8, s9, s11>>
  BY DEF Search!OpenTagField
<1>2. s3 \in s2 /\ s3 \in Indexes
  BY <1>1 DEF SearchTyped, Search!TypeOK
<1>3. /\ s10' \subseteq Search!Call
      /\ s6' \in [field : Fields \cup {None}, of : Search!Maybe \X (Fields \cup {None})]
      /\ s6'.of = Search!NoValues
      /\ \A c \in s10' : \/ c \in s10 /\ c.what # "tags"
                         \/ /\ c.what = "tags" /\ c.arg \in Fields
                            /\ c.fresh => c.index = s3 /\ c.arg = s6'.field
      /\ \A c \in s10 : c.what # "tags" => c \in s10'
  BY <1>1, <1>2, TagsShownCalls
<1>4. SearchTyped'
  BY <1>1, <1>2, <1>3 DEF SearchTyped, Search!TypeOK, ArgsFit, QueryAlone, Search!Maybe,
                          Search!Changes
<1>5. TagsWaited' /\ (Search!TagsOfField)'
  BY <1>1, <1>3 DEF TagsWaited, Search!TagsOfField
<1>6. SynWaited' /\ (Search!SynOfIndex)'
  BY <1>1 DEF SynWaited, Search!SynOfIndex
<1>7. HitsWaited'
  BY <1>1, <1>3, HitsStay DEF HitsAlone
<1>8. ListsWaited'
  BY <1>1, <1>3, ListsStay DEF ListsAlone, Search!Changes
<1> QED
  BY <1>4, <1>5, <1>6, <1>7, <1>8

LEMMA TagFieldKeeps ==
  ASSUME SearchInv, NEW f \in Fields, Search!TagField(f)
  PROVE  SearchInv'
<1> USE DEF SearchInv
<1> DEFINE q == Search!Dropped(s10, {"tags"})
           n == Search!New("tags", s3, f)
<1>1. /\ "tags" \in s5 /\ Search!LoadTags(s3, f)
      /\ s6' = IF f = s6.field THEN s6 ELSE [field |-> f, of |-> Search!NoValues]
      /\ UNCHANGED <<s1, s2, s3, s4, s5, s7, s8, s9, s11>>
  BY DEF Search!TagField
<1>2. s10' = q \cup {n}
  BY <1>1 DEF Search!LoadTags, Search!Ask
<1>3. /\ q \subseteq Search!Call
      /\ \A c \in q : \/ c \in s10 /\ c.what # "tags"
                      \/ c.what = "tags" /\ c.arg \in Fields /\ ~c.fresh
      /\ \A c \in s10 : c.what # "tags" => c \in q
  BY DroppedCalls DEF SearchTyped, ArgsFit, Search!TypeOK
<1>4. n \in Search!Call /\ n.what = "tags" /\ n.index = s3 /\ n.arg = f
  BY DEF Search!New, Search!Call, SearchTyped, Search!TypeOK
<1>5. /\ s6' \in [field : Fields \cup {None}, of : Search!Maybe \X (Fields \cup {None})]
      /\ (s6'.field = f /\ s6'.of = Search!NoValues) \/ s6' = s6
  BY <1>1 DEF SearchTyped, Search!TypeOK, Search!NoValues, Search!Maybe
<1>6. s6'.field = f
  BY <1>1 DEF SearchTyped, Search!TypeOK
<1> HIDE DEF q, n
<1>7. SearchTyped'
  BY <1>1, <1>2, <1>3, <1>4, <1>5 DEF SearchTyped, Search!TypeOK, ArgsFit, QueryAlone,
                                      Search!Changes
<1>8. TagsWaited' /\ (Search!TagsOfField)'
  BY <1>1, <1>2, <1>3, <1>4, <1>5, <1>6 DEF TagsWaited, Search!TagsOfField
<1>9. SynWaited' /\ (Search!SynOfIndex)'
  BY <1>1, <1>2, <1>3, <1>4, SynStay DEF SynAlone
<1>10. HitsWaited'
  BY <1>1, <1>2, <1>3, <1>4, HitsStay DEF HitsAlone
<1>11. ListsWaited'
  BY <1>1, <1>2, <1>3, <1>4, ListsStay DEF ListsAlone, Search!Changes
<1> QED
  BY <1>7, <1>8, <1>9, <1>10, <1>11

\* The calls after one for synonyms.
LEMMA LoadSynCalls ==
  ASSUME SearchTyped, NEW q \in SUBSET s10, NEW i \in Search!Maybe, Search!LoadSyn(q, i)
  PROVE  /\ s10' \subseteq Search!Call
         /\ \A c \in s10' : \/ c \in q /\ c.what # "syn"
                            \/ c.what = "syn" /\ (c.fresh => c.index = i)
         /\ \A c \in q : c.what # "syn" => c \in s10'
<1> DEFINE d == Search!Dropped(q, {"syn"})
           n == Search!New("syn", i, None)
<1>1. s10' = d \cup {n}
  BY DEF Search!LoadSyn, Search!Ask
<1>2. /\ d \subseteq Search!Call
      /\ \A c \in d : \/ c \in q /\ c.what # "syn"
                      \/ c.what = "syn" /\ ~c.fresh
      /\ \A c \in q : c.what # "syn" => c \in d
  BY DroppedCalls DEF SearchTyped, Search!TypeOK
<1>3. n \in Search!Call /\ n.what = "syn" /\ n.index = i
  BY DEF Search!New, Search!Call
<1> HIDE DEF d, n
<1> QED
  BY <1>1, <1>2, <1>3

LEMMA OpenSynKeeps ==
  ASSUME SearchInv, NEW i \in Indexes, Search!OpenSyn(i)
  PROVE  SearchInv'
<1> USE DEF SearchInv
<1>1. /\ Search!Row(i) /\ s5' = {"syn"} /\ s11' = [s11 EXCEPT !.steered = FALSE]
      /\ s7' = None /\ Search!LoadSyn(s10, i)
      /\ UNCHANGED <<s1, s2, s4, s6, s8, s9>>
  BY DEF Search!OpenSyn
<1>2. s3' = i /\ i \in s2 /\ s5 = {} /\ ~s4.query
  BY <1>1 DEF Search!Row, Search!Behind
<1>3. s11' \in [steered : BOOLEAN, queries : BOOLEAN, lists : BOOLEAN] /\ s11'.lists = s11.lists
  BY <1>1 DEF SearchTyped, Search!TypeOK
<1>4. /\ s10' \subseteq Search!Call
      /\ \A c \in s10' : \/ c \in s10 /\ c.what # "syn"
                         \/ c.what = "syn" /\ (c.fresh => c.index = i)
      /\ \A c \in s10 : c.what # "syn" => c \in s10'
  BY <1>1, LoadSynCalls DEF Search!Maybe
<1>5. SearchTyped'
  BY <1>1, <1>2, <1>3, <1>4 DEF SearchTyped, Search!TypeOK, ArgsFit, QueryAlone, Search!Maybe,
                                Search!Changes
<1>6. TagsWaited' /\ (Search!TagsOfField)' /\ HitsWaited'
  BY <1>1, <1>2 DEF TagsWaited, Search!TagsOfField, HitsWaited
<1>7. SynWaited' /\ (Search!SynOfIndex)'
  BY <1>1, <1>2, <1>4 DEF SynWaited, Search!SynOfIndex
<1>8. ListsWaited'
  BY <1>1, <1>3, <1>4, ListsStay DEF ListsAlone, Search!Changes
<1> QED
  BY <1>5, <1>6, <1>7, <1>8

LEMMA SynAgainKeeps ==
  ASSUME SearchInv, Search!SynAgain
  PROVE  SearchInv'
<1> USE DEF SearchInv
<1>1. Search!LoadSyn(s10, s3) /\ UNCHANGED <<s1, s2, s3, s4, s5, s6, s7, s8, s9, s11>>
  BY DEF Search!SynAgain
<1>2. /\ s10' \subseteq Search!Call
      /\ \A c \in s10' : \/ c \in s10 /\ c.what # "syn"
                         \/ c.what = "syn" /\ (c.fresh => c.index = s3)
      /\ \A c \in s10 : c.what # "syn" => c \in s10'
  BY <1>1, LoadSynCalls DEF SearchTyped, Search!TypeOK
<1>3. SearchTyped'
  BY <1>1, <1>2 DEF SearchTyped, Search!TypeOK, ArgsFit, QueryAlone, Search!Changes
<1>4. TagsWaited' /\ (Search!TagsOfField)'
  BY <1>1, <1>2, TagsStay DEF TagsAlone
<1>5. SynWaited' /\ (Search!SynOfIndex)'
  BY <1>1, <1>2 DEF SynWaited, Search!SynOfIndex
<1>6. HitsWaited' /\ ListsWaited'
  BY <1>1, <1>2, HitsStay, ListsStay DEF HitsAlone, ListsAlone, Search!Changes
<1> QED
  BY <1>3, <1>4, <1>5, <1>6

LEMMA SaveSynKeeps ==
  ASSUME SearchInv, Search!SaveSyn
  PROVE  SearchInv'
<1> USE DEF SearchInv
<1> DEFINE n == Search!New("add", s3, None)
<1>1. s10' = s10 \cup {n} /\ UNCHANGED <<s1, s2, s3, s4, s5, s6, s7, s8, s9, s11>>
  BY DEF Search!SaveSyn, Search!Ask
<1>2. n \in Search!Call /\ n.what = "add"
  BY DEF Search!New, Search!Call, SearchTyped, Search!TypeOK
<1> HIDE DEF n
<1>3. SearchTyped'
  BY <1>1, <1>2 DEF SearchTyped, Search!TypeOK, ArgsFit, QueryAlone, Search!Changes
<1>4. TagsWaited' /\ (Search!TagsOfField)' /\ SynWaited' /\ (Search!SynOfIndex)'
  BY <1>1, <1>2, TagsStay, SynStay DEF TagsAlone, SynAlone
<1>5. HitsWaited' /\ ListsWaited'
  BY <1>1, <1>2, HitsStay, ListsStay DEF HitsAlone, ListsAlone, Search!Changes
<1> QED
  BY <1>3, <1>4, <1>5

LEMMA SavedKeeps ==
  ASSUME SearchInv, NEW c \in s10, Search!Saved(c)
  PROVE  SearchInv'
<1> USE DEF SearchInv
<1>1. /\ c.what = "add" /\ s5' = s5 \ {"synAdd"}
      /\ UNCHANGED <<s1, s2, s3, s4, s6, s8, s9, s11>>
  BY DEF Search!Saved
<1>2. CASE s3 # None
  <2>1. Search!LoadSyn(s10 \ {c}, s3) /\ s7' = s7
    BY <1>2 DEF Search!Saved
  <2>2. /\ s10' \subseteq Search!Call
        /\ \A e \in s10' : \/ e \in s10 \ {c} /\ e.what # "syn"
                           \/ e.what = "syn" /\ (e.fresh => e.index = s3)
        /\ \A e \in s10 \ {c} : e.what # "syn" => e \in s10'
    BY <2>1, LoadSynCalls DEF SearchTyped, Search!TypeOK
  <2>3. SearchTyped'
    BY <1>1, <2>1, <2>2 DEF SearchTyped, Search!TypeOK, ArgsFit, QueryAlone, Search!Changes
  <2>4. TagsWaited' /\ (Search!TagsOfField)'
    BY <1>1, <2>2, TagsStay DEF TagsAlone
  <2>5. SynWaited' /\ (Search!SynOfIndex)'
    BY <1>1, <2>1, <2>2 DEF SynWaited, Search!SynOfIndex
  <2>6. HitsWaited' /\ ListsWaited'
    BY <1>1, <2>2, HitsStay, ListsStay DEF HitsAlone, ListsAlone, Search!Changes
  <2> QED
    BY <2>3, <2>4, <2>5, <2>6
<1>3. CASE s3 = None
  <2>1. s10' = Search!Dropped(s10 \ {c}, {"syn"}) /\ s7' = None
    BY <1>3 DEF Search!Saved
  <2>2. /\ s10' \subseteq Search!Call
        /\ \A e \in s10' : \/ e \in s10 \ {c} /\ e.what # "syn"
                           \/ e.what = "syn" /\ ~e.fresh
        /\ \A e \in s10 \ {c} : e.what # "syn" => e \in s10'
    BY <2>1, DroppedCalls DEF SearchTyped, Search!TypeOK
  <2>3. SearchTyped'
    BY <1>1, <2>1, <2>2 DEF SearchTyped, Search!TypeOK, ArgsFit, QueryAlone, Search!Changes,
                            Search!Maybe
  <2>4. TagsWaited' /\ (Search!TagsOfField)'
    BY <1>1, <2>2, TagsStay DEF TagsAlone
  <2>5. SynWaited' /\ (Search!SynOfIndex)'
    BY <1>1, <2>1, <2>2 DEF SynWaited, Search!SynOfIndex
  <2>6. HitsWaited' /\ ListsWaited'
    BY <1>1, <2>2, HitsStay, ListsStay DEF HitsAlone, ListsAlone, Search!Changes
  <2> QED
    BY <2>3, <2>4, <2>5, <2>6
<1> QED
  BY <1>2, <1>3

LEMMA DialogsKeep ==
  ASSUME SearchInv,
         \/ Search!OpenSynAdd
         \/ \E d \in {"create", "sample"} : Search!OpenCreate(d)
         \/ \E d \in {"detail", "alter", "create", "sample", "tags", "syn", "synAdd"} :
              Search!Close(d)
  PROVE  SearchInv'
<1> USE DEF SearchInv
<1>1. CASE Search!OpenSynAdd
  <2>1. /\ s5 = {"syn"} /\ s5' = {"syn", "synAdd"}
        /\ UNCHANGED <<s1, s2, s3, s4, s6, s7, s8, s9, s10, s11>>
    BY <1>1 DEF Search!OpenSynAdd
  <2>2. SearchTyped'
    BY <2>1 DEF SearchTyped, Search!TypeOK, ArgsFit, QueryAlone
  <2>3. TagsWaited' /\ (Search!TagsOfField)' /\ SynWaited' /\ (Search!SynOfIndex)'
    BY <2>1, TagsStay, SynStay DEF TagsAlone, SynAlone
  <2>4. HitsWaited' /\ ListsWaited'
    BY <2>1, HitsStay, ListsStay DEF HitsAlone, ListsAlone
  <2> QED
    BY <2>2, <2>3, <2>4
<1>2. ASSUME NEW d \in {"create", "sample"}, Search!OpenCreate(d)
      PROVE  SearchInv'
  <2>1. /\ s5 = {} /\ s5' = {d} /\ s4' = [s4 EXCEPT !.query = FALSE] /\ s8' = Search!NoValues
        /\ UNCHANGED <<s1, s2, s3, s6, s7, s9, s10, s11>>
    BY <1>2 DEF Search!OpenCreate
  <2>2. s4' \in [query : BOOLEAN, text : Queries] /\ ~s4'.query
    BY <2>1 DEF SearchTyped, Search!TypeOK
  <2>3. SearchTyped'
    BY <2>1, <2>2 DEF SearchTyped, Search!TypeOK, ArgsFit, QueryAlone, Search!NoValues,
                      Search!Maybe
  <2>4. /\ TagsWaited' /\ (Search!TagsOfField)' /\ SynWaited' /\ (Search!SynOfIndex)'
        /\ HitsWaited'
    BY <2>1, <2>2 DEF TagsWaited, Search!TagsOfField, SynWaited, Search!SynOfIndex, HitsWaited
  <2>5. ListsWaited'
    BY <2>1, ListsStay DEF ListsAlone
  <2> QED
    BY <2>3, <2>4, <2>5
<1>3. ASSUME NEW d \in {"detail", "alter", "create", "sample", "tags", "syn", "synAdd"},
             Search!Close(d)
      PROVE  SearchInv'
  <2>1. /\ s5' = s5 \ {d} /\ s6' = (IF d = "tags" THEN Search!NoTags ELSE s6)
        /\ s7' = (IF d = "syn" THEN None ELSE s7)
        /\ s11' = [s11 EXCEPT !.steered = @ /\ s5' # {}]
        /\ UNCHANGED <<s1, s2, s3, s4, s8, s9, s10>>
    BY <1>3 DEF Search!Close
  <2>2. /\ s11' \in [steered : BOOLEAN, queries : BOOLEAN, lists : BOOLEAN]
        /\ s11'.lists = s11.lists /\ s11'.queries = s11.queries
        /\ s11'.steered <=> s11.steered /\ s5' # {}
    BY <2>1 DEF SearchTyped, Search!TypeOK
  <2>3. SearchTyped'
    BY <2>1, <2>2 DEF SearchTyped, Search!TypeOK, ArgsFit, QueryAlone, Search!NoTags,
                      Search!NoValues, Search!Maybe
  <2>4. TagsWaited' /\ (Search!TagsOfField)'
    BY <2>1, <2>2 DEF TagsWaited, Search!TagsOfField
  <2>5. SynWaited' /\ (Search!SynOfIndex)'
    BY <2>1, <2>2 DEF SynWaited, Search!SynOfIndex
  <2>6. HitsWaited' /\ ListsWaited'
    BY <2>1, <2>2, HitsStay, ListsStay DEF HitsAlone, ListsAlone
  <2> QED
    BY <2>3, <2>4, <2>5, <2>6
<1> QED
  BY <1>1, <1>2, <1>3

-----------------------------------------------------------------------------
\* A query that is sent while none is under way is the one whose hits come.
LEMMA SearchCalls ==
  ASSUME SearchTyped, NEW q \in SUBSET s10, NEW i \in Indexes, NEW t \in Queries,
         Search!Search(q, "query", i, t) \/ Search!Search(q, "again", i, t)
  PROVE  /\ s10' \subseteq Search!Call
         /\ s11' \in [steered : BOOLEAN, queries : BOOLEAN, lists : BOOLEAN]
         /\ ~s11'.steered /\ s11'.lists = s11.lists
         /\ s11'.queries = Search!Waiting({"query", "again"})
         /\ \A c \in s10' : \/ c \in q
                            \/ c.what \in {"query", "again"} /\ c.index = i /\ c.arg = t
         /\ q \subseteq s10'
         /\ \E c \in s10' : c.what \in {"query", "again"}
<1> PICK kind \in {"query", "again"} : Search!Search(q, kind, i, t)
  OBVIOUS
<1> DEFINE n == Search!New(kind, i, t)
<1>1. /\ s10' = q \cup {n}
      /\ s11' = [s11 EXCEPT !.steered = FALSE, !.queries = Search!Waiting({"query", "again"})]
  BY DEF Search!Search, Search!Ask
<1>2. n \in Search!Call /\ n.what = kind /\ n.index = i /\ n.arg = t
  BY DEF Search!New, Search!Call, Search!Maybe
<1>3. Search!Waiting({"query", "again"}) \in BOOLEAN
  BY DEF Search!Waiting
<1>4. /\ s11' \in [steered : BOOLEAN, queries : BOOLEAN, lists : BOOLEAN]
      /\ ~s11'.steered /\ s11'.lists = s11.lists
      /\ s11'.queries = Search!Waiting({"query", "again"})
  <2> DEFINE w == Search!Waiting({"query", "again"})
  <2>1. w \in BOOLEAN /\ s11' = [s11 EXCEPT !.steered = FALSE, !.queries = w]
    BY <1>1, <1>3
  <2> HIDE DEF w
  <2>2. /\ s11' \in [steered : BOOLEAN, queries : BOOLEAN, lists : BOOLEAN]
        /\ ~s11'.steered /\ s11'.lists = s11.lists /\ s11'.queries = w
    BY <2>1 DEF SearchTyped, Search!TypeOK
  <2> QED
    BY <2>2 DEF w
<1> HIDE DEF n
<1> QED
  BY <1>1, <1>2, <1>4 DEF SearchTyped, Search!TypeOK

LEMMA OpenQueryKeeps ==
  ASSUME SearchInv, NEW i \in Indexes, NEW t \in Queries, Search!OpenQuery(i, t)
  PROVE  SearchInv'
<1> USE DEF SearchInv
<1>1. /\ Search!Row(i) /\ s4' = [query |-> TRUE, text |-> t] /\ s8' = Search!NoValues
      /\ Search!Search(s10, "query", i, t) /\ UNCHANGED <<s1, s2, s5, s6, s7, s9>>
  BY DEF Search!OpenQuery
<1>2. s3' = i /\ i \in s2 /\ s5 = {}
  BY <1>1 DEF Search!Row, Search!Behind
<1>3. /\ s10' \subseteq Search!Call
      /\ s11' \in [steered : BOOLEAN, queries : BOOLEAN, lists : BOOLEAN]
      /\ s11'.lists = s11.lists /\ s11'.queries = Search!Waiting({"query", "again"})
      /\ \A c \in s10' : \/ c \in s10
                         \/ c.what \in {"query", "again"} /\ c.index = i /\ c.arg = t
      /\ s10 \subseteq s10'
      /\ \E c \in s10' : c.what \in {"query", "again"}
  BY <1>1, SearchCalls
<1>4. SearchTyped'
  BY <1>1, <1>2, <1>3 DEF SearchTyped, Search!TypeOK, ArgsFit, QueryAlone, Search!Maybe,
                          Search!NoValues, Search!Changes
<1>5. TagsWaited' /\ (Search!TagsOfField)' /\ SynWaited' /\ (Search!SynOfIndex)'
  BY <1>1, <1>2 DEF TagsWaited, Search!TagsOfField, SynWaited, Search!SynOfIndex
<1>6. HitsWaited'
  BY <1>1, <1>2, <1>3 DEF HitsWaited, Search!Waiting
<1>7. ListsWaited'
  BY <1>1, <1>3, ListsStay DEF ListsAlone, Search!Changes
<1> QED
  BY <1>4, <1>5, <1>6, <1>7

LEMMA SubmitKeeps ==
  ASSUME SearchInv, NEW t \in Queries, Search!Submit(t)
  PROVE  SearchInv'
<1> USE DEF SearchInv
<1>1. /\ s4.query /\ s5 = {} /\ s4' = [s4 EXCEPT !.text = t]
      /\ Search!Search(s10, "query", s3, t) /\ UNCHANGED <<s1, s2, s3, s5, s6, s7, s8, s9>>
  BY DEF Search!Submit
<1>2. s4' \in [query : BOOLEAN, text : Queries] /\ s4'.query /\ s4'.text = t
  BY <1>1 DEF SearchTyped, Search!TypeOK
<1>3. s3 \in s2 /\ s3 \in Indexes
  BY <1>1 DEF SearchTyped, Search!TypeOK
<1>4. /\ s10' \subseteq Search!Call
      /\ s11' \in [steered : BOOLEAN, queries : BOOLEAN, lists : BOOLEAN]
      /\ s11'.lists = s11.lists /\ s11'.queries = Search!Waiting({"query", "again"})
      /\ \A c \in s10' : \/ c \in s10
                         \/ c.what \in {"query", "again"} /\ c.index = s3 /\ c.arg = t
      /\ s10 \subseteq s10'
      /\ \E c \in s10' : c.what \in {"query", "again"}
  BY <1>1, <1>3, SearchCalls
<1>5. SearchTyped'
  BY <1>1, <1>2, <1>3, <1>4 DEF SearchTyped, Search!TypeOK, ArgsFit, QueryAlone, Search!Changes
<1>6. TagsWaited' /\ (Search!TagsOfField)' /\ SynWaited' /\ (Search!SynOfIndex)'
  BY <1>1 DEF TagsWaited, Search!TagsOfField, SynWaited, Search!SynOfIndex
<1>7. HitsWaited'
  BY <1>1, <1>2, <1>4 DEF HitsWaited, Search!Waiting
<1>8. ListsWaited'
  BY <1>1, <1>4, ListsStay DEF ListsAlone, Search!Changes
<1> QED
  BY <1>5, <1>6, <1>7, <1>8

LEMMA BackKeeps ==
  ASSUME SearchInv, Search!Back
  PROVE  SearchInv'
<1> USE DEF SearchInv
<1>1. /\ s5 = {} /\ s4' = [s4 EXCEPT !.query = FALSE] /\ s8' = Search!NoValues
      /\ UNCHANGED <<s1, s2, s3, s5, s6, s7, s9, s10, s11>>
  BY DEF Search!Back
<1>2. s4' \in [query : BOOLEAN, text : Queries] /\ ~s4'.query
  BY <1>1 DEF SearchTyped, Search!TypeOK
<1>3. SearchTyped'
  BY <1>1, <1>2 DEF SearchTyped, Search!TypeOK, ArgsFit, QueryAlone, Search!Maybe,
                    Search!NoValues
<1>4. TagsWaited' /\ (Search!TagsOfField)' /\ SynWaited' /\ (Search!SynOfIndex)' /\ HitsWaited'
  BY <1>1, <1>2 DEF TagsWaited, Search!TagsOfField, SynWaited, Search!SynOfIndex, HitsWaited
<1>5. ListsWaited'
  BY <1>1, ListsStay DEF ListsAlone
<1> QED
  BY <1>3, <1>4, <1>5

LEMMA GotHitsKeeps ==
  ASSUME SearchInv, NEW c \in s10, Search!GotHits(c)
  PROVE  SearchInv'
<1> USE DEF SearchInv
<1>1. /\ c.what \in {"query", "again"} /\ s10' = s10 \ {c}
      /\ s8' = (IF s4.query THEN <<c.index, c.arg>> ELSE s8)
      /\ s9' = (s9 /\ c.what # "again")
      /\ UNCHANGED <<s1, s2, s3, s4, s5, s6, s7, s11>>
  BY DEF Search!GotHits
<1>2. c.index \in Search!Maybe /\ c.arg \in Queries
  BY <1>1 DEF SearchTyped, Search!TypeOK, ArgsFit, Search!Call
<1>3. SearchTyped'
  BY <1>1, <1>2 DEF SearchTyped, Search!TypeOK, ArgsFit, QueryAlone
<1>4. TagsWaited' /\ (Search!TagsOfField)' /\ SynWaited' /\ (Search!SynOfIndex)'
  BY <1>1, TagsStay, SynStay DEF TagsAlone, SynAlone
<1>5. HitsWaited'
  BY <1>1, <1>2 DEF HitsWaited
<1>6. ListsWaited'
  BY <1>1, ListsStay DEF ListsAlone, Search!Changes
<1> QED
  BY <1>3, <1>4, <1>5, <1>6

-----------------------------------------------------------------------------
\* A list that is asked for while no other one is under way.
LEMMA ListCalls ==
  ASSUME SearchTyped, NEW q \in SUBSET Search!Call, NEW keep \in Search!Maybe,
         Search!List(q, keep), \A c \in q : c.what = "list" => c \in s10
  PROVE  /\ s10' \subseteq Search!Call
         /\ s11' \in [steered : BOOLEAN, queries : BOOLEAN, lists : BOOLEAN]
         /\ s11'.steered = s11.steered /\ s11'.queries = s11.queries
         /\ s9' = TRUE /\ q \subseteq s10'
         /\ \A c \in s10' : c.what # "list" => c \in q
         /\ ListsWaited'
<1> DEFINE n == Search!New("list", keep, None)
           w == Search!Waiting({"list"})
<1>1. /\ s10' = q \cup {n} /\ s9' = TRUE
      /\ s11' = [s11 EXCEPT !.lists = w]
  BY DEF Search!List, Search!Ask
<1>2. n \in Search!Call /\ n.what = "list" /\ ~n.served
  BY DEF Search!New, Search!Call
<1>3. w \in BOOLEAN /\ (w <=> \E c \in s10 : c.what = "list")
  BY DEF Search!Waiting
<1> HIDE DEF n, w
<1>4. /\ s11' \in [steered : BOOLEAN, queries : BOOLEAN, lists : BOOLEAN]
      /\ s11'.steered = s11.steered /\ s11'.lists = w /\ s11'.queries = s11.queries
  BY <1>1, <1>3 DEF SearchTyped, Search!TypeOK
<1>5. ASSUME ~s11'.lists
      PROVE  /\ n \in s10'
             /\ \A c \in s10' : c.what = "list" => c = n
  BY <1>1, <1>2, <1>3, <1>4, <1>5
<1>6. ListsWaited'
  BY <1>2, <1>5 DEF ListsWaited, Search!Waiting
<1> QED
  BY <1>1, <1>2, <1>4, <1>6

LEMMA ReloadKeeps ==
  ASSUME SearchInv, Search!Reload
  PROVE  SearchInv'
<1> USE DEF SearchInv
<1>1. /\ Search!Behind /\ Search!List(s10, s3) /\ UNCHANGED <<s1, s2, s3, s4, s5, s6, s7, s8>>
  BY DEF Search!Reload
<1>2. s10 \in SUBSET Search!Call /\ s3 \in Search!Maybe
  BY DEF SearchTyped, Search!TypeOK
<1>3. /\ s10' \subseteq Search!Call
      /\ s11' \in [steered : BOOLEAN, queries : BOOLEAN, lists : BOOLEAN]
      /\ s11'.steered = s11.steered /\ s11'.queries = s11.queries
      /\ s9' = TRUE /\ s10 \subseteq s10'
      /\ \A c \in s10' : c.what # "list" => c \in s10
      /\ ListsWaited'
  BY <1>1, <1>2, ListCalls
<1>4. SearchTyped'
  BY <1>1, <1>3 DEF SearchTyped, Search!TypeOK, ArgsFit, QueryAlone, Search!Changes
<1>5. TagsWaited' /\ (Search!TagsOfField)' /\ SynWaited' /\ (Search!SynOfIndex)'
  BY <1>1, <1>3, TagsStay, SynStay DEF TagsAlone, SynAlone
<1>6. HitsWaited'
  BY <1>1, <1>3, HitsStay DEF HitsAlone
<1> QED
  BY <1>3, <1>4, <1>5, <1>6

LEMMA ChangeKeeps ==
  ASSUME SearchInv, NEW what \in Search!Changes, NEW i \in Indexes, Search!Change(what, i)
  PROVE  SearchInv'
<1> USE DEF SearchInv
<1> DEFINE n == Search!New(what, i, None)
<1>1. s10' = s10 \cup {n} /\ UNCHANGED <<s1, s2, s3, s4, s5, s6, s7, s8, s9, s11>>
  BY DEF Search!Change, Search!Ask
<1>2. n \in Search!Call /\ n.what = what /\ n.index = i /\ ~n.served
  BY DEF Search!New, Search!Call, Search!Maybe
<1>3. what \notin {"list", "query", "again", "tags", "syn", "add"}
  BY DEF Search!Changes
<1> HIDE DEF n
<1>4. SearchTyped'
  BY <1>1, <1>2, <1>3 DEF SearchTyped, Search!TypeOK, ArgsFit, QueryAlone
<1>5. TagsWaited' /\ (Search!TagsOfField)' /\ SynWaited' /\ (Search!SynOfIndex)'
  BY <1>1, <1>2, <1>3, TagsStay, SynStay DEF TagsAlone, SynAlone
<1>6. HitsWaited'
  BY <1>1, <1>2, <1>3, HitsStay DEF HitsAlone
<1>7. ListsWaited'
  BY <1>1, <1>2, <1>3 DEF ListsWaited, Unlisted, Search!Waiting
<1> QED
  BY <1>4, <1>5, <1>6, <1>7

LEMMA ServeKeeps ==
  ASSUME SearchInv, NEW c \in s10, Search!Serve(c)
  PROVE  SearchInv'
<1> USE DEF SearchInv
<1> DEFINE got == IF c.what = "list" THEN s1 ELSE {}
           d == [c EXCEPT !.served = TRUE, !.got = got]
<1>1. /\ c.what \in Search!Changes \cup {"list"} /\ ~c.served
      /\ s10' = (s10 \ {c}) \cup {d}
      /\ UNCHANGED <<s2, s3, s4, s5, s6, s7, s8, s9, s11>>
  BY DEF Search!Serve
<1>2. /\ c.what \in {"create", "sample"} => s1' = s1 \cup {c.index}
      /\ c.what = "drop" => s1' = s1 \ {c.index}
      /\ c.what \notin {"create", "sample", "drop"} => s1' = s1
  BY DEF Search!Serve
<1>3. c \in Search!Call /\ got \in SUBSET Indexes
  BY DEF SearchTyped, Search!TypeOK
<1> HIDE DEF got
<1>4. /\ d \in Search!Call /\ d.what = c.what /\ d.index = c.index /\ d.arg = c.arg
      /\ d.served = TRUE /\ d.got = got
  BY <1>3 DEF Search!Call
<1>5. c.what = "list" => got = s1
  BY DEF got
<1> HIDE DEF d
<1>6. s1' \subseteq Indexes
  BY <1>1, <1>2 DEF SearchTyped, Search!TypeOK, ArgsFit, Search!Changes
<1>7. SearchTyped'
  BY <1>1, <1>3, <1>4, <1>6 DEF SearchTyped, Search!TypeOK, ArgsFit, QueryAlone
<1>8. c.what \notin {"query", "again", "tags", "syn"}
  BY <1>1 DEF Search!Changes
<1>9. TagsWaited' /\ (Search!TagsOfField)' /\ SynWaited' /\ (Search!SynOfIndex)'
  BY <1>1, <1>4, <1>8, TagsStay, SynStay DEF TagsAlone, SynAlone
<1>10. HitsWaited'
  BY <1>1, <1>4, <1>8, HitsStay DEF HitsAlone
<1>11. CASE c.what = "list"
  <2>1. Unlisted' <=> Unlisted
    BY <1>1, <1>4, <1>11 DEF Unlisted, Search!Changes
  <2>2. s1' = s1 /\ (Search!Waiting({"list"}))'
    BY <1>1, <1>2, <1>4, <1>11 DEF Search!Waiting
  <2> QED
    BY <1>1, <1>4, <1>5, <1>7, <1>9, <1>10, <1>11, <2>1, <2>2 DEF ListsWaited
<1>12. CASE c.what \in Search!Changes
  <2>1. Unlisted'
    BY <1>1, <1>4, <1>12 DEF Unlisted
  <2> QED
    BY <1>1, <1>4, <1>7, <1>9, <1>10, <1>12, <2>1 DEF ListsWaited, Search!Changes
<1> QED
  BY <1>1, <1>11, <1>12

LEMMA ChangedKeeps ==
  ASSUME SearchInv, NEW c \in s10, Search!Changed(c)
  PROVE  SearchInv'
<1> USE DEF SearchInv
<1> DEFINE keep == IF c.what = "create" THEN s3 ELSE c.index
<1>1. /\ c.what \in Search!Changes /\ s5' = s5 \ {c.what}
      /\ c.what \in {"create", "alter", "sample"}
      /\ Search!List(s10 \ {c}, keep) /\ UNCHANGED <<s1, s2, s3, s4, s6, s7, s8>>
  BY DEF Search!Changed, Search!Changes
<1>2. s10 \ {c} \in SUBSET Search!Call /\ keep \in Search!Maybe
  BY DEF SearchTyped, Search!TypeOK, Search!Call
<1> HIDE DEF keep
<1>3. /\ s10' \subseteq Search!Call
      /\ s11' \in [steered : BOOLEAN, queries : BOOLEAN, lists : BOOLEAN]
      /\ s11'.steered = s11.steered /\ s11'.queries = s11.queries
      /\ s9' = TRUE /\ s10 \ {c} \subseteq s10'
      /\ \A e \in s10' : e.what # "list" => e \in s10 \ {c}
      /\ ListsWaited'
  BY <1>1, <1>2, ListCalls
<1>4. SearchTyped'
  BY <1>1, <1>3 DEF SearchTyped, Search!TypeOK, ArgsFit, QueryAlone, Search!Changes
<1>5. TagsWaited' /\ (Search!TagsOfField)' /\ SynWaited' /\ (Search!SynOfIndex)'
  BY <1>1, <1>3, TagsStay, SynStay DEF TagsAlone, SynAlone
<1>6. HitsWaited'
  BY <1>1, <1>3, HitsStay DEF HitsAlone
<1> QED
  BY <1>3, <1>4, <1>5, <1>6

\* The page is left, and so are the dialogs for the index.
LEMMA LeaveFacts ==
  ASSUME SearchTyped, Search!Leave
  PROVE  /\ s3' = None /\ s4' \in [query : BOOLEAN, text : Queries] /\ ~s4'.query
         /\ s8' = Search!NoValues /\ s6' = Search!NoTags /\ s7' = None
         /\ s5' = s5 \cap {"create", "sample"}
BY DEF SearchTyped, Search!TypeOK, Search!Leave, Search!LeavePage

LEMMA ErasedKeeps ==
  ASSUME SearchInv, NEW c \in s10, Search!Erased(c)
  PROVE  SearchInv'
<1> USE DEF SearchInv
<1>1. c.what = "drop" /\ c.served /\ UNCHANGED <<s1, s2>>
  BY DEF Search!Erased
<1>2. CASE s3 = c.index
  <2> DEFINE q == Search!Dropped(s10 \ {c}, {"tags", "syn"})
  <2>1. Search!Leave /\ Search!List(q, None)
    BY <1>2 DEF Search!Erased
  <2>2. /\ q \in SUBSET Search!Call
        /\ \A e \in q : \/ e \in s10 \ {c} /\ e.what \notin {"tags", "syn"}
                        \/ /\ e.what \in {"tags", "syn"} /\ ~e.fresh
                           /\ e.what = "tags" => e.arg \in Fields
        /\ \A e \in s10 \ {c} : e.what \notin {"tags", "syn"} => e \in q
    <3>1. s10 \ {c} \in SUBSET Search!Call
      BY DEF SearchTyped, Search!TypeOK
    <3> QED
      BY <3>1, DroppedCalls DEF SearchTyped, ArgsFit
  <2>3. None \in Search!Maybe
    BY DEF Search!Maybe
  <2> HIDE DEF q
  <2>4. /\ s10' \subseteq Search!Call
        /\ s11' \in [steered : BOOLEAN, queries : BOOLEAN, lists : BOOLEAN]
        /\ s11'.steered = s11.steered /\ s11'.queries = s11.queries
        /\ s9' = TRUE /\ q \subseteq s10'
        /\ \A e \in s10' : e.what # "list" => e \in q
        /\ ListsWaited'
    BY <2>1, <2>2, <2>3, ListCalls
  <2>5. /\ s3' = None /\ s4' \in [query : BOOLEAN, text : Queries] /\ ~s4'.query
        /\ s8' = Search!NoValues /\ s6' = Search!NoTags /\ s7' = None
        /\ s5' = s5 \cap {"create", "sample"}
    BY <2>1, LeaveFacts
  <2>6. SearchTyped'
    BY <1>1, <2>2, <2>4, <2>5 DEF SearchTyped, Search!TypeOK, ArgsFit, QueryAlone,
          Search!Maybe, Search!NoValues, Search!NoTags, Search!Changes
  <2>7. /\ TagsWaited' /\ (Search!TagsOfField)' /\ SynWaited' /\ (Search!SynOfIndex)'
        /\ HitsWaited'
    BY <2>5 DEF TagsWaited, Search!TagsOfField, SynWaited, Search!SynOfIndex, HitsWaited
  <2> QED
    BY <2>4, <2>6, <2>7
<1>3. CASE s3 # c.index
  <2>1. Search!List(s10 \ {c}, s3) /\ UNCHANGED <<s3, s4, s5, s6, s7, s8>>
    BY <1>3 DEF Search!Erased
  <2>2. s10 \ {c} \in SUBSET Search!Call /\ s3 \in Search!Maybe
    BY DEF SearchTyped, Search!TypeOK
  <2>3. /\ s10' \subseteq Search!Call
        /\ s11' \in [steered : BOOLEAN, queries : BOOLEAN, lists : BOOLEAN]
        /\ s11'.steered = s11.steered /\ s11'.queries = s11.queries
        /\ s9' = TRUE /\ s10 \ {c} \subseteq s10'
        /\ \A e \in s10' : e.what # "list" => e \in s10 \ {c}
        /\ ListsWaited'
    BY <2>1, <2>2, ListCalls
  <2>4. SearchTyped'
    BY <1>1, <2>1, <2>3 DEF SearchTyped, Search!TypeOK, ArgsFit, QueryAlone, Search!Changes
  <2>5. TagsWaited' /\ (Search!TagsOfField)' /\ SynWaited' /\ (Search!SynOfIndex)'
    BY <2>1, <2>3, TagsStay, SynStay DEF TagsAlone, SynAlone
  <2>6. HitsWaited'
    BY <1>1, <2>1, <2>3, HitsStay DEF HitsAlone
  <2> QED
    BY <2>3, <2>4, <2>5, <2>6
<1> QED
  BY <1>2, <1>3

\* The list has come, and a list that is waited for alone is that of the server.
LEMMA ListedLists ==
  ASSUME SearchTyped, ListsWaited, NEW c \in s10, c.what = "list", c.served, s2' = c.got,
         UNCHANGED s1, s11'.lists = s11.lists,
         \A e \in s10' : e.what \in Search!Changes \cup {"list"} => e \in s10 \ {c},
         \A e \in s10 \ {c} : e.what \in Search!Changes \cup {"list"} => e \in s10'
  PROVE  ListsWaited'
<1> SUFFICES ASSUME ~s11'.lists
             PROVE  /\ ~Unlisted' => s2' = s1'
                    /\ \A e \in s10' : e.what # "list"
  BY DEF ListsWaited
<1>1. Unlisted' <=> Unlisted
  BY DEF Unlisted, Search!Changes
<1>2. \A e \in s10' : e.what # "list"
  BY DEF ListsWaited
<1> QED
  BY <1>1, <1>2 DEF ListsWaited

LEMMA ListedKeeps ==
  ASSUME SearchInv, NEW c \in s10, Search!Listed(c)
  PROVE  SearchInv'
<1> USE DEF SearchInv
<1>1. c.what = "list" /\ c.served /\ s2' = c.got /\ UNCHANGED s1
  BY DEF Search!Listed
<1>2. c \in Search!Call /\ c.got \subseteq Indexes
  BY DEF SearchTyped, Search!TypeOK, Search!Call
<1>3. CASE c.index \in s2' /\ s4.query
  <2>1. /\ s3' = c.index /\ UNCHANGED <<s4, s5, s6, s7, s8, s9>>
        /\ Search!Search(s10 \ {c}, "again", c.index, s4.text)
    BY <1>3 DEF Search!Listed
  <2>2. c.index \in Indexes /\ s4.text \in Queries /\ s5 = {}
    BY <1>1, <1>2, <1>3 DEF SearchTyped, Search!TypeOK, QueryAlone
  <2>3. /\ s10' \subseteq Search!Call
        /\ s11' \in [steered : BOOLEAN, queries : BOOLEAN, lists : BOOLEAN]
        /\ s11'.lists = s11.lists /\ s11'.queries = Search!Waiting({"query", "again"})
        /\ \A e \in s10' : \/ e \in s10 \ {c}
                           \/ /\ e.what \in {"query", "again"}
                              /\ e.index = c.index /\ e.arg = s4.text
        /\ s10 \ {c} \subseteq s10'
        /\ \E e \in s10' : e.what \in {"query", "again"}
    <3> DEFINE q == s10 \ {c}
               i == c.index
               t == s4.text
    <3>1. /\ q \in SUBSET s10 /\ i \in Indexes /\ t \in Queries
          /\ Search!Search(q, "again", i, t)
      BY <2>1, <2>2
    <3> HIDE DEF q, i, t
    <3>2. /\ s10' \subseteq Search!Call
          /\ s11' \in [steered : BOOLEAN, queries : BOOLEAN, lists : BOOLEAN]
          /\ s11'.lists = s11.lists /\ s11'.queries = Search!Waiting({"query", "again"})
          /\ \A e \in s10' : \/ e \in q
                             \/ e.what \in {"query", "again"} /\ e.index = i /\ e.arg = t
          /\ q \subseteq s10'
          /\ \E e \in s10' : e.what \in {"query", "again"}
      BY <3>1, SearchCalls, ZenonT(30)
    <3> QED
      BY <3>2 DEF q, i, t
  <2>4. SearchTyped'
    BY <1>1, <1>2, <1>3, <2>1, <2>2, <2>3 DEF SearchTyped, Search!TypeOK, ArgsFit, QueryAlone,
       Search!Changes, Search!Maybe
  <2>5. TagsWaited' /\ (Search!TagsOfField)' /\ SynWaited' /\ (Search!SynOfIndex)'
    BY <2>1, <2>2 DEF TagsWaited, Search!TagsOfField, SynWaited, Search!SynOfIndex
  <2>6. HitsWaited'
    BY <2>1, <2>3 DEF HitsWaited, Search!Waiting
  <2>7. ListsWaited'
    BY <1>1, <2>3, ListedLists DEF Search!Changes
  <2> QED
    BY <2>4, <2>5, <2>6, <2>7
<1>4. CASE c.index \in s2' /\ ~s4.query
  <2> DEFINE w == s5 # {} /\ (s11.steered \/ c.index # s3)
  <2>1. /\ s3' = c.index /\ UNCHANGED <<s4, s5, s6, s7, s8>> /\ s10' = s10 \ {c}
        /\ s9' = FALSE /\ s11' = [s11 EXCEPT !.steered = w]
    BY <1>4 DEF Search!Listed
  <2>2. w \in BOOLEAN /\ (~w => s5 = {} \/ (~s11.steered /\ s3' = s3))
    BY <2>1 DEF SearchTyped, Search!TypeOK
  <2> HIDE DEF w
  <2>3. /\ s11' \in [steered : BOOLEAN, queries : BOOLEAN, lists : BOOLEAN]
        /\ s11'.lists = s11.lists /\ s11'.queries = s11.queries /\ s11'.steered = w
    BY <2>1, <2>2 DEF SearchTyped, Search!TypeOK
  <2>4. SearchTyped'
    BY <1>1, <1>2, <1>4, <2>1, <2>3 DEF SearchTyped, Search!TypeOK, ArgsFit, QueryAlone,
       Search!Maybe
  <2>5. TagsWaited' /\ (Search!TagsOfField)'
    BY <2>1, <2>2, <2>3 DEF TagsWaited, Search!TagsOfField
  <2>6. SynWaited' /\ (Search!SynOfIndex)'
    BY <2>1, <2>2, <2>3 DEF SynWaited, Search!SynOfIndex
  <2>7. HitsWaited'
    BY <1>4, <2>1 DEF HitsWaited
  <2>8. ListsWaited'
    BY <1>1, <2>1, <2>3, ListedLists
  <2> QED
    BY <2>4, <2>5, <2>6, <2>7, <2>8
<1>5. CASE c.index \notin s2'
  <2>1. /\ Search!Leave /\ s10' = Search!Dropped(s10 \ {c}, {"tags", "syn"}) /\ s9' = FALSE
        /\ s11' = [s11 EXCEPT !.steered = FALSE]
    BY <1>5 DEF Search!Listed
  <2>2. s10 \ {c} \in SUBSET Search!Call
    BY DEF SearchTyped, Search!TypeOK
  <2>3. /\ s10' \in SUBSET Search!Call
        /\ \A e \in s10' : \/ e \in s10 \ {c} /\ e.what \notin {"tags", "syn"}
                           \/ /\ e.what \in {"tags", "syn"} /\ ~e.fresh
                              /\ e.what = "tags" => e.arg \in Fields
        /\ \A e \in s10 \ {c} : e.what \notin {"tags", "syn"} => e \in s10'
    BY <2>1, <2>2, DroppedCalls DEF SearchTyped, ArgsFit
  <2>4. /\ s3' = None /\ s4' \in [query : BOOLEAN, text : Queries] /\ ~s4'.query
        /\ s8' = Search!NoValues /\ s6' = Search!NoTags /\ s7' = None
        /\ s5' = s5 \cap {"create", "sample"}
    BY <2>1, LeaveFacts
  <2>5. /\ s11' \in [steered : BOOLEAN, queries : BOOLEAN, lists : BOOLEAN]
        /\ s11'.lists = s11.lists
    BY <2>1 DEF SearchTyped, Search!TypeOK
  <2>6. SearchTyped'
    BY <1>1, <1>2, <2>1, <2>3, <2>4, <2>5 DEF SearchTyped, Search!TypeOK, ArgsFit, QueryAlone,
       Search!Maybe, Search!NoValues, Search!NoTags, Search!Changes
  <2>7. /\ TagsWaited' /\ (Search!TagsOfField)' /\ SynWaited' /\ (Search!SynOfIndex)'
        /\ HitsWaited'
    BY <2>4 DEF TagsWaited, Search!TagsOfField, SynWaited, Search!SynOfIndex, HitsWaited
  <2>8. ListsWaited'
    BY <1>1, <2>3, <2>5, ListedLists DEF Search!Changes
  <2> QED
    BY <2>6, <2>7, <2>8
<1> QED
  BY <1>3, <1>4, <1>5

-----------------------------------------------------------------------------
LEMMA AnswersKeep ==
  ASSUME SearchInv, NEW c \in s10, Search!GotTags(c) \/ Search!GotSyn(c)
  PROVE  SearchInv'
<1> USE DEF SearchInv
<1>1. c \in Search!Call
  BY DEF SearchTyped, Search!TypeOK
<1>2. CASE Search!GotTags(c)
  <2>1. /\ c.what = "tags" /\ s10' = s10 \ {c}
        /\ s6' = (IF "tags" \in s5 /\ c.fresh THEN [s6 EXCEPT !.of = <<c.index, c.arg>>]
                  ELSE s6)
        /\ UNCHANGED <<s1, s2, s3, s4, s5, s7, s8, s9, s11>>
    BY <1>2 DEF Search!GotTags, Search!Fresh
  <2>2. c.index \in Search!Maybe /\ c.arg \in Fields
    BY <1>1, <2>1 DEF SearchTyped, ArgsFit, Search!Call
  <2>3. /\ s6' \in [field : Fields \cup {None}, of : Search!Maybe \X (Fields \cup {None})]
        /\ s6'.field = s6.field
        /\ \/ s6'.of = s6.of
           \/ "tags" \in s5 /\ c.fresh /\ s6'.of = <<c.index, c.arg>>
    BY <2>1, <2>2 DEF SearchTyped, Search!TypeOK
  <2>4. SearchTyped'
    BY <2>1, <2>3 DEF SearchTyped, Search!TypeOK, ArgsFit, QueryAlone
  <2>5. TagsWaited' /\ (Search!TagsOfField)'
    BY <2>1, <2>3 DEF TagsWaited, Search!TagsOfField
  <2>6. SynWaited' /\ (Search!SynOfIndex)'
    BY <2>1, SynStay DEF SynAlone
  <2>7. HitsWaited' /\ ListsWaited'
    BY <2>1, HitsStay, ListsStay DEF HitsAlone, ListsAlone, Search!Changes
  <2> QED
    BY <2>4, <2>5, <2>6, <2>7
<1>3. CASE Search!GotSyn(c)
  <2>1. /\ c.what = "syn" /\ s10' = s10 \ {c}
        /\ s7' = (IF "syn" \in s5 /\ c.fresh THEN c.index ELSE s7)
        /\ UNCHANGED <<s1, s2, s3, s4, s5, s6, s8, s9, s11>>
    BY <1>3 DEF Search!GotSyn, Search!Fresh
  <2>2. c.index \in Search!Maybe
    BY <1>1 DEF Search!Call
  <2>3. SearchTyped'
    BY <2>1, <2>2 DEF SearchTyped, Search!TypeOK, ArgsFit, QueryAlone
  <2>4. TagsWaited' /\ (Search!TagsOfField)'
    BY <2>1, TagsStay DEF TagsAlone
  <2>5. SynWaited' /\ (Search!SynOfIndex)'
    BY <2>1 DEF SynWaited, Search!SynOfIndex
  <2>6. HitsWaited' /\ ListsWaited'
    BY <2>1, HitsStay, ListsStay DEF HitsAlone, ListsAlone, Search!Changes
  <2> QED
    BY <2>3, <2>4, <2>5, <2>6
<1> QED
  BY <1>2, <1>3

LEMMA FailsKeeps ==
  ASSUME SearchInv, NEW c \in s10, Search!Fails(c)
  PROVE  SearchInv'
<1> USE DEF SearchInv
<1> DEFINE u == s11.queries \/ (s4.query /\ c.what \in {"query", "again"})
           w == s11.lists \/ c.what \in Search!Changes \cup {"list"}
<1>1. /\ s10' = s10 \ {c} /\ s9' = (s9 /\ c.what \notin {"list", "again"})
      /\ s11' = [s11 EXCEPT !.queries = u, !.lists = w]
      /\ UNCHANGED <<s1, s2, s3, s4, s5, s6, s7, s8>>
  BY DEF Search!Fails
<1>2. u \in BOOLEAN /\ w \in BOOLEAN
  BY DEF SearchTyped, Search!TypeOK
<1>3. /\ ~u => ~s11.queries /\ (s4.query => c.what \notin {"query", "again"})
      /\ ~w => ~s11.lists /\ c.what \notin Search!Changes \cup {"list"}
  OBVIOUS
<1> HIDE DEF u, w
<1>4. /\ s11' \in [steered : BOOLEAN, queries : BOOLEAN, lists : BOOLEAN]
      /\ s11'.steered = s11.steered /\ s11'.queries = u /\ s11'.lists = w
  BY <1>1, <1>2 DEF SearchTyped, Search!TypeOK
<1>5. SearchTyped'
  BY <1>1, <1>4 DEF SearchTyped, Search!TypeOK, ArgsFit, QueryAlone
<1>6. TagsWaited' /\ (Search!TagsOfField)' /\ SynWaited' /\ (Search!SynOfIndex)'
  BY <1>1, <1>4, TagsStay, SynStay DEF TagsAlone, SynAlone
<1>7. HitsWaited'
  BY <1>1, <1>3, <1>4 DEF HitsWaited, Search!Waiting
<1>8. ListsWaited'
  BY <1>1, <1>3, <1>4 DEF ListsWaited, Unlisted, Search!Waiting
<1> QED
  BY <1>5, <1>6, <1>7, <1>8

-----------------------------------------------------------------------------
LEMMA SearchInit == Init => (part = "search" => SearchInv)
<1> SUFFICES ASSUME Search!Init PROVE SearchInv
  BY DEF Init
<1> QED
  BY DEF Search!Init, SearchInv, SearchTyped, Search!TypeOK, ArgsFit, QueryAlone, TagsWaited,
         Search!TagsOfField, SynWaited, Search!SynOfIndex, HitsWaited, ListsWaited,
         Search!Maybe, Search!NoTags, Search!NoValues

LEMMA SearchStep ==
  ASSUME part = "search" => SearchInv, [Next]_vars
  PROVE  (part = "search" => SearchInv)'
<1> SUFFICES ASSUME part = "search", SearchInv PROVE SearchInv'
  BY DEF Next, vars
<1>1. CASE Search!Next
  <2>1. ASSUME NEW c \in s10, Search!Answer(c) PROVE SearchInv'
    BY <2>1, ListedKeeps, ServeKeeps, ChangedKeeps, ErasedKeeps, SavedKeeps, AnswersKeep,
       GotHitsKeeps, FailsKeeps DEF Search!Answer
  <2>2. CASE Search!Reload \/ Search!SynAgain \/ Search!SaveSyn \/ Search!OpenTagField
             \/ Search!OpenSynAdd \/ Search!Back
    BY <2>2, ReloadKeeps, SynAgainKeeps, SaveSynKeeps, OpenTagFieldKeeps, DialogsKeep, BackKeeps
  <2>3. ASSUME NEW f \in Fields, Search!TagField(f) PROVE SearchInv'
    BY <2>3, TagFieldKeeps
  <2>4. ASSUME NEW i \in Indexes,
               \/ Search!OpenTags(i) \/ Search!OpenSyn(i)
               \/ \E d \in {"detail", "alter"} : Search!OpenIndex(i, d)
               \/ \E w \in Search!Changes : Search!Change(w, i)
               \/ \E t \in Queries : Search!OpenQuery(i, t)
        PROVE  SearchInv'
    BY <2>4, OpenTagsKeeps, OpenSynKeeps, OpenIndexKeeps, ChangeKeeps, OpenQueryKeeps
  <2>5. ASSUME NEW t \in Queries, Search!Submit(t) PROVE SearchInv'
    BY <2>5, SubmitKeeps
  <2> QED
    BY <1>1, <2>1, <2>2, <2>3, <2>4, <2>5, DialogsKeep DEF Search!Next
<1>2. CASE UNCHANGED vars
  BY <1>2 DEF vars, SearchInv, SearchTyped, Search!TypeOK, ArgsFit, QueryAlone, TagsWaited,
         Search!TagsOfField, SynWaited, Search!SynOfIndex, HitsWaited, ListsWaited,
         Unlisted, Search!Waiting
<1> QED
  BY <1>1, <1>2 DEF Next

\* Tag values, synonyms, hits and the list are those of what the page names, for any indexes,
\* fields and queries and any number of calls under way: loadTagVals, loadSynDump, runSearch
\* and loadIndexes.
THEOREM SearchIsItsOwn == Spec => []SearchShowsItsOwn
<1>1. SearchInv => Search!HitsOfQuery /\ Search!RowsFollow
  BY DEF SearchInv, HitsWaited, ListsWaited, Search!HitsOfQuery, Search!RowsFollow, Unlisted,
         Search!Waiting
<1>2. (part = "search" => SearchInv) => SearchShowsItsOwn
  BY <1>1 DEF SearchShowsItsOwn, SearchInv
<1>3. Spec => Init /\ [][Next]_vars
  BY DEF Spec
<1> QED
  BY <1>2, <1>3, SearchInit, SearchStep, PTL

-----------------------------------------------------------------------------
(* ConnSync: made, win, store, calls, answers, connections, inbox and calm are s1 to s8.  The
   list that is stored is on its way to whatever does not have it yet, and while a window
   opens there is no other. *)

SyncBounds == MaxEdits \in Nat /\ First \in Windows

\* What is under way to the back end and from it.
SyncFlight == Items(s4) \cup Items(s5)

SyncWin == [at : {"closed", "reading", "open"}, list : Nat, hears : BOOLEAN]
SyncTyped ==
  /\ s1 \in Sync!Lists /\ s3 \in Nat /\ s6 \in Nat /\ s2 \in [Windows -> SyncWin]
  /\ s4 \in Seq(Sync!Call) /\ s5 \in Seq(Sync!Call) /\ s7 \in [Windows -> Seq(Sync!Lists)]
  /\ s8 \in [edits : BOOLEAN, windows : BOOLEAN]
  /\ \A w \in Windows : /\ s2[w].hears => s2[w].at = "open"
                        /\ s7[w] # <<>> => s2[w].hears

\* No list is newer than the last edit.
NoneNewer ==
  /\ s3 <= s1 /\ s6 <= s1 /\ \A c \in SyncFlight : c.list <= s1
  /\ \A w \in Windows : s2[w].list <= s1 /\ \A l \in Items(s7[w]) : l <= s1

\* The back end has or will have the list that is stored, and every window that listens has
\* it or will have it: nobody is gone who is to pass it on.
StoreIsLast == s3 = IF s4 = <<>> THEN s6 ELSE s4[Len(s4)].list
SendersOpen == s8.windows => \A c \in SyncFlight : Sync!Open(c.by)
OnItsWay == s8.windows => \A w \in Sync!Hearers :
  s3 = s2[w].list \/ s3 \in Items(s7[w]) \/ \E c \in SyncFlight : c.list = s3

\* While a window opens there is one list everywhere.
OneWhileOpening == s8.windows /\ Sync!Opening =>
  /\ s6 = s3 /\ \A c \in SyncFlight : c.list = s3
  /\ \A w \in Windows : s2[w].at # "closed" =>
       s2[w].list = s3 /\ \A l \in Items(s7[w]) : l = s3

\* What is under way is the last edit.
LastEditOnly == s8.edits /\ s8.windows =>
  /\ s3 = s1 /\ \A c \in SyncFlight : c.list = s1
  /\ \A w \in Windows : \A l \in Items(s7[w]) : l = s1

SyncInv == /\ SyncTyped /\ NoneNewer /\ StoreIsLast
           /\ SendersOpen /\ OnItsWay /\ OneWhileOpening /\ LastEditOnly
-----------------------------------------------------------------------------

\* A list that is watched is the stored one, and the last one that was sent.
LEMMA WatchedLast ==
  ASSUME SyncTyped, NEW w \in Windows, NEW l \in Sync!Lists, Sync!Watched(w, l)
  PROVE  /\ s3' = l /\ s4' \in Seq(Sync!Call) /\ StoreIsLast'
         /\ \E c \in Sync!Call : c.by = w /\ c.list = l /\ Items(s4') = Items(s4) \cup {c}
<1>0. PICK c : c = [by |-> w, list |-> l]
  OBVIOUS
<1>1. c \in Sync!Call /\ c.by = w /\ c.list = l /\ s4 \in Seq(Sync!Call)
      /\ s3' = l /\ s4' = Append(s4, c)
  BY <1>0 DEF Sync!Watched, Sync!Call, SyncTyped
<1>2. /\ s4' \in Seq(Sync!Call) /\ Items(s4') = Items(s4) \cup {c}
      /\ s4' # <<>> /\ s4'[Len(s4')] = c
  BY <1>1, ItemAdded
<1>3. StoreIsLast'
  BY <1>1, <1>2 DEF StoreIsLast
<1> QED
  BY <1>1, <1>2, <1>3

\* What is under way are calls and lists.
LEMMA FlightTyped ==
  ASSUME SyncBounds, SyncTyped
  PROVE  /\ s1 \in Nat /\ \A c \in SyncFlight : c \in Sync!Call /\ c.list \in Nat
         /\ \A w \in Windows : \A l \in Items(s7[w]) : l \in Nat
<1>1. Sync!Lists \subseteq Nat
  BY DEF SyncBounds, Sync!Lists
<1>2. SyncFlight \subseteq Sync!Call
  BY ItemsTyped DEF SyncTyped, SyncFlight
<1>3. \A w \in Windows : Items(s7[w]) \subseteq Sync!Lists
  BY ItemsTyped DEF SyncTyped
<1> QED
  BY <1>1, <1>2, <1>3 DEF Sync!Call, SyncTyped

\* At rest every window has the list that is stored.
LEMMA AtRest ==
  ASSUME SyncBounds, SyncInv, Sync!Quiet, s8.windows
  PROVE  /\ s6 = s3 /\ SyncFlight = {} /\ \A w \in Windows : Items(s7[w]) = {}
         /\ \A w \in Windows : Sync!Open(w) => s2[w].list = s3
<1>1. s4 = <<>> /\ SyncFlight = {} /\ \A w \in Windows : Items(s7[w]) = {}
  BY EmptyItems DEF Sync!Quiet, SyncFlight
<1>2. s6 = s3
  BY <1>1 DEF SyncInv, StoreIsLast
<1>3. \A w \in Windows : Sync!Open(w) => s2[w].list = s3
  BY <1>1 DEF SyncInv, OnItsWay, Sync!Hearers, Sync!Quiet, Sync!Opening, Sync!Open
<1> QED
  BY <1>1, <1>2, <1>3

LEMMA SyncEdit == ASSUME SyncBounds, SyncInv, NEW w \in Windows, Sync!Edit(w) PROVE SyncInv'
<1>1. /\ Sync!Open(w) /\ s1 < MaxEdits /\ s1' = s1 + 1 /\ Sync!Watched(w, s1')
      /\ s2' = [s2 EXCEPT ![w].list = s1']
      /\ s8' = [edits |-> s8.edits /\ Sync!Quiet, windows |-> s8.windows /\ ~Sync!Opening]
      /\ UNCHANGED <<s5, s6, s7>> /\ SyncTyped /\ NoneNewer
  BY DEF Sync!Edit, SyncInv
<1>2. s1' \in Sync!Lists /\ s1 \in Nat /\ s1' \in Nat
  BY <1>1 DEF SyncTyped, SyncBounds, Sync!Lists
<1>3. PICK c \in Sync!Call : /\ c.by = w /\ c.list = s1'
                       /\ s3' = s1' /\ s4' \in Seq(Sync!Call) /\ StoreIsLast'
                       /\ Items(s4') = Items(s4) \cup {c}
  BY <1>1, <1>2, WatchedLast
<1>4. SyncFlight' = SyncFlight \cup {c}
  BY <1>1, <1>3 DEF SyncFlight
<1>5. /\ s2' \in [Windows -> SyncWin] /\ s2'[w].list = s1'
      /\ \A v \in Windows : /\ v # w => s2'[v] = s2[v]
                            /\ s2'[v].at = s2[v].at /\ s2'[v].hears = s2[v].hears
  BY <1>1, <1>2 DEF SyncTyped, SyncWin
<1>6. /\ s8' \in [edits : BOOLEAN, windows : BOOLEAN] /\ s8'.edits = (s8.edits /\ Sync!Quiet)
      /\ s8'.windows = (s8.windows /\ ~Sync!Opening)
  BY <1>1 DEF SyncTyped, Sync!Quiet, Sync!Opening
<1>7. SyncTyped'
  BY <1>1, <1>2, <1>3, <1>5, <1>6 DEF SyncTyped
<1>8. NoneNewer'
  <2>1. \A d \in SyncFlight : d.list <= s1'
    BY <1>1, <1>2, FlightTyped DEF NoneNewer
  <2>2. \A v \in Windows : s2'[v].list <= s1'
    BY <1>1, <1>2, <1>5 DEF NoneNewer, SyncTyped, SyncWin
  <2>3. \A v \in Windows : \A l \in Items(s7[v]) : l <= s1'
    <3>1. \A v \in Windows : \A l \in Items(s7[v]) : l <= s1 /\ l \in Nat
      BY <1>1, FlightTyped DEF NoneNewer
    <3> QED
      BY <1>1, <1>2, <3>1
  <2>4. s6' <= s1' /\ s3' <= s1'
    BY <1>1, <1>2, <1>3 DEF NoneNewer, SyncTyped
  <2> QED
    BY <1>1, <1>2, <1>3, <1>4, <2>1, <2>2, <2>3, <2>4 DEF NoneNewer
<1>9. SendersOpen' /\ OnItsWay'
  <2>1. s8'.windows => s8.windows
    BY <1>6
  <2>2. \A d \in Sync!Call : Sync!Open(d.by) => Sync!Open(d.by)'
    BY <1>5 DEF Sync!Open, Sync!Call
  <2>3. \A d \in SyncFlight : s8.windows => d \in Sync!Call /\ Sync!Open(d.by)
    BY <1>1, FlightTyped DEF SyncInv, SendersOpen
  <2>4. SendersOpen'
    BY <1>1, <1>3, <1>4, <2>1, <2>2, <2>3 DEF SendersOpen
  <2>5. OnItsWay'
    BY <1>3, <1>4 DEF OnItsWay
  <2> QED
    BY <2>4, <2>5
<1>10. OneWhileOpening'
  BY <1>5, <1>6 DEF OneWhileOpening, Sync!Opening
<1>11. LastEditOnly'
  <2> SUFFICES ASSUME s8'.edits, s8'.windows
               PROVE  /\ s3' = s1' /\ \A d \in SyncFlight' : d.list = s1'
                      /\ \A v \in Windows : \A l \in Items(s7'[v]) : l = s1'
    BY DEF LastEditOnly
  <2>1. SyncFlight = {} /\ \A v \in Windows : Items(s7[v]) = {}
    BY <1>6, AtRest
  <2> QED
    BY <1>1, <1>3, <1>4, <2>1
<1> QED
  BY <1>3, <1>7, <1>8, <1>9, <1>10, <1>11 DEF SyncInv

LEMMA SyncRun == ASSUME SyncBounds, SyncInv, Sync!Run PROVE SyncInv'
<1>1. /\ s4 # <<>> /\ s6' = Head(s4).list
      /\ s4' = Tail(s4) /\ s5' = Append(s5, Head(s4))
      /\ UNCHANGED <<s1, s2, s3, s7, s8>> /\ SyncTyped
  BY DEF Sync!Run, SyncInv
<1>2. PICK c : c = Head(s4)
  OBVIOUS
<1>3. /\ c \in Sync!Call /\ s4' \in Seq(Sync!Call) /\ Items(s4) = Items(s4') \cup {c}
      /\ IF s4' = <<>> THEN s4[Len(s4)] = c ELSE s4[Len(s4)] = s4'[Len(s4')]
  BY <1>1, <1>2, HeadTaken DEF SyncTyped
<1>4. s5' \in Seq(Sync!Call) /\ Items(s5') = Items(s5) \cup {c}
  BY <1>1, <1>2, <1>3, ItemAdded DEF SyncTyped
<1>5. SyncFlight' = SyncFlight /\ c \in SyncFlight /\ s6' = c.list
  BY <1>1, <1>2, <1>3, <1>4 DEF SyncFlight
<1>6. SyncTyped'
  <2>1. s6' \in Nat
    BY <1>1, <1>5, FlightTyped
  <2> QED
    BY <1>1, <1>3, <1>4, <2>1 DEF SyncTyped
<1>7. StoreIsLast'
  BY <1>1, <1>3, <1>5 DEF SyncInv, StoreIsLast
<1>8. NoneNewer' /\ SendersOpen' /\ OnItsWay' /\ OneWhileOpening' /\ LastEditOnly'
  BY <1>1, <1>5 DEF SyncInv, NoneNewer, SendersOpen, OnItsWay, OneWhileOpening, LastEditOnly,
                    Sync!Open, Sync!Opening, Sync!Hearers
<1> QED
  BY <1>6, <1>7, <1>8 DEF SyncInv

LEMMA SyncEmit == ASSUME SyncBounds, SyncInv, NEW i \in DOMAIN s5, Sync!Emit(i) PROVE SyncInv'
<1>1. PICK c : c = s5[i]
  OBVIOUS
<1>2. /\ s5' = Sync!RemoveAt(s5, i)
      /\ s7' = [v \in Windows |-> IF Sync!Open(c.by) /\ v \in Sync!Hearers
                                     THEN Append(s7[v], c.list) ELSE s7[v]]
      /\ UNCHANGED <<s1, s2, s3, s4, s6, s8>> /\ SyncTyped
  BY <1>1 DEF Sync!Emit, SyncInv
<1>3. c \in Sync!Call /\ s5' \in Seq(Sync!Call) /\ Items(s5) = Items(s5') \cup {c}
  <2>1. s5' = Without(s5, i) /\ s5 \in Seq(Sync!Call)
    BY <1>2 DEF Without, Sync!RemoveAt, SyncTyped
  <2> QED
    BY <1>1, <2>1, ItemRemoved
<1>4. SyncFlight = SyncFlight' \cup {c} /\ c.list \in Sync!Lists
  BY <1>2, <1>3 DEF SyncFlight, Sync!Call
<1>5. ASSUME NEW v \in Windows
      PROVE  /\ s7'[v] \in Seq(Sync!Lists) /\ (s7'[v] # <<>> => s2[v].hears)
             /\ Items(s7'[v]) = IF Sync!Open(c.by) /\ v \in Sync!Hearers
                                   THEN Items(s7[v]) \cup {c.list} ELSE Items(s7[v])
  <2>1. s7[v] \in Seq(Sync!Lists) /\ (s7[v] # <<>> => s2[v].hears)
    BY <1>2 DEF SyncTyped
  <2>2. CASE Sync!Open(c.by) /\ v \in Sync!Hearers
    <3>1. s7'[v] = Append(s7[v], c.list) /\ s2[v].hears
      BY <1>2, <2>2 DEF Sync!Hearers
    <3> QED
      BY <1>4, <2>1, <2>2, <3>1, ItemAdded
  <2>3. CASE ~(Sync!Open(c.by) /\ v \in Sync!Hearers)
    BY <1>2, <2>1, <2>3
  <2> QED
    BY <2>2, <2>3
<1>6. SyncTyped'
  <2>1. s7' \in [Windows -> Seq(Sync!Lists)]
    BY <1>2, <1>5
  <2> QED
    BY <1>2, <1>3, <1>5, <2>1 DEF SyncTyped
<1>7. NoneNewer' /\ StoreIsLast' /\ SendersOpen' /\ OneWhileOpening' /\ LastEditOnly'
  <2>1. \A d \in SyncFlight' : d \in SyncFlight
    BY <1>4
  <2>2. \A v \in Windows : \A l \in Items(s7'[v]) : l \in Items(s7[v]) \/ l = c.list
    BY <1>5
  <2>3. c \in SyncFlight
    BY <1>4
  <2>4. NoneNewer'
    BY <1>2, <2>1, <2>2, <2>3 DEF SyncInv, NoneNewer
  <2>5. StoreIsLast' /\ SendersOpen'
    BY <1>2, <2>1 DEF SyncInv, StoreIsLast, SendersOpen, Sync!Open
  <2>6. OneWhileOpening'
    BY <1>2, <2>1, <2>2, <2>3 DEF SyncInv, OneWhileOpening, Sync!Opening
  <2>7. LastEditOnly'
    BY <1>2, <2>1, <2>2, <2>3 DEF SyncInv, LastEditOnly
  <2> QED
    BY <2>4, <2>5, <2>6, <2>7
<1>8. OnItsWay'
  BY <1>2, <1>4, <1>5 DEF SyncInv, OnItsWay, SendersOpen, Sync!Hearers, Sync!Open
<1> QED
  BY <1>6, <1>7, <1>8 DEF SyncInv

LEMMA SyncHear == ASSUME SyncBounds, SyncInv, NEW w \in Windows, Sync!Hear(w) PROVE SyncInv'
<1>1. PICK l : l = Head(s7[w])
  OBVIOUS
<1>2. /\ s7[w] # <<>> /\ s7' = [s7 EXCEPT ![w] = Tail(s7[w])]
      /\ s2' = [s2 EXCEPT ![w].list = l]
      /\ IF s2[w].list # l THEN Sync!Watched(w, l) ELSE UNCHANGED <<s3, s4>>
      /\ UNCHANGED <<s1, s5, s6, s8>> /\ SyncTyped /\ NoneNewer
  BY <1>1 DEF Sync!Hear, Sync!HearWatched, Sync!News, SyncInv
<1>3. /\ l \in Sync!Lists /\ l \in Nat /\ s7'[w] \in Seq(Sync!Lists)
      /\ Items(s7[w]) = Items(s7'[w]) \cup {l}
      /\ s7' \in [Windows -> Seq(Sync!Lists)] /\ \A v \in Windows : v # w => s7'[v] = s7[v]
  <2>1. s7[w] \in Seq(Sync!Lists) /\ s7'[w] = Tail(s7[w])
    BY <1>2 DEF SyncTyped
  <2>2. l \in Sync!Lists /\ s7'[w] \in Seq(Sync!Lists) /\ Items(s7[w]) = Items(s7'[w]) \cup {l}
    BY <1>1, <1>2, <2>1, HeadTaken
  <2> QED
    BY <1>2, <2>2 DEF SyncTyped, Sync!Lists, SyncBounds
<1>4. /\ s2' \in [Windows -> SyncWin] /\ s2'[w].list = l /\ s2[w].hears /\ Sync!Open(w)
      /\ \A v \in Windows : /\ v # w => s2'[v] = s2[v]
                            /\ s2'[v].at = s2[v].at /\ s2'[v].hears = s2[v].hears
  BY <1>2, <1>3 DEF SyncTyped, SyncWin, Sync!Open
<1>5. ASSUME NEW v \in Windows
      PROVE  Items(s7'[v]) \subseteq Items(s7[v]) /\ (s7'[v] # <<>> => s7[v] # <<>>)
  BY <1>2, <1>3
<1>6. CASE s2[w].list = l
  <2>1. s3' = s3 /\ s4' = s4 /\ s5' = s5 /\ s2'[w].list = s2[w].list
    BY <1>2, <1>4, <1>6
  <2>2. SyncFlight' = SyncFlight /\ StoreIsLast'
    BY <1>2, <2>1 DEF SyncFlight, SyncInv, StoreIsLast
  <2>3. SyncTyped'
    BY <1>2, <1>3, <1>4, <1>5, <2>1 DEF SyncTyped
  <2>4. NoneNewer' /\ SendersOpen' /\ LastEditOnly'
    BY <1>2, <1>3, <1>4, <1>5, <2>1, <2>2
       DEF SyncInv, NoneNewer, SendersOpen, LastEditOnly, Sync!Open
  <2>5. OneWhileOpening'
    <3> SUFFICES ASSUME s8'.windows, Sync!Opening'
                 PROVE  /\ s6' = s3' /\ \A c \in SyncFlight' : c.list = s3'
                        /\ \A v \in Windows : s2'[v].at # "closed" =>
                             s2'[v].list = s3' /\ \A h \in Items(s7'[v]) : h = s3'
      BY DEF OneWhileOpening
    <3>1. s8.windows /\ Sync!Opening
      BY <1>2, <1>4 DEF Sync!Opening
    <3>2. /\ s6 = s3 /\ \A c \in SyncFlight : c.list = s3
          /\ \A v \in Windows : s2[v].at # "closed" =>
               s2[v].list = s3 /\ \A h \in Items(s7[v]) : h = s3
      BY <3>1 DEF SyncInv, OneWhileOpening
    <3>3. ASSUME NEW v \in Windows, s2'[v].at # "closed"
          PROVE  s2'[v].list = s3 /\ \A h \in Items(s7'[v]) : h = s3
      <4>1. s2[v].at # "closed" /\ s2'[v].list = s2[v].list
        BY <1>4, <2>1, <3>3
      <4> QED
        BY <1>5, <3>2, <4>1
    <3> QED
      BY <1>2, <2>1, <2>2, <3>2, <3>3
  <2>6. OnItsWay'
    BY <1>2, <1>3, <1>4, <1>6, <2>1, <2>2 DEF SyncInv, OnItsWay, Sync!Hearers
  <2> QED
    BY <2>2, <2>3, <2>4, <2>5, <2>6 DEF SyncInv
<1>7. CASE s2[w].list # l
  <2>1. PICK c \in Sync!Call : /\ c.by = w /\ c.list = l
                         /\ s3' = l /\ s4' \in Seq(Sync!Call) /\ StoreIsLast'
                         /\ Items(s4') = Items(s4) \cup {c}
    BY <1>2, <1>3, <1>7, WatchedLast
  <2>2. SyncFlight' = SyncFlight \cup {c}
    BY <1>2, <2>1 DEF SyncFlight
  <2>3. SyncTyped'
    BY <1>2, <1>3, <1>4, <1>5, <2>1 DEF SyncTyped
  <2>4. NoneNewer'
    BY <1>2, <1>3, <1>4, <1>5, <2>1, <2>2 DEF NoneNewer
  <2>5. SendersOpen' /\ OnItsWay'
    BY <1>2, <1>4, <2>1, <2>2 DEF SyncInv, SendersOpen, OnItsWay, Sync!Open
  <2>6. ~(s8.windows /\ Sync!Opening)
    BY <1>3, <1>4, <1>7 DEF SyncInv, OneWhileOpening, Sync!Open
  <2>7. OneWhileOpening'
    BY <1>2, <1>4, <2>6 DEF OneWhileOpening, Sync!Opening
  <2>8. LastEditOnly'
    BY <1>2, <1>3, <1>5, <2>1, <2>2, ZenonT(30) DEF SyncInv, LastEditOnly
  <2> QED
    BY <2>1, <2>3, <2>4, <2>5, <2>7, <2>8 DEF SyncInv
<1> QED
  BY <1>6, <1>7

LEMMA SyncRead == ASSUME SyncBounds, SyncInv, NEW w \in Windows, Sync!Read(w) PROVE SyncInv'
<1>1. /\ s2[w].at = "closed"
      /\ s2' = [s2 EXCEPT ![w] = [at |-> "reading", list |-> s3, hears |-> FALSE]]
      /\ s8' = [s8 EXCEPT !.windows = s8.windows /\ Sync!Quiet]
      /\ UNCHANGED <<s1, s3, s4, s5, s6, s7>> /\ SyncTyped /\ NoneNewer
  BY DEF Sync!Read, Sync!Stored, SyncInv
<1>2. /\ s2' \in [Windows -> SyncWin] /\ s2'[w].list = s3 /\ ~s2'[w].hears
      /\ \A v \in Windows : v # w => s2'[v] = s2[v]
  BY <1>1 DEF SyncTyped, SyncWin
<1>3. /\ s8' \in [edits : BOOLEAN, windows : BOOLEAN] /\ s8'.edits = s8.edits
      /\ s8'.windows = (s8.windows /\ Sync!Quiet)
  BY <1>1 DEF SyncTyped, Sync!Quiet, Sync!Opening
<1>4. SyncFlight' = SyncFlight
  BY <1>1 DEF SyncFlight
<1>5. ~s2[w].hears /\ s7[w] = <<>>
  BY <1>1 DEF SyncTyped
<1>6. SyncTyped'
  BY <1>1, <1>2, <1>3, <1>5 DEF SyncTyped
<1>7. NoneNewer' /\ StoreIsLast' /\ LastEditOnly'
  BY <1>1, <1>2, <1>3, <1>4 DEF SyncInv, NoneNewer, StoreIsLast, LastEditOnly
<1>8. ASSUME s8'.windows
      PROVE  /\ s6 = s3 /\ SyncFlight = {} /\ \A v \in Windows : Items(s7[v]) = {}
             /\ \A v \in Windows : s2[v].at # "closed" => s2[v].list = s3
  <2>1. Sync!Quiet /\ s8.windows
    BY <1>3, <1>8
  <2>2. \A v \in Windows : s2[v].at # "closed" => Sync!Open(v)
    BY <1>1, <2>1 DEF Sync!Quiet, Sync!Opening, SyncTyped, Sync!Open
  <2> QED
    BY <2>1, <2>2, AtRest
<1>9. SendersOpen' /\ OnItsWay'
  BY <1>1, <1>2, <1>4, <1>5, <1>8 DEF SyncTyped, SendersOpen, OnItsWay, Sync!Hearers
<1>10. OneWhileOpening'
  BY <1>1, <1>2, <1>4, <1>8 DEF OneWhileOpening
<1> QED
  BY <1>6, <1>7, <1>9, <1>10 DEF SyncInv

LEMMA SyncMount == ASSUME SyncBounds, SyncInv, NEW w \in Windows, Sync!Mount(w) PROVE SyncInv'
<1>1. PICK l : l = s2[w].list
  OBVIOUS
<1>2. /\ s2[w].at = "reading" /\ s2' = [s2 EXCEPT ![w].at = "open"] /\ Sync!Watched(w, l)
      /\ UNCHANGED <<s1, s5, s6, s7, s8>> /\ SyncTyped /\ NoneNewer
  BY <1>1 DEF Sync!Mount, SyncInv
<1>3. l \in Sync!Lists /\ l \in Nat /\ l <= s1
  BY <1>1, <1>2 DEF SyncTyped, NoneNewer, SyncWin, Sync!Lists, SyncBounds
<1>4. /\ s2' \in [Windows -> SyncWin] /\ Sync!Open(w)' /\ ~s2[w].hears
      /\ \A v \in Windows : /\ v # w => s2'[v] = s2[v]
                            /\ s2'[v].list = s2[v].list /\ s2'[v].hears = s2[v].hears
                            /\ (s2'[v].at # "closed") = (s2[v].at # "closed")
  BY <1>2 DEF SyncTyped, SyncWin, Sync!Open
<1>5. PICK c \in Sync!Call : /\ c.by = w /\ c.list = l
                       /\ s3' = l /\ s4' \in Seq(Sync!Call) /\ StoreIsLast'
                       /\ Items(s4') = Items(s4) \cup {c}
  BY <1>2, <1>3, WatchedLast
<1>6. SyncFlight' = SyncFlight \cup {c}
  BY <1>2, <1>5 DEF SyncFlight
<1>7. SyncTyped' /\ NoneNewer'
  BY <1>2, <1>3, <1>4, <1>5, <1>6 DEF SyncTyped, NoneNewer
<1>8. s8.windows => l = s3
  BY <1>1, <1>2, <1>4 DEF SyncInv, OneWhileOpening, Sync!Opening
<1>9. SendersOpen' /\ OnItsWay' /\ LastEditOnly'
  <2>1. \A d \in Sync!Call : Sync!Open(d.by) => Sync!Open(d.by)'
    BY <1>4 DEF Sync!Open, Sync!Call
  <2>2. \A d \in SyncFlight : s8.windows => d \in Sync!Call /\ Sync!Open(d.by)
    BY <1>2, FlightTyped DEF SyncInv, SendersOpen
  <2>3. SendersOpen'
    BY <1>2, <1>4, <1>5, <1>6, <2>1, <2>2 DEF SendersOpen
  <2>4. OnItsWay'
    BY <1>5, <1>6 DEF OnItsWay
  <2>5. LastEditOnly'
    BY <1>2, <1>5, <1>6, <1>8 DEF SyncInv, LastEditOnly
  <2> QED
    BY <2>3, <2>4, <2>5
<1>10. OneWhileOpening'
  BY <1>2, <1>4, <1>5, <1>6, <1>8, SMTT(20) DEF SyncInv, OneWhileOpening, Sync!Opening
<1> QED
  BY <1>5, <1>7, <1>9, <1>10 DEF SyncInv

LEMMA SyncListen == ASSUME SyncBounds, SyncInv, NEW w \in Windows, Sync!Listen(w) PROVE SyncInv'
<1>1. /\ s2[w].at = "open" /\ ~s2[w].hears /\ s2' = [s2 EXCEPT ![w].hears = TRUE]
      /\ UNCHANGED <<s1, s3, s4, s5, s6, s7, s8>> /\ SyncTyped
  BY DEF Sync!Listen, Sync!Open, SyncInv
<1>2. /\ s2' \in [Windows -> SyncWin] /\ s2'[w].hears
      /\ \A v \in Windows : /\ v # w => s2'[v] = s2[v]
                            /\ s2'[v].list = s2[v].list /\ s2'[v].at = s2[v].at
  BY <1>1 DEF SyncTyped, SyncWin
<1>3. SyncFlight' = SyncFlight
  BY <1>1 DEF SyncFlight
<1>4. SyncTyped' /\ NoneNewer' /\ StoreIsLast' /\ SendersOpen' /\ LastEditOnly'
  BY <1>1, <1>2, <1>3
     DEF SyncInv, SyncTyped, NoneNewer, StoreIsLast, SendersOpen, LastEditOnly, Sync!Open
<1>5. s8.windows => s2[w].list = s3
  BY <1>1 DEF SyncInv, OneWhileOpening, Sync!Opening
<1>6. OnItsWay'
  BY <1>1, <1>2, <1>3, <1>5 DEF SyncInv, OnItsWay, Sync!Hearers
<1>7. OneWhileOpening'
  BY <1>1, <1>2, <1>3 DEF SyncInv, OneWhileOpening, Sync!Opening
<1> QED
  BY <1>4, <1>6, <1>7 DEF SyncInv

LEMMA SyncClose == ASSUME SyncBounds, SyncInv, NEW w \in Windows, Sync!Close(w) PROVE SyncInv'
<1>1. /\ s2' = [s2 EXCEPT ![w] = [at |-> "closed", list |-> 0, hears |-> FALSE]]
      /\ s7' = [s7 EXCEPT ![w] = <<>>] /\ SyncTyped /\ NoneNewer
      /\ UNCHANGED <<s1, s3, s4, s5, s6>>
      /\ s8' = [s8 EXCEPT !.windows = s8.windows /\ Sync!Quiet]
  BY DEF Sync!Close, Sync!NoWindow, SyncInv
<1>2. /\ s2' \in [Windows -> SyncWin] /\ s2'[w].at = "closed" /\ ~s2'[w].hears
      /\ s2'[w].list = 0 /\ \A v \in Windows : v # w => s2'[v] = s2[v]
  BY <1>1 DEF SyncTyped, SyncWin
<1>3. /\ s8' \in [edits : BOOLEAN, windows : BOOLEAN] /\ s8'.edits = s8.edits
      /\ s8'.windows = (s8.windows /\ Sync!Quiet)
  BY <1>1 DEF SyncTyped, Sync!Quiet, Sync!Opening
<1>4. /\ s7' \in [Windows -> Seq(Sync!Lists)] /\ s7'[w] = <<>> /\ Items(s7'[w]) = {}
      /\ \A v \in Windows : v # w => s7'[v] = s7[v]
  BY <1>1, EmptyItems DEF SyncTyped
<1>5. SyncFlight' = SyncFlight /\ s1 \in Nat
  BY <1>1 DEF SyncFlight, SyncTyped, Sync!Lists, SyncBounds
<1>6. SyncTyped' /\ NoneNewer' /\ StoreIsLast' /\ LastEditOnly'
  <2>1. SyncTyped'
    BY <1>1, <1>2, <1>3, <1>4 DEF SyncTyped
  <2>2. NoneNewer'
    BY <1>1, <1>2, <1>4, <1>5 DEF NoneNewer
  <2>3. StoreIsLast' /\ LastEditOnly'
    BY <1>1, <1>3, <1>4, <1>5 DEF SyncInv, StoreIsLast, LastEditOnly
  <2> QED
    BY <2>1, <2>2, <2>3
<1>7. ASSUME s8'.windows
      PROVE  /\ s6 = s3 /\ SyncFlight = {} /\ \A v \in Windows : Items(s7'[v]) = {}
             /\ \A v \in Windows : s2'[v].at # "closed" => s2'[v].list = s3
  <2>1. Sync!Quiet /\ s8.windows
    BY <1>3, <1>7
  <2>2. \A v \in Windows : s2[v].at # "closed" => Sync!Open(v)
    BY <1>1, <2>1 DEF Sync!Quiet, Sync!Opening, SyncTyped, Sync!Open
  <2> QED
    BY <1>2, <1>4, <2>1, <2>2, AtRest
<1>8. SendersOpen' /\ OnItsWay'
  BY <1>1, <1>5, <1>6, <1>7 DEF SyncTyped, SendersOpen, OnItsWay, Sync!Hearers
<1>9. OneWhileOpening'
  BY <1>1, <1>5, <1>7 DEF OneWhileOpening
<1> QED
  BY <1>6, <1>8, <1>9 DEF SyncInv

-----------------------------------------------------------------------------
LEMMA SyncInvInit == ASSUME SyncBounds, Sync!Init PROVE SyncInv
<1>1. /\ s1 = 0 /\ s3 = 0 /\ s4 = <<>> /\ s5 = <<>> /\ s6 = 0
      /\ s7 = [w \in Windows |-> <<>>] /\ s8 = [edits |-> TRUE, windows |-> TRUE]
  BY DEF Sync!Init
<1>2. /\ s2 \in [Windows -> SyncWin]
      /\ \A w \in Windows : /\ s2[w].list = 0 /\ s2[w].at \in {"open", "closed"}
                            /\ s2[w].hears => s2[w].at = "open"
                            /\ s2[w].at = "open" => s2[w].hears
  <2>1. PICK half : half = [Sync!NoWindow EXCEPT !.at = "open"]
    OBVIOUS
  <2>2. PICK new : new = [half EXCEPT !.hears = TRUE]
    OBVIOUS
  <2>3. /\ Sync!NoWindow \in SyncWin /\ Sync!NoWindow.at = "closed" /\ Sync!NoWindow.list = 0
        /\ ~Sync!NoWindow.hears
    BY DEF Sync!NoWindow, SyncWin
  <2>4. half \in SyncWin /\ half.at = "open" /\ half.list = 0
    BY <2>1, <2>3 DEF SyncWin
  <2>5. new \in SyncWin /\ new.at = "open" /\ new.list = 0 /\ new.hears
    BY <2>2, <2>4 DEF SyncWin
  <2>6. s2 = [w \in Windows |-> IF w = First THEN new ELSE Sync!NoWindow]
    BY <2>1, <2>2 DEF Sync!Init
  <2>7. \A w \in Windows : s2[w] = new \/ s2[w] = Sync!NoWindow
    BY <2>6
  <2> QED
    BY <2>3, <2>5, <2>6, <2>7
<1>3. SyncFlight = {} /\ \A w \in Windows : s7[w] = <<>> /\ Items(s7[w]) = {}
  BY <1>1, EmptyItems DEF SyncFlight
<1>4. SyncTyped
  <2>1. s1 \in Sync!Lists /\ s7 \in [Windows -> Seq(Sync!Lists)] /\ s4 \in Seq(Sync!Call)
        /\ s5 \in Seq(Sync!Call) /\ s8 \in [edits : BOOLEAN, windows : BOOLEAN]
    BY <1>1 DEF SyncBounds, Sync!Lists
  <2> QED
    BY <1>1, <1>2, <1>3, <2>1 DEF SyncTyped
<1> QED
  BY <1>1, <1>2, <1>3, <1>4 DEF SyncInv, NoneNewer, StoreIsLast, SendersOpen, OnItsWay,
     OneWhileOpening, LastEditOnly, Sync!Opening, Sync!Hearers

LEMMA SyncInvStep == ASSUME SyncBounds, SyncInv, Sync!Next \/ UNCHANGED Sync!vars PROVE SyncInv'
<1>1. CASE Sync!Next
  BY <1>1, SyncEdit, SyncRun, SyncEmit, SyncHear, SyncRead, SyncMount, SyncListen, SyncClose
     DEF Sync!Next, Sync!Emits, Sync!Step
<1>2. CASE UNCHANGED Sync!vars
  <2>1. UNCHANGED <<s1, s2, s3, s4, s5, s6, s7, s8>>
    BY <1>2 DEF Sync!vars
  <2>2. SyncFlight' = SyncFlight
    BY <2>1 DEF SyncFlight
  <2> QED
    BY <2>1, <2>2 DEF SyncInv, SyncTyped, NoneNewer, StoreIsLast, SendersOpen, OnItsWay,
       OneWhileOpening, LastEditOnly, Sync!Opening, Sync!Hearers, Sync!Open
<1> QED
  BY <1>1, <1>2

LEMMA SyncSafe == ASSUME SyncBounds, SyncInv PROVE Sync!TypeOK /\ Sync!Agree /\ Sync!EditKept
<1>1. Sync!Agree /\ Sync!EditKept
  BY AtRest DEF Sync!Agree, Sync!EditKept, Sync!Same, SyncInv, LastEditOnly
<1>2. s1 \in Nat /\ s3 \in 0..s1 /\ s6 \in 0..s1
  BY DEF SyncInv, SyncTyped, NoneNewer, Sync!Lists, SyncBounds
<1>3. s2 \in [Windows -> [at : {"closed", "reading", "open"}, list : 0..s1, hears : BOOLEAN]]
  BY <1>2 DEF SyncInv, SyncTyped, NoneNewer, SyncWin
<1>4. Sync!TypeOK
  BY <1>2, <1>3 DEF SyncInv, SyncTyped, Sync!TypeOK
<1> QED
  BY <1>1, <1>4

LEMMA SyncInit == Init => (part = "sync" => SyncInv)
BY PanelsAssumption, SyncInvInit DEF PanelsAssumption, SyncBounds, Init

LEMMA SyncStep ==
  ASSUME part = "sync" => SyncInv, [Next]_vars
  PROVE  (part = "sync" => SyncInv)'
<1> SUFFICES ASSUME part = "sync", SyncInv PROVE SyncInv'
  BY DEF Next, vars
<1>1. SyncBounds
  BY PanelsAssumption DEF PanelsAssumption, SyncBounds
<1>2. Sync!Next \/ UNCHANGED Sync!vars
  BY DEF Next, vars, Sync!vars
<1> QED
  BY <1>1, <1>2, SyncInvStep

\* At rest all windows, the back end and the stored file have one list, and it is the last edit
\* if the edits were made at rest, for any windows, edits and calls under way: AppMain's watcher
\* and listener.
THEOREM WindowsAgree == Spec => []Agree
<1>1. (part = "sync" => SyncInv) => Agree
  BY PanelsAssumption, SyncSafe DEF PanelsAssumption, SyncBounds, Agree
<1>2. Spec => Init /\ [][Next]_vars
  BY DEF Spec
<1> QED
  BY <1>1, <1>2, SyncInit, SyncStep, PTL

-----------------------------------------------------------------------------
(* FieldEditor: server, rows, edit, form, jobs, calls, acts and calm are s1 to s8.  As long
   as the user was calm, whatever is under way for the panel - a codec, a call, the text that
   is typed - carries a value of the row that the panel is for, until it closes. *)

\* The calls under way.
EditCalls == Items(s6)

\* What is known of the panel at any time.
FormRecords == [open : BOOLEAN, row : Editor!Rows \cup {-1}, src : Editor!Value,
                view : Editor!Views, hit : BOOLEAN,
                text : Editor!Text, typed : BOOLEAN, loading : BOOLEAN, failed : BOOLEAN,
                job : Editor!Ids \cup {0}, refreshing : BOOLEAN, saving : BOOLEAN]
EditorTyped ==
  /\ s1 \in [Editor!Rows -> Editor!Value] /\ s2 \in [Editor!Rows -> Editor!Value]
  /\ s3 \in [index : Editor!Rows \cup {-1}, row : Editor!Rows \cup {-1}]
  /\ s4 \in FormRecords /\ (s4.job # 0) = s4.loading
  /\ s4.open => s4.row \in Editor!Rows
  /\ s5 \subseteq Editor!Job /\ \A j, k \in s5 : j.id = k.id => j = k
  /\ s6 \in Seq(Editor!Call) /\ s7 \in 0..MaxActs /\ s8 \in BOOLEAN
  /\ \A c \in EditCalls : /\ c.what # "saved" => c.row \in Editor!Rows
                          /\ c.what = "panel" => s4.row \in Editor!Rows

\* The row that is being edited is the one the form is for, until its panel has closed.
EditOf ==
  /\ s3.row # -1 => s3.index = s4.row /\ s4.row \in Editor!Rows
  /\ s4.open => s3.row # -1
  /\ s3.row # -1 /\ ~s4.open => \E c \in EditCalls : c.what = "saved"

\* A call carries a value of the row that it is about, and that row is the one that is edited.
CallOwn(c) ==
  /\ c.what = "set" => c.val.of = c.row
  /\ c.what # "set" /\ c.st = "done" => c.val.of = Editor!Place(c.row)
  /\ c.what # "row" /\ s3.row # -1 => c.row = s4.row
  /\ c.what = "row" => ~s4.open /\ s3.row = -1 /\ s3.index \in {c.row, -1}
CallsOwn == \A c \in EditCalls : CallOwn(c)

\* So does a codec that runs, and the one the editor waits for has what the panel shows.
JobOwn(j) ==
  /\ j.what = "encode" => /\ j.text.val.of = j.row /\ j.text.view = "codec" /\ j.got = Editor!Junk
                          /\ s3.row # -1 => j.row = s4.row
  /\ j.what = "decode" => j.id = s4.job
  /\ j.got # Editor!Junk => j.got.of \in Editor!Rows /\ (s3.row # -1 => j.got.of = s4.row)
  /\ j.id = s4.job => /\ j.text = [val |-> s4.src, view |-> "codec"]
                      /\ \/ j.what = "probe" /\ s4.view = "auto"
                         \/ j.what = "decode" /\ s4.view = "codec"
JobsOwn == \A j \in s5 : JobOwn(j)

\* What is typed is for the row too.
TextOwn ==
  s4.open /\ ~s4.loading /\ ~s4.failed =>
    /\ s4.text.view = Editor!Effective(s4) /\ s4.text.val.of = s4.row
    /\ ~s4.typed => s4.text.val = s4.src

EditorOwn ==
  /\ EditOf /\ CallsOwn /\ JobsOwn /\ TextOwn
  /\ s4.open => s4.src.of = s4.row
  /\ Editor!OfRows(s2) /\ Editor!OfRows(s1)

EditorInv == EditorTyped /\ (s8 => EditorOwn)
-----------------------------------------------------------------------------
EditorBounds == N \in Nat \ {0} /\ MaxJobs \in Nat \ {0} /\ MaxActs \in Nat

LEMMA CallsStay == ASSUME UNCHANGED s6 PROVE EditCalls' = EditCalls
<1>1. s6' = s6
  OBVIOUS
<1> QED
  BY <1>1, Zenon DEF EditCalls

LEMMA CallAdded ==
  ASSUME NEW q \in Seq(Editor!Call), NEW c \in Editor!Call
  PROVE  Append(q, c) \in Seq(Editor!Call) /\ Items(Append(q, c)) = Items(q) \cup {c}
BY ItemAdded

LEMMA CallChanged ==
  ASSUME NEW q \in Seq(Editor!Call), NEW i \in DOMAIN q, NEW c \in Editor!Call,
         NEW p, p = [q EXCEPT ![i] = c]
  PROVE  /\ p \in Seq(Editor!Call) /\ Items(p) \subseteq Items(q) \cup {c}
         /\ c \in Items(p) /\ q[i] \in Items(q)
         /\ \A d \in Items(q) : d = q[i] \/ d \in Items(p)
<1>1. /\ p \in Seq(Editor!Call) /\ DOMAIN p = DOMAIN q
      /\ \A k \in DOMAIN q : p[k] = IF k = i THEN c ELSE q[k]
  OBVIOUS
<1> QED
  BY <1>1 DEF Items

LEMMA CallRemoved ==
  ASSUME NEW q \in Seq(Editor!Call), NEW i \in DOMAIN q, NEW p, p = Editor!RemoveAt(q, i)
  PROVE  /\ p \in Seq(Editor!Call) /\ Items(p) \subseteq Items(q) /\ q[i] \in Items(q)
         /\ \A c \in Items(q) : c = q[i] \/ c \in Items(p)
<1>1. p = Without(q, i)
  BY DEF Without, Editor!RemoveAt
<1> QED
  BY <1>1, ItemRemoved

\* A form that the editor is made to follow: the text is there, or a codec runs for it.
LEMMA Synced ==
  ASSUME EditorBounds, EditorTyped, NEW f \in FormRecords, f.row \in Editor!Rows,
         NEW got \in Editor!Value, Editor!Sync(f, got)
  PROVE  /\ s4' \in FormRecords /\ (s4'.job # 0) = s4'.loading
         /\ s5' \subseteq Editor!Job /\ \A j, k \in s5' : j.id = k.id => j = k
         /\ s4'.open = f.open /\ s4'.row = f.row /\ s4'.src = f.src /\ s4'.view = f.view
         /\ ~s4'.typed
         /\ \A j \in s5 : j.id # s4'.job
         /\ \A j \in s5' \ s5 :
              /\ j.what \in {"probe", "decode"} /\ j.id = s4'.job /\ j.got = got
              /\ j.text = [val |-> f.src, view |-> "codec"]
              /\ \/ j.what = "probe" /\ f.view = "auto"
                 \/ j.what = "decode" /\ f.view = "codec"
         /\ ~s4'.loading => ~s4'.failed /\ s4'.text = [val |-> f.src, view |-> Editor!Effective(s4')]
<1>1. /\ Editor!Junk \in Editor!Value /\ Editor!NoText \in Editor!Text /\ f.src \in Editor!Value
      /\ f.view \in Editor!Views
  BY DEF Editor!Junk, Editor!Value, Editor!NoText, Editor!Text, FormRecords
<1>2. CASE Editor!Waits(f)
  <2> DEFINE id == CHOOSE i \in Editor!FreeIds : TRUE
             text == [val |-> f.src, view |-> "codec"]
             what == IF f.view = "auto" THEN "probe" ELSE "decode"
             j == [id |-> id, what |-> what, row |-> f.row, text |-> text, got |-> got]
  <2>1. /\ Editor!FreeIds # {} /\ s5' = s5 \cup {j}
        /\ s4' = [f EXCEPT !.hit = FALSE, !.typed = FALSE, !.loading = TRUE, !.job = j.id,
                              !.text = IF f.view = "auto" THEN Editor!NoText ELSE @]
    BY <1>2 DEF Editor!Sync, Editor!NewJob
  <2>2. id \in Editor!FreeIds /\ id \in Editor!Ids /\ id # 0 /\ \A k \in s5 : k.id # id
    BY <2>1, EditorBounds DEF Editor!FreeIds, Editor!Ids, EditorBounds
  <2>3. f.view = "auto" \/ f.view = "codec"
    BY <1>2 DEF Editor!Waits
  <2>4. text \in Editor!Text /\ what \in {"probe", "decode"}
    BY <1>1 DEF Editor!Text
  <2> HIDE DEF id, text
  <2>5. j \in Editor!Job /\ j.id = id /\ j.what = what /\ j.got = got /\ j.text = text
    BY <2>2, <2>4 DEF Editor!Job
  <2>6. /\ s4' \in FormRecords /\ s4'.job = id /\ s4'.loading
        /\ s4'.open = f.open /\ s4'.row = f.row /\ s4'.src = f.src /\ s4'.view = f.view
        /\ ~s4'.typed
    BY <1>1, <2>1, <2>2, <2>5 DEF FormRecords
  <2> HIDE DEF j, what
  <2>7. s5' \subseteq Editor!Job /\ \A k, l \in s5' : k.id = l.id => k = l
    BY <2>1, <2>2, <2>5 DEF EditorTyped
  <2>8. ASSUME NEW k \in s5' \ s5
        PROVE  /\ k.what \in {"probe", "decode"} /\ k.id = s4'.job /\ k.got = got
               /\ k.text = [val |-> f.src, view |-> "codec"]
               /\ \/ k.what = "probe" /\ f.view = "auto"
                  \/ k.what = "decode" /\ f.view = "codec"
    <3>1. k = j
      BY <2>1
    <3> QED
      BY <2>3, <2>5, <2>6, <3>1 DEF what, text
  <2> QED
    BY <2>2, <2>6, <2>7, <2>8
<1>3. CASE ~Editor!Waits(f)
  <2> DEFINE text == [val |-> f.src, view |-> IF f.view = "auto" THEN Editor!BuiltIn(f.src) ELSE f.view]
  <2>1. /\ s5' = s5
        /\ s4' = [f EXCEPT !.hit = FALSE, !.typed = FALSE, !.loading = FALSE, !.job = 0,
                              !.failed = FALSE, !.text = text]
    BY <1>3 DEF Editor!Sync
  <2>2. text \in Editor!Text
    BY <1>1, <1>3 DEF Editor!Text, Editor!BuiltIn, Editor!Views, Editor!Waits
  <2> HIDE DEF text
  <2>3. /\ s4' \in FormRecords /\ s4'.job = 0 /\ s4'.loading = FALSE /\ ~s4'.failed
        /\ s4'.text = text
        /\ s4'.open = f.open /\ s4'.row = f.row /\ s4'.src = f.src /\ s4'.view = f.view
        /\ ~s4'.typed /\ ~s4'.hit
    BY <1>1, <2>1, <2>2 DEF FormRecords
  <2>4. text = [val |-> f.src, view |-> Editor!Effective(s4')]
    BY <2>3 DEF text, Editor!Effective
  <2>5. \A k \in s5 : k.id # 0
    BY DEF EditorTyped, Editor!Job, Editor!Ids
  <2>6. s5' \subseteq Editor!Job /\ (\A k, l \in s5' : k.id = l.id => k = l) /\ s5' \ s5 = {}
    BY <2>1 DEF EditorTyped
  <2>7. \A k \in s5 : k.id # s4'.job
    BY <2>3, <2>5
  <2> QED
    BY <2>3, <2>4, <2>6, <2>7 DEF EditorTyped
<1> QED
  BY <1>2, <1>3

\* What the codecs then are about.
LEMMA SyncOwn ==
  ASSUME EditorBounds, EditorTyped, NEW f \in FormRecords, f.row \in Editor!Rows,
         NEW got \in Editor!Value, Editor!Sync(f, got),
         f.open => f.src.of = f.row,
         \A j \in s5 :
           /\ j.what # "decode"
           /\ j.what = "encode" => /\ j.text.val.of = j.row /\ j.text.view = "codec" /\ j.got = Editor!Junk
                                   /\ s3'.row # -1 => j.row = f.row
           /\ j.got # Editor!Junk => j.got.of \in Editor!Rows /\ (s3'.row # -1 => j.got.of = f.row),
         got # Editor!Junk => got.of \in Editor!Rows /\ (s3'.row # -1 => got.of = f.row)
  PROVE  JobsOwn' /\ TextOwn' /\ (s4'.open => s4'.src.of = s4'.row)
<1>1. /\ s4'.open = f.open /\ s4'.row = f.row /\ s4'.src = f.src /\ s4'.view = f.view
      /\ \A j \in s5 : j.id # s4'.job
      /\ \A j \in s5' \ s5 :
           /\ j.what \in {"probe", "decode"} /\ j.id = s4'.job /\ j.got = got
           /\ j.text = [val |-> f.src, view |-> "codec"]
           /\ \/ j.what = "probe" /\ f.view = "auto"
              \/ j.what = "decode" /\ f.view = "codec"
      /\ ~s4'.loading => ~s4'.failed /\ s4'.text = [val |-> f.src, view |-> Editor!Effective(s4')]
  BY Synced
<1>2. ASSUME NEW j \in s5' PROVE JobOwn(j)'
  <2>1. CASE j \in s5
    BY <1>1, <2>1 DEF JobOwn
  <2>2. CASE j \notin s5
    BY <1>1, <2>2 DEF JobOwn
  <2> QED
    BY <2>1, <2>2
<1>3. TextOwn'
  BY <1>1 DEF TextOwn
<1> QED
  BY <1>1, <1>2, <1>3 DEF JobsOwn

\* A row that is given a value.
LEMMA AppliedTyped ==
  ASSUME EditorBounds, EditorTyped, NEW got \in Editor!Value, NEW r \in Editor!Rows \cup {-1}
  PROVE  Editor!Applied(got, r) \in [Editor!Rows -> Editor!Value]
<1>1. r # -1 => Editor!RowNow(r) \in Editor!Rows
  BY DEF EditorTyped, Editor!RowNow, Editor!Rows, EditorBounds
<1> QED
  BY <1>1 DEF EditorTyped, Editor!Applied

LEMMA AppliedOwn ==
  ASSUME EditorBounds, EditorTyped, EditOf, Editor!OfRows(s2), NEW got \in Editor!Value,
         s3.row # -1 => got.of = s4.row
  PROVE  Editor!OfRows(Editor!Applied(got, s3.row))
<1>1. CASE s3.row = -1
  BY <1>1 DEF Editor!Applied
<1>2. CASE s3.row # -1
  <2>1. Editor!RowNow(s3.row) = s4.row /\ s4.row \in Editor!Rows
    BY <1>2 DEF EditOf, Editor!RowNow, Editor!Rows, EditorBounds
  <2> QED
    BY <1>2, <2>1 DEF Editor!Applied, Editor!OfRows, EditorTyped
<1> QED
  BY <1>1, <1>2

-----------------------------------------------------------------------------
LEMMA OpenStep ==
  ASSUME EditorBounds, EditorInv, NEW r \in Editor!Rows, Editor!Open(r)
  PROVE  EditorInv'
<1>1. PICK f : f = [s4 EXCEPT !.open = TRUE, !.row = r, !.src = s2[r], !.view = "auto"]
  OBVIOUS
<1>2. /\ s3' = [index |-> r, row |-> r] /\ Editor!Sync(f, Editor!Junk) /\ s8' = (s8 /\ Editor!Quiet)
      /\ s7' = s7 + 1 /\ s7 < MaxActs /\ UNCHANGED <<s1, s2, s6>> /\ EditorTyped
  BY <1>1 DEF Editor!Open, Editor!Act, EditorInv
<1>3. f \in FormRecords /\ f.open /\ f.row = r /\ f.src = s2[r] /\ Editor!Junk \in Editor!Value
  <2>1. s2[r] \in Editor!Value /\ s4 \in FormRecords /\ Editor!Junk \in Editor!Value
    BY <1>2 DEF EditorTyped, Editor!Junk, Editor!Value
  <2> QED
    BY <1>1, <2>1 DEF FormRecords, Editor!Views
<1>4. EditorTyped'
  <2>1. f.row \in Editor!Rows
    BY <1>2, <1>3
  <2>2. /\ s4' \in FormRecords /\ (s4'.job # 0) = s4'.loading
        /\ s5' \subseteq Editor!Job /\ \A j, k \in s5' : j.id = k.id => j = k
        /\ s4'.row = f.row
    BY <1>2, <1>3, <2>1, Synced
  <2>3. EditCalls' = EditCalls
    BY <1>2, CallsStay
  <2>4. s7' \in 0..MaxActs /\ s8' \in BOOLEAN
    BY <1>2 DEF EditorTyped, EditorBounds
  <2> QED
    BY <1>2, <2>1, <2>2, <2>3, <2>4 DEF EditorTyped
<1> SUFFICES ASSUME s8' PROVE EditorOwn'
  BY <1>4 DEF EditorInv
<1>5. EditorOwn /\ s6 = <<>> /\ \A j \in s5 : j.what = "probe" /\ j.got = Editor!Junk
  BY <1>2 DEF Editor!Quiet, EditorInv, EditorTyped
<1>6. EditCalls' = {}
  BY <1>2, <1>5 DEF EditCalls, Items
<1>7. f.src.of = f.row /\ Editor!OfRows(s2)' /\ Editor!OfRows(s1)'
  BY <1>2, <1>3, <1>5 DEF EditorOwn, Editor!OfRows
<1>8. JobsOwn' /\ TextOwn' /\ (s4'.open => s4'.src.of = s4'.row)
  BY <1>2, <1>3, <1>5, <1>7, SyncOwn
<1>9. EditOf'
  <2>1. s4'.row = r /\ s4'.open
    BY <1>2, <1>3, Synced
  <2>2. r # -1
    BY DEF Editor!Rows, EditorBounds
  <2> QED
    BY <1>2, <2>1, <2>2 DEF EditOf
<1> QED
  BY <1>6, <1>7, <1>8, <1>9 DEF EditorOwn, CallsOwn, CallOwn

LEMMA ChooseViewStep ==
  ASSUME EditorBounds, EditorInv, NEW v \in Editor!Views, Editor!ChooseView(v)
  PROVE  EditorInv'
<1>1. PICK f : f = [s4 EXCEPT !.view = v]
  OBVIOUS
<1>2. /\ s4.open /\ ~s4.loading /\ Editor!Sync(f, Editor!Junk) /\ s7' = s7 + 1 /\ s7 < MaxActs
      /\ UNCHANGED <<s1, s2, s3, s6, s8>> /\ EditorTyped
  BY <1>1 DEF Editor!ChooseView, Editor!Act, EditorInv
<1>3. /\ f \in FormRecords /\ f.open /\ f.row = s4.row /\ f.src = s4.src
      /\ Editor!Junk \in Editor!Value /\ f.row \in Editor!Rows
  BY <1>1, <1>2 DEF EditorTyped, FormRecords, Editor!Junk, Editor!Value
<1>4. EditorTyped'
  <2>1. f.row \in Editor!Rows
    BY <1>2, <1>3
  <2>2. /\ s4' \in FormRecords /\ (s4'.job # 0) = s4'.loading
        /\ s5' \subseteq Editor!Job /\ \A j, k \in s5' : j.id = k.id => j = k
        /\ s4'.row = f.row
    BY <1>2, <1>3, <2>1, Synced
  <2>3. EditCalls' = EditCalls
    BY <1>2, CallsStay
  <2>4. s7' \in 0..MaxActs /\ s8' \in BOOLEAN
    BY <1>2 DEF EditorTyped, EditorBounds
  <2> QED
    BY <1>2, <2>1, <2>2, <2>3, <2>4 DEF EditorTyped
<1> SUFFICES ASSUME s8' PROVE EditorOwn'
  BY <1>4 DEF EditorInv
<1>5. EditorOwn
  BY <1>2 DEF EditorInv
<1>6. ASSUME NEW j \in s5 PROVE j.what # "decode"
  BY <1>2, <1>5 DEF EditorTyped, EditorOwn, JobsOwn, JobOwn, Editor!Job, Editor!Ids
<1>7. JobsOwn' /\ TextOwn' /\ (s4'.open => s4'.src.of = s4'.row)
  BY <1>2, <1>3, <1>5, <1>6, SyncOwn DEF EditorOwn, JobsOwn, JobOwn
<1>8. s4'.open = s4.open /\ s4'.row = s4.row /\ EditCalls' = EditCalls
  BY <1>2, <1>3, Synced, CallsStay
<1>9. EditOf' /\ CallsOwn'
  BY <1>2, <1>5, <1>8 DEF EditorOwn, EditOf, CallsOwn, CallOwn
<1> QED
  BY <1>2, <1>5, <1>7, <1>9 DEF EditorOwn, Editor!OfRows

LEMMA CodecsStep == ASSUME EditorBounds, EditorInv, Editor!CodecsChange PROVE EditorInv'
<1>1. PICK f : f = [s4 EXCEPT !.view = "auto"]
  OBVIOUS
<1>2. /\ s4.open /\ Editor!Sync(f, Editor!Junk) /\ s7' = s7 + 1 /\ s7 < MaxActs
      /\ s8' = (s8 /\ Editor!Quiet)
      /\ UNCHANGED <<s1, s2, s3, s6>> /\ EditorTyped
  BY <1>1 DEF Editor!CodecsChange, Editor!Act, EditorInv
<1>3. /\ f \in FormRecords /\ f.open /\ f.row = s4.row /\ f.src = s4.src
      /\ Editor!Junk \in Editor!Value /\ f.row \in Editor!Rows
  <2>1. s4 \in FormRecords /\ "auto" \in Editor!Views /\ (s4.open => s4.row \in Editor!Rows)
    BY <1>2 DEF EditorTyped, Editor!Views
  <2>2. f \in FormRecords /\ f.open = s4.open /\ f.row = s4.row /\ f.src = s4.src
    BY <1>1, <2>1 DEF FormRecords
  <2>3. Editor!Junk \in Editor!Value
    BY DEF Editor!Junk, Editor!Value
  <2> QED
    BY <1>2, <2>1, <2>2, <2>3
<1>4. EditorTyped'
  <2>1. f.row \in Editor!Rows
    BY <1>2, <1>3
  <2>2. /\ s4' \in FormRecords /\ (s4'.job # 0) = s4'.loading
        /\ s5' \subseteq Editor!Job /\ \A j, k \in s5' : j.id = k.id => j = k
        /\ s4'.row = f.row
    BY <1>2, <1>3, <2>1, Synced
  <2>3. EditCalls' = EditCalls
    BY <1>2, CallsStay
  <2>4. s7' \in 0..MaxActs /\ s8' \in BOOLEAN
    BY <1>2 DEF EditorTyped, EditorBounds
  <2> QED
    BY <1>2, <2>1, <2>2, <2>3, <2>4 DEF EditorTyped
<1> SUFFICES ASSUME s8' PROVE EditorOwn'
  BY <1>4 DEF EditorInv
<1>5. EditorOwn /\ \A j \in s5 : j.what = "probe" /\ j.got = Editor!Junk
  BY <1>2 DEF Editor!Quiet, EditorInv, EditorTyped
<1>7. JobsOwn' /\ TextOwn' /\ (s4'.open => s4'.src.of = s4'.row)
  BY <1>2, <1>3, <1>5, SyncOwn DEF EditorOwn
<1>8. s4'.open = s4.open /\ s4'.row = s4.row /\ EditCalls' = EditCalls
  BY <1>2, <1>3, Synced, CallsStay
<1>9. EditOf' /\ CallsOwn'
  BY <1>2, <1>5, <1>8 DEF EditorOwn, EditOf, CallsOwn, CallOwn
<1> QED
  BY <1>2, <1>5, <1>7, <1>9 DEF EditorOwn, Editor!OfRows
\* The value of a row comes back to the panel.
LEMMA PanelBackStep ==
  ASSUME EditorBounds, EditorInv, NEW i \in DOMAIN s6, Editor!PanelBack(i)
  PROVE  EditorInv'
<1>1. PICK c : c = s6[i]
  OBVIOUS
<1>2. /\ c.what = "panel" /\ s6' = Editor!RemoveAt(s6, i) /\ EditorTyped
      /\ UNCHANGED <<s1, s3, s7>>
  BY <1>1 DEF Editor!PanelBack, Editor!Back, EditorInv
<1>3. /\ s6' \in Seq(Editor!Call) /\ EditCalls' \subseteq EditCalls /\ c \in EditCalls
      /\ c \in Editor!Call
      /\ \A d \in EditCalls : d = c \/ d \in EditCalls'
  BY <1>1, <1>2, CallRemoved DEF EditorTyped, EditCalls
<1>4. /\ s4.row \in Editor!Rows /\ c.row \in Editor!Rows /\ c.val \in Editor!Value
      /\ Editor!Junk \in Editor!Value
  BY <1>2, <1>3 DEF EditorTyped, Editor!Call, Editor!Junk, Editor!Value
<1>5. CASE c.st = "failed"
  <2>1. s4' = [s4 EXCEPT !.refreshing = FALSE] /\ UNCHANGED <<s2, s5, s8>>
    BY <1>1, <1>5 DEF Editor!PanelBack, Editor!Back
  <2>2. /\ s4' \in FormRecords /\ s4'.open = s4.open /\ s4'.row = s4.row /\ s4'.src = s4.src
        /\ s4'.view = s4.view /\ s4'.hit = s4.hit /\ s4'.text = s4.text
        /\ s4'.typed = s4.typed /\ s4'.loading = s4.loading /\ s4'.failed = s4.failed
        /\ s4'.job = s4.job
    BY <2>1 DEF EditorInv, EditorTyped, FormRecords
  <2>3. EditorTyped'
    BY <1>2, <1>3, <2>1, <2>2 DEF EditorTyped
  <2> SUFFICES ASSUME s8' PROVE EditorOwn'
    BY <2>3 DEF EditorInv
  <2>4. EditorOwn
    BY <2>1 DEF EditorInv
  <2>5. EditOf' /\ CallsOwn' /\ JobsOwn' /\ TextOwn'
    BY <1>2, <1>3, <2>1, <2>2, <2>4
       DEF EditorOwn, EditOf, CallsOwn, CallOwn, JobsOwn, JobOwn, TextOwn, Editor!Effective
  <2> QED
    BY <1>2, <2>1, <2>2, <2>4, <2>5 DEF EditorOwn, Editor!OfRows
<1>6. CASE c.st # "failed"
  <2>2. PICK g, got : /\ \/ g = [s4 EXCEPT !.src = c.val]
                         \/ g = [[s4 EXCEPT !.src = c.val] EXCEPT !.refreshing = FALSE]
                      /\ got \in {c.val, Editor!Junk} /\ Editor!Sync(g, got)
                      /\ s2' \in {s2, Editor!Applied(c.val, s3.row)} /\ c.st = "done"
                      /\ s8' = (s8 /\ \A j \in s5 : j.what # "decode")
    BY <1>1, <1>6 DEF Editor!PanelBack, Editor!Back
  <2>3. /\ g \in FormRecords /\ g.open = s4.open /\ g.row = s4.row /\ g.src = c.val
        /\ g.view = s4.view /\ got \in Editor!Value
    BY <1>2, <1>4, <2>2, ZenonT(30) DEF EditorTyped, FormRecords
  <2>4. /\ s4' \in FormRecords /\ (s4'.job # 0) = s4'.loading
        /\ s5' \subseteq Editor!Job /\ \A j, k \in s5' : j.id = k.id => j = k
        /\ s4'.open = g.open /\ s4'.row = g.row
    BY <1>2, <1>4, <2>2, <2>3, Synced
  <2>5. s2' \in [Editor!Rows -> Editor!Value]
    BY <1>2, <1>4, <2>2, AppliedTyped DEF EditorTyped
  <2>6. EditorTyped'
    BY <1>2, <1>3, <1>4, <2>2, <2>3, <2>4, <2>5 DEF EditorTyped
  <2> SUFFICES ASSUME s8' PROVE EditorOwn'
    BY <2>6 DEF EditorInv
  <2>7. EditorOwn /\ \A j \in s5 : j.what # "decode"
    BY <1>2, <2>2 DEF EditorInv, EditorTyped
  <2>8. c.val.of = c.row /\ (s3.row # -1 => c.val.of = s4.row)
    BY <1>2, <1>3, <1>4, <2>2, <2>7
       DEF EditorOwn, CallsOwn, CallOwn, Editor!Place, Editor!Rows, EditorBounds
  <2>9. JobsOwn' /\ TextOwn' /\ (s4'.open => s4'.src.of = s4'.row)
    <3>1. g.open => g.src.of = g.row
      BY <2>3, <2>7, <2>8 DEF EditorOwn, EditOf
    <3>2. got # Editor!Junk => got.of \in Editor!Rows /\ (s3'.row # -1 => got.of = g.row)
      BY <1>2, <1>4, <2>2, <2>3, <2>8
    <3>3. /\ g.row \in Editor!Rows /\ g \in FormRecords /\ got \in Editor!Value
          /\ Editor!Sync(g, got) /\ EditorTyped
      BY <1>2, <1>4, <2>2, <2>3
    <3>4. \A j \in s5 :
             /\ j.what # "decode"
             /\ j.what = "encode" => /\ j.text.val.of = j.row /\ j.text.view = "codec" /\ j.got = Editor!Junk
                                     /\ s3'.row # -1 => j.row = g.row
             /\ j.got # Editor!Junk => j.got.of \in Editor!Rows /\ (s3'.row # -1 => j.got.of = g.row)
      BY <1>2, <2>3, <2>7 DEF EditorOwn, JobsOwn, JobOwn
    <3> QED
      BY <3>1, <3>2, <3>3, <3>4, SyncOwn
  <2>10. EditOf' /\ CallsOwn'
    BY <1>2, <1>3, <2>3, <2>4, <2>7 DEF EditorOwn, EditOf, CallsOwn, CallOwn
  <2>11. Editor!OfRows(s2')
    BY <1>2, <1>4, <2>2, <2>7, <2>8, AppliedOwn DEF EditorOwn
  <2> QED
    BY <1>2, <2>7, <2>9, <2>10, <2>11 DEF EditorOwn, Editor!OfRows
<1> QED
  BY <1>5, <1>6

-----------------------------------------------------------------------------
\* A codec ends: nothing else in its job waits for it.
LEMMA ProbedStep ==
  ASSUME EditorBounds, EditorInv, NEW j \in s5, NEW hit \in BOOLEAN, Editor!Probed(j, hit)
  PROVE  EditorInv'
<1>1. /\ j.what = "probe" /\ s5' = s5 \ {j} /\ Editor!GoOn(j.got) /\ EditorTyped
      /\ UNCHANGED <<s1, s3, s6, s7, s8>>
  BY DEF Editor!Probed, EditorInv
<1>2. j \in Editor!Job /\ j.got \in Editor!Value /\ j.id # 0 /\ EditCalls' = EditCalls
  BY <1>1, CallsStay DEF EditorTyped, Editor!Job, Editor!Ids
<1>3. s2' \in {s2, Editor!Applied(j.got, s3.row)} /\ (j.got = Editor!Junk => s2' = s2)
  BY <1>1 DEF Editor!GoOn
<1>4. s2' \in [Editor!Rows -> Editor!Value]
  BY <1>1, <1>2, <1>3, AppliedTyped DEF EditorTyped
<1>5. PICK f : f = Editor!Refreshed(s4, j.got)
  OBVIOUS
<1>6. /\ f \in FormRecords /\ f.open = s4.open /\ f.row = s4.row /\ f.src = s4.src
      /\ f.view = s4.view /\ f.hit = s4.hit /\ f.text = s4.text
      /\ f.typed = s4.typed /\ f.loading = s4.loading /\ f.failed = s4.failed
      /\ f.job = s4.job
  BY <1>1, <1>5, ZenonT(30) DEF Editor!Refreshed, EditorTyped, FormRecords
<1>7. PICK text : text = [j.text EXCEPT !.view = IF hit THEN @ ELSE Editor!BuiltIn(j.text.val)]
  OBVIOUS
<1>8. /\ text \in Editor!Text /\ text.val = j.text.val
      /\ text.view = IF hit THEN j.text.view ELSE Editor!BuiltIn(j.text.val)
  BY <1>2, <1>7 DEF Editor!Job, Editor!Text, Editor!BuiltIn
<1>9. s4' = IF ~Editor!Current(j) THEN f
              ELSE [Editor!Done(f) EXCEPT !.hit = hit, !.typed = FALSE, !.failed = FALSE, !.text = text]
  BY <1>5, <1>7 DEF Editor!Probed
<1>10. /\ s4' \in FormRecords /\ s4'.open = s4.open /\ s4'.row = s4.row
       /\ s4'.src = s4.src /\ s4'.view = s4.view
       /\ s4.job # j.id => s4' = f
       /\ s4.job = j.id => /\ s4'.job = 0 /\ s4'.loading = FALSE /\ s4'.hit = hit
                           /\ s4'.text = text /\ ~s4'.typed
  <2>1. CASE s4.job # j.id
    BY <1>6, <1>9, <2>1 DEF Editor!Current
  <2>2. CASE s4.job = j.id
    <3>1. PICK d : d = [f EXCEPT !.loading = FALSE, !.job = 0]
      OBVIOUS
    <3>2. /\ d \in FormRecords /\ d.open = s4.open /\ d.row = s4.row /\ d.src = s4.src
          /\ d.view = s4.view /\ d.job = 0 /\ d.loading = FALSE
      BY <1>6, <3>1 DEF FormRecords
    <3>3. s4' = [d EXCEPT !.hit = hit, !.typed = FALSE, !.failed = FALSE, !.text = text]
      BY <1>9, <2>2, <3>1 DEF Editor!Current, Editor!Done
    <3> QED
      BY <1>8, <2>2, <3>2, <3>3 DEF FormRecords
  <2> QED
    BY <2>1, <2>2
<1>11. (s4'.job # 0) = s4'.loading
  BY <1>1, <1>6, <1>10 DEF EditorTyped
<1>12. EditorTyped'
  BY <1>1, <1>2, <1>4, <1>10, <1>11 DEF EditorTyped
<1> SUFFICES ASSUME s8' PROVE EditorOwn'
  BY <1>12 DEF EditorInv
<1>13. EditorOwn
  BY <1>1 DEF EditorInv
<1>14. EditOf' /\ CallsOwn'
  BY <1>1, <1>2, <1>10, <1>13 DEF EditorOwn, EditOf, CallsOwn, CallOwn
<1>15. JobsOwn'
  <2> SUFFICES ASSUME NEW k \in s5' PROVE JobOwn(k)'
    BY DEF JobsOwn
  <2>1. k \in s5 /\ JobOwn(k) /\ k.id # j.id /\ k.id # 0
    BY <1>1, <1>13 DEF EditorOwn, JobsOwn, EditorTyped, Editor!Job, Editor!Ids
  <2>2. s4'.job \in {s4.job, 0} /\ (s4'.job = 0 => s4.job \in {0, j.id})
    BY <1>6, <1>10
  <2> QED
    BY <1>1, <1>10, <2>1, <2>2 DEF JobOwn
<1>16. TextOwn'
  <2>1. CASE s4.job # j.id
    BY <1>6, <1>10, <1>13, <2>1 DEF EditorOwn, TextOwn, Editor!Effective
  <2>2. CASE s4.job = j.id
    <3>1. j.text = [val |-> s4.src, view |-> "codec"] /\ s4.view = "auto"
      BY <1>1, <1>13, <2>2 DEF EditorOwn, JobsOwn, JobOwn
    <3>2. text.val = s4.src /\ text.view = Editor!Effective(s4')
      BY <1>8, <1>10, <2>2, <3>1 DEF Editor!Effective
    <3> QED
      BY <1>10, <1>13, <2>2, <3>2 DEF EditorOwn, TextOwn
  <2> QED
    BY <2>1, <2>2
<1>17. Editor!OfRows(s2')
  <2>1. j.got # Editor!Junk => (s3.row # -1 => j.got.of = s4.row)
    BY <1>13 DEF EditorOwn, JobsOwn, JobOwn
  <2> QED
    BY <1>1, <1>2, <1>3, <1>13, <2>1, AppliedOwn DEF EditorOwn
<1> QED
  BY <1>1, <1>10, <1>13, <1>14, <1>15, <1>16, <1>17 DEF EditorOwn, Editor!OfRows
LEMMA DecodedStep ==
  ASSUME EditorBounds, EditorInv, NEW j \in s5, NEW ok \in BOOLEAN, Editor!Decoded(j, ok)
  PROVE  EditorInv'
<1>1. /\ j.what = "decode" /\ s5' = s5 \ {j} /\ Editor!GoOn(j.got) /\ EditorTyped
      /\ UNCHANGED <<s1, s3, s6, s7, s8>>
  BY DEF Editor!Decoded, EditorInv
<1>2. /\ j \in Editor!Job /\ j.got \in Editor!Value /\ j.text \in Editor!Text /\ j.id # 0
      /\ EditCalls' = EditCalls
  BY <1>1, CallsStay DEF EditorTyped, Editor!Job, Editor!Ids
<1>3. s2' \in {s2, Editor!Applied(j.got, s3.row)} /\ (j.got = Editor!Junk => s2' = s2)
  BY <1>1 DEF Editor!GoOn
<1>4. s2' \in [Editor!Rows -> Editor!Value]
  BY <1>1, <1>2, <1>3, AppliedTyped DEF EditorTyped
<1>5. PICK r : r = Editor!Refreshed(s4, j.got)
  OBVIOUS
<1>6. /\ r \in FormRecords /\ r.open = s4.open /\ r.row = s4.row /\ r.src = s4.src
      /\ r.view = s4.view /\ r.hit = s4.hit /\ r.loading = s4.loading /\ r.job = s4.job
  BY <1>1, <1>5 DEF Editor!Refreshed, EditorTyped, FormRecords
<1>7. PICK text : text = IF ok THEN j.text ELSE Editor!NoText
  OBVIOUS
<1>8. text \in Editor!Text
  BY <1>2, <1>7 DEF Editor!Text, Editor!NoText, Editor!Value, Editor!Junk
<1>9. PICK f : f = [r EXCEPT !.text = text, !.typed = FALSE, !.failed = ~ok]
  OBVIOUS
<1>10. /\ f \in FormRecords /\ f.open = s4.open /\ f.row = s4.row /\ f.src = s4.src
       /\ f.view = s4.view /\ f.hit = s4.hit /\ f.loading = s4.loading /\ f.job = s4.job
       /\ f.text = text /\ ~f.typed /\ (f.failed <=> ~ok)
  BY <1>6, <1>8, <1>9 DEF FormRecords
<1>11. s4' = IF Editor!Current(j) THEN [f EXCEPT !.loading = FALSE, !.job = 0] ELSE f
  BY <1>5, <1>7, <1>9 DEF Editor!Decoded, Editor!Done
<1>12. /\ s4' \in FormRecords /\ s4'.open = s4.open /\ s4'.row = s4.row
       /\ s4'.src = s4.src /\ s4'.view = s4.view /\ s4'.hit = s4.hit
       /\ s4'.text = text /\ ~s4'.typed /\ (s4'.failed <=> ~ok)
       /\ s4.job # j.id => s4'.job = s4.job /\ s4'.loading = s4.loading
       /\ s4.job = j.id => s4'.job = 0 /\ s4'.loading = FALSE
  BY <1>10, <1>11 DEF FormRecords, Editor!Current
<1>13. (s4'.job # 0) = s4'.loading
  BY <1>1, <1>12 DEF EditorTyped
<1>14. EditorTyped'
  BY <1>1, <1>2, <1>4, <1>12, <1>13 DEF EditorTyped
<1> SUFFICES ASSUME s8' PROVE EditorOwn'
  BY <1>14 DEF EditorInv
<1>15. EditorOwn /\ s4.job = j.id
  BY <1>1 DEF EditorInv, EditorOwn, JobsOwn, JobOwn
<1>16. EditOf' /\ CallsOwn'
  BY <1>1, <1>2, <1>12, <1>15 DEF EditorOwn, EditOf, CallsOwn, CallOwn
<1>17. JobsOwn'
  <2> SUFFICES ASSUME NEW k \in s5' PROVE JobOwn(k)'
    BY DEF JobsOwn
  <2>1. k \in s5 /\ JobOwn(k) /\ k.id # j.id /\ k.id # 0
    BY <1>1, <1>15 DEF EditorOwn, JobsOwn, EditorTyped, Editor!Job, Editor!Ids
  <2> QED
    BY <1>1, <1>12, <1>15, <2>1 DEF JobOwn
<1>18. TextOwn'
  <2>1. j.text = [val |-> s4.src, view |-> "codec"] /\ s4.view = "codec"
    BY <1>1, <1>15 DEF EditorOwn, JobsOwn, JobOwn
  <2> QED
    BY <1>7, <1>12, <1>15, <2>1 DEF EditorOwn, TextOwn, Editor!Effective
<1>19. Editor!OfRows(s2')
  <2>1. j.got # Editor!Junk => (s3.row # -1 => j.got.of = s4.row)
    BY <1>15 DEF EditorOwn, JobsOwn, JobOwn
  <2> QED
    BY <1>1, <1>2, <1>3, <1>15, <2>1, AppliedOwn DEF EditorOwn
<1> QED
  BY <1>1, <1>12, <1>15, <1>16, <1>17, <1>18, <1>19 DEF EditorOwn, Editor!OfRows

\* A step that leaves the form as it is but for its being open, saved or refreshed.
FormKept ==
  /\ s4' \in FormRecords /\ s4'.row = s4.row /\ s4'.src = s4.src
  /\ s4'.view = s4.view /\ s4'.hit = s4.hit /\ s4'.text = s4.text
  /\ s4'.typed = s4.typed /\ s4'.loading = s4.loading /\ s4'.failed = s4.failed
  /\ s4'.job = s4.job /\ (s4'.open => s4.open)

LEMMA KeptForms ==
  ASSUME EditorTyped,
         \/ UNCHANGED s4 \/ s4' = Editor!Closed(s4)
         \/ \E b \in BOOLEAN : \/ s4' = [s4 EXCEPT !.saving = b] \/ s4' = [s4 EXCEPT !.refreshing = b]
                             \/ s4' = [Editor!Closed(s4) EXCEPT !.saving = b]
  PROVE  FormKept
<1> s4 \in FormRecords
  BY DEF EditorTyped
<1>1. CASE UNCHANGED s4
  BY <1>1 DEF FormKept
<1>2. CASE s4' = Editor!Closed(s4)
  BY <1>2 DEF FormKept, FormRecords, Editor!Closed
<1>3. ASSUME NEW b \in BOOLEAN, \/ s4' = [s4 EXCEPT !.saving = b] \/ s4' = [s4 EXCEPT !.refreshing = b]
      PROVE FormKept
  BY <1>3 DEF FormKept, FormRecords
<1>4. ASSUME NEW b \in BOOLEAN, s4' = [Editor!Closed(s4) EXCEPT !.saving = b] PROVE FormKept
  <2>1. PICK f : f = [s4 EXCEPT !.open = FALSE]
    OBVIOUS
  <2>2. /\ f \in FormRecords /\ f.row = s4.row /\ f.src = s4.src
        /\ f.view = s4.view /\ f.hit = s4.hit /\ f.text = s4.text
        /\ f.typed = s4.typed /\ f.loading = s4.loading /\ f.failed = s4.failed
        /\ f.job = s4.job /\ ~f.open
    BY <2>1 DEF FormRecords
  <2>3. s4' = [f EXCEPT !.saving = b]
    BY <1>4, <2>1 DEF Editor!Closed
  <2> QED
    BY <2>2, <2>3 DEF FormKept, FormRecords
<1> QED
  BY <1>1, <1>2, <1>3, <1>4

\* Such a step keeps what codecs and texts are about, if no row is opened.
LEMMA KeptOwn ==
  ASSUME EditorTyped, FormKept, s3'.row \in {s3.row, -1}, s5' \subseteq s5, JobsOwn, TextOwn
  PROVE  JobsOwn' /\ TextOwn'
BY DEF FormKept, JobsOwn, JobOwn, TextOwn, Editor!Effective

LEMMA KeptTyped ==
  ASSUME EditorTyped, FormKept, s5' \subseteq s5, s7' \in 0..MaxActs, s8' \in BOOLEAN,
         s1' \in [Editor!Rows -> Editor!Value], s2' \in [Editor!Rows -> Editor!Value],
         s3' \in [index : Editor!Rows \cup {-1}, row : Editor!Rows \cup {-1}],
         s6' \in Seq(Editor!Call),
         \A c \in EditCalls' : \/ c \in EditCalls
                               \/ /\ c.what # "saved" => c.row \in Editor!Rows
                                  /\ c.what = "panel" => s4.row \in Editor!Rows
  PROVE  EditorTyped'
<1>1. s4' \in FormRecords /\ (s4'.job # 0) = s4'.loading /\ (s4'.open => s4'.row \in Editor!Rows)
  BY DEF FormKept, EditorTyped
<1>2. s5' \subseteq Editor!Job /\ \A j, k \in s5' : j.id = k.id => j = k
  BY DEF EditorTyped
<1>3. \A c \in EditCalls' : /\ c.what # "saved" => c.row \in Editor!Rows
                         /\ (c.what = "panel" => s4'.row \in Editor!Rows)
  BY DEF FormKept, EditorTyped
<1> QED
  BY <1>1, <1>2, <1>3 DEF EditorTyped

-----------------------------------------------------------------------------
LEMMA TypeStep == ASSUME EditorBounds, EditorInv, Editor!Type PROVE EditorInv'
<1>1. PICK text : text = [val |-> Editor!Typed(s4.row), view |-> Editor!Effective(s4)]
  OBVIOUS
<1>2. /\ s4.open /\ ~s4.loading /\ s4' = [s4 EXCEPT !.typed = TRUE, !.text = text]
      /\ s7' = s7 + 1 /\ s7 < MaxActs
      /\ UNCHANGED <<s1, s2, s3, s5, s6, s8>> /\ EditorTyped
  BY <1>1 DEF Editor!Type, Editor!Act, EditorInv
<1>3. s4 \in FormRecords /\ Editor!Effective(s4) \in {"plain", "hex", "codec"}
  BY <1>2 DEF EditorTyped, FormRecords, Editor!Effective, Editor!BuiltIn, Editor!Views
<1>4. text \in Editor!Text /\ text.val.of = s4.row /\ text.view = Editor!Effective(s4)
  BY <1>1, <1>2, <1>3 DEF Editor!Text, Editor!Value, Editor!Typed, EditorTyped
<1>5. /\ s4' \in FormRecords /\ s4'.open = s4.open /\ s4'.row = s4.row /\ s4'.src = s4.src
      /\ s4'.view = s4.view /\ s4'.hit = s4.hit /\ s4'.text = text /\ s4'.typed
      /\ s4'.loading = s4.loading /\ s4'.failed = s4.failed /\ s4'.job = s4.job
  BY <1>2, <1>3, <1>4 DEF FormRecords
<1>6. EditCalls' = EditCalls
  BY <1>2, CallsStay
<1>7. EditorTyped'
  BY <1>2, <1>5, <1>6 DEF EditorTyped, EditorBounds
<1> SUFFICES ASSUME s8' PROVE EditorOwn'
  BY <1>7 DEF EditorInv
<1>8. EditorOwn
  BY <1>2 DEF EditorInv
<1>9. EditOf' /\ CallsOwn' /\ JobsOwn'
  BY <1>2, <1>5, <1>6, <1>8 DEF EditorOwn, EditOf, CallsOwn, CallOwn, JobsOwn, JobOwn
<1>10. TextOwn'
  BY <1>4, <1>5 DEF TextOwn, Editor!Effective
<1> QED
  BY <1>2, <1>5, <1>8, <1>9, <1>10 DEF EditorOwn, Editor!OfRows

LEMMA CloseStep == ASSUME EditorBounds, EditorInv, Editor!Close PROVE EditorInv'
<1>1. /\ s3' = [index |-> -1, row |-> -1] /\ s4' = Editor!Closed(s4) /\ s7' = s7 + 1 /\ s7 < MaxActs
      /\ UNCHANGED <<s1, s2, s5, s6, s8>> /\ EditorTyped
  BY DEF Editor!Close, Editor!Act, Editor!NoEdit, EditorInv
<1>2. FormKept /\ ~s4'.open /\ EditCalls' = EditCalls
  BY <1>1, KeptForms, CallsStay DEF Editor!Closed, EditorTyped, FormRecords
<1>3. EditorTyped'
  BY <1>1, <1>2, KeptTyped DEF EditorTyped, EditorBounds
<1> SUFFICES ASSUME s8' PROVE EditorOwn'
  BY <1>3 DEF EditorInv
<1>4. EditorOwn
  BY <1>1 DEF EditorInv
<1>5. JobsOwn' /\ TextOwn'
  BY <1>1, <1>2, <1>4, KeptOwn DEF EditorOwn
<1>6. EditOf' /\ CallsOwn'
  BY <1>1, <1>2, <1>4 DEF EditorOwn, EditOf, CallsOwn, CallOwn
<1> QED
  BY <1>1, <1>2, <1>4, <1>5, <1>6 DEF EditorOwn, Editor!OfRows

LEMMA OtherStep ==
  ASSUME EditorBounds, EditorInv, NEW r \in Editor!Rows, Editor!OtherWrites(r)
  PROVE  EditorInv'
<1>1. /\ s1' = [s1 EXCEPT ![r] = Editor!Others(r)]
      /\ UNCHANGED <<s2, s3, s4, s5, s6, s7, s8>> /\ EditorTyped
  BY DEF Editor!OtherWrites, EditorInv
<1>2. Editor!Others(r) \in Editor!Value /\ Editor!Others(r).of = r
  BY DEF Editor!Others, Editor!Value
<1>3. s1' \in [Editor!Rows -> Editor!Value] /\ (Editor!OfRows(s1) => Editor!OfRows(s1'))
  BY <1>1, <1>2 DEF EditorTyped, Editor!OfRows
<1>4. FormKept /\ EditCalls' = EditCalls
  BY <1>1, KeptForms, CallsStay
<1>5. EditorTyped'
  BY <1>1, <1>3, <1>4, KeptTyped DEF EditorTyped
<1> SUFFICES ASSUME s8' PROVE EditorOwn'
  BY <1>5 DEF EditorInv
<1>6. EditorOwn
  BY <1>1 DEF EditorInv
<1>7. JobsOwn' /\ TextOwn'
  BY <1>1, <1>4, <1>6, KeptOwn DEF EditorOwn
<1>8. EditOf' /\ CallsOwn'
  BY <1>1, <1>4, <1>6 DEF EditorOwn, EditOf, CallsOwn, CallOwn
<1> QED
  BY <1>1, <1>3, <1>6, <1>7, <1>8 DEF EditorOwn, Editor!OfRows
LEMMA RefreshFieldStep == ASSUME EditorBounds, EditorInv, Editor!RefreshField PROVE EditorInv'
<1>1. PICK c : c = [what |-> "panel", row |-> s4.row, val |-> Editor!Junk, st |-> "asked"]
  OBVIOUS
<1>2. /\ s4.open /\ s6' = Append(s6, c) /\ s4' = [s4 EXCEPT !.refreshing = TRUE]
      /\ s7' = s7 + 1 /\ s7 < MaxActs
      /\ UNCHANGED <<s1, s2, s3, s5, s8>> /\ EditorTyped
  BY <1>1 DEF Editor!RefreshField, Editor!Ask, Editor!Act, EditorInv
<1>3. c \in Editor!Call /\ c.row \in Editor!Rows
  BY <1>1, <1>2 DEF EditorTyped, Editor!Call, Editor!Junk, Editor!Value
<1>4. s6' \in Seq(Editor!Call) /\ EditCalls' = EditCalls \cup {c}
  BY <1>2, <1>3, CallAdded DEF EditCalls, EditorTyped
<1>5. FormKept /\ s4'.open = s4.open
  BY <1>2, KeptForms DEF EditorTyped, FormRecords
<1>6. EditorTyped'
  BY <1>1, <1>2, <1>3, <1>4, <1>5, KeptTyped DEF EditorTyped, EditorBounds
<1> SUFFICES ASSUME s8' PROVE EditorOwn'
  BY <1>6 DEF EditorInv
<1>7. EditorOwn
  BY <1>2 DEF EditorInv
<1>8. JobsOwn' /\ TextOwn'
  BY <1>2, <1>5, <1>7, KeptOwn DEF EditorOwn
<1>9. EditOf' /\ CallsOwn'
  BY <1>1, <1>2, <1>4, <1>5, <1>7 DEF EditorOwn, EditOf, CallsOwn, CallOwn, FormKept
<1> QED
  BY <1>2, <1>5, <1>7, <1>8, <1>9 DEF EditorOwn, Editor!OfRows, FormKept

LEMMA RefreshRowStep ==
  ASSUME EditorBounds, EditorInv, NEW r \in Editor!Rows, Editor!RefreshRow(r)
  PROVE  EditorInv'
<1>1. PICK c : c = [what |-> "row", row |-> r, val |-> Editor!Junk, st |-> "asked"]
  OBVIOUS
<1>2. /\ s3' = [s3 EXCEPT !.index = r] /\ s6' = Append(s6, c) /\ s7' = s7 + 1 /\ s7 < MaxActs
      /\ s8' = (s8 /\ Editor!Quiet /\ ~s4.open)
      /\ UNCHANGED <<s1, s2, s4, s5>> /\ EditorTyped
  BY <1>1 DEF Editor!RefreshRow, Editor!Ask, Editor!Act, EditorInv
<1>3. c \in Editor!Call
  BY <1>1 DEF Editor!Call, Editor!Junk, Editor!Value
<1>4. s6' \in Seq(Editor!Call) /\ EditCalls' = EditCalls \cup {c}
  BY <1>2, <1>3, CallAdded DEF EditCalls, EditorTyped
<1>5. FormKept
  BY <1>2, KeptForms
<1>6. /\ s3' \in [index : Editor!Rows \cup {-1}, row : Editor!Rows \cup {-1}] /\ s3'.index = r
      /\ s3'.row = s3.row
  BY <1>2 DEF EditorTyped
<1>7. EditorTyped'
  BY <1>1, <1>2, <1>4, <1>5, <1>6, KeptTyped DEF EditorTyped, EditorBounds
<1> SUFFICES ASSUME s8' PROVE EditorOwn'
  BY <1>7 DEF EditorInv
<1>8. EditorOwn /\ ~s4.open /\ s6 = <<>>
  BY <1>2 DEF EditorInv, EditorTyped, Editor!Quiet
<1>9. EditCalls = {} /\ s3.row = -1
  BY <1>8 DEF EditCalls, Items, EditorOwn, EditOf
<1>10. JobsOwn' /\ TextOwn'
  BY <1>2, <1>5, <1>6, <1>8, KeptOwn DEF EditorOwn
<1>11. EditOf' /\ CallsOwn'
  BY <1>1, <1>2, <1>4, <1>6, <1>8, <1>9 DEF EditOf, CallsOwn, CallOwn
<1> QED
  BY <1>2, <1>8, <1>10, <1>11 DEF EditorOwn, Editor!OfRows

\* What is saved is of the row that it is saved for.
LEMMA SubmitStep == ASSUME EditorBounds, EditorInv, Editor!Submit PROVE EditorInv'
<1>1. /\ s4.open /\ ~s4.loading /\ ~s4.failed /\ s7' = s7 + 1 /\ s7 < MaxActs
      /\ UNCHANGED <<s1, s2, s3, s8>> /\ EditorTyped
  BY DEF Editor!Submit, Editor!Act, EditorInv
<1>2. /\ s4 \in FormRecords /\ s4.row \in Editor!Rows /\ Editor!Junk \in Editor!Value
      /\ s7' \in 0..MaxActs
  BY <1>1 DEF EditorTyped, Editor!Junk, Editor!Value, EditorBounds
<1>3. s8 => EditorOwn /\ s4.text.view = Editor!Effective(s4) /\ s4.text.val.of = s4.row
  BY <1>1 DEF EditorInv, EditorOwn, TextOwn
<1>4. CASE Editor!Effective(s4) = "codec"
  <2> DEFINE id == CHOOSE i \in Editor!FreeIds : TRUE
  <2> HIDE DEF id
  <2>1. PICK new : new = [id |-> id, what |-> "encode", row |-> s4.row, text |-> s4.text,
                            got |-> Editor!Junk]
    OBVIOUS
  <2>2. PICK old : old = [id |-> id, what |-> "encode", row |-> s4.row,
                          text |-> [val |-> s4.src, view |-> "codec"], got |-> Editor!Junk]
    OBVIOUS
  <2>3. /\ Editor!FreeIds # {} /\ s5' = s5 \cup {[old EXCEPT !.text = s4.text]}
        /\ UNCHANGED <<s4, s6>>
    BY <1>4, <2>2 DEF Editor!Submit, Editor!NewJob, id
  <2>4. [old EXCEPT !.text = s4.text] = new
    BY <2>1, <2>2
  <2>5. id \in Editor!Ids /\ id # 0 /\ \A k \in s5 : k.id # id
    BY <2>3 DEF Editor!FreeIds, Editor!Ids, EditorBounds, id
  <2>6. new \in Editor!Job /\ new.id = id
    BY <1>2, <2>1, <2>5 DEF Editor!Job, FormRecords
  <2>7. s5' = s5 \cup {new}
    BY <2>3, <2>4
  <2>8. s5' \subseteq Editor!Job /\ \A j, k \in s5' : j.id = k.id => j = k
    BY <1>1, <2>5, <2>6, <2>7 DEF EditorTyped
  <2>9. EditCalls' = EditCalls
    BY <2>3, CallsStay
  <2>10. EditorTyped'
    BY <1>1, <1>2, <2>3, <2>8, <2>9 DEF EditorTyped
  <2> SUFFICES ASSUME s8' PROVE EditorOwn'
    BY <2>10 DEF EditorInv
  <2>11. EditorOwn /\ s4.text.view = "codec" /\ s4.text.val.of = s4.row /\ s4.job = 0
    BY <1>1, <1>3, <1>4 DEF EditorTyped
  <2>12. JobOwn(new)'
    BY <1>1, <2>1, <2>3, <2>5, <2>6, <2>11 DEF JobOwn
  <2>13. \A j \in s5 : JobOwn(j)'
    BY <1>1, <2>3, <2>11 DEF EditorOwn, JobsOwn, JobOwn
  <2>14. EditOf' /\ CallsOwn' /\ TextOwn'
    BY <1>1, <2>3, <2>9, <2>11 DEF EditorOwn, EditOf, CallsOwn, CallOwn, TextOwn, Editor!Effective
  <2> QED
    BY <1>1, <2>3, <2>7, <2>11, <2>12, <2>13, <2>14 DEF EditorOwn, Editor!OfRows, JobsOwn
<1>5. CASE Editor!Effective(s4) # "codec"
  <2>1. PICK val : val = Editor!Bytes(s4.text, Editor!Effective(s4))
    OBVIOUS
  <2>2. PICK c : c = [what |-> "set", row |-> s4.row, val |-> val, st |-> "asked"]
    OBVIOUS
  <2>3. s6' = Append(s6, c) /\ s4' = [s4 EXCEPT !.saving = TRUE] /\ UNCHANGED s5
    BY <1>5, <2>1, <2>2 DEF Editor!Submit, Editor!Ask
  <2>4. val \in Editor!Value /\ c \in Editor!Call
    BY <1>2, <2>1, <2>2 DEF Editor!Bytes, FormRecords, Editor!Text, Editor!Call
  <2>5. s6' \in Seq(Editor!Call) /\ EditCalls' = EditCalls \cup {c}
    BY <1>1, <2>3, <2>4, CallAdded DEF EditCalls, EditorTyped
  <2>6. FormKept /\ s4'.open = s4.open
    BY <1>1, <1>2, <2>3, KeptForms DEF FormRecords
  <2>7. EditorTyped'
    BY <1>1, <1>2, <2>2, <2>3, <2>5, <2>6, KeptTyped DEF EditorTyped
  <2> SUFFICES ASSUME s8' PROVE EditorOwn'
    BY <2>7 DEF EditorInv
  <2>8. EditorOwn /\ val.of = s4.row
    BY <1>1, <1>3, <2>1 DEF Editor!Bytes
  <2>9. JobsOwn' /\ TextOwn'
    BY <1>1, <2>3, <2>6, <2>8, KeptOwn DEF EditorOwn
  <2>10. EditOf' /\ CallsOwn'
    BY <1>1, <2>2, <2>5, <2>6, <2>8 DEF EditorOwn, EditOf, CallsOwn, CallOwn, FormKept
  <2> QED
    BY <1>1, <2>6, <2>8, <2>9, <2>10 DEF EditorOwn, Editor!OfRows, FormKept
<1> QED
  BY <1>4, <1>5

LEMMA EncodedStep ==
  ASSUME EditorBounds, EditorInv, NEW j \in s5, NEW ok \in BOOLEAN, Editor!Encoded(j, ok)
  PROVE  EditorInv'
<1>1. /\ j.what = "encode" /\ s5' = s5 \ {j} /\ UNCHANGED <<s1, s2, s3, s7, s8>> /\ EditorTyped
  BY DEF Editor!Encoded, EditorInv
<1>2. j.row \in Editor!Rows /\ j.text \in Editor!Text /\ Editor!Junk \in Editor!Value
  BY <1>1 DEF EditorTyped, Editor!Job, Editor!Junk, Editor!Value
<1>3. CASE ~ok
  <2>1. UNCHANGED <<s4, s6>>
    BY <1>3 DEF Editor!Encoded
  <2>2. FormKept /\ EditCalls' = EditCalls
    BY <1>1, <2>1, KeptForms, CallsStay
  <2>3. EditorTyped'
    BY <1>1, <2>1, <2>2, KeptTyped DEF EditorTyped
  <2> SUFFICES ASSUME s8' PROVE EditorOwn'
    BY <2>3 DEF EditorInv
  <2>4. EditorOwn
    BY <1>1 DEF EditorInv
  <2>5. JobsOwn' /\ TextOwn'
    BY <1>1, <2>2, <2>4, KeptOwn DEF EditorOwn
  <2> QED
    BY <1>1, <2>1, <2>2, <2>4, <2>5 DEF EditorOwn, Editor!OfRows, EditOf, CallsOwn, CallOwn
<1>4. CASE ok
  <2>1. PICK val : val = Editor!Bytes(j.text, "codec")
    OBVIOUS
  <2>2. PICK c : c = [what |-> "set", row |-> j.row, val |-> val, st |-> "asked"]
    OBVIOUS
  <2>3. s6' = Append(s6, c) /\ s4' = [s4 EXCEPT !.saving = TRUE]
    BY <1>4, <2>1, <2>2 DEF Editor!Encoded, Editor!Ask
  <2>4. val \in Editor!Value /\ c \in Editor!Call
    BY <1>2, <2>1, <2>2 DEF Editor!Bytes, Editor!Text, Editor!Call
  <2>5. s6' \in Seq(Editor!Call) /\ EditCalls' = EditCalls \cup {c}
    BY <1>1, <2>3, <2>4, CallAdded DEF EditCalls, EditorTyped
  <2>6. FormKept /\ s4'.open = s4.open
    BY <1>1, <2>3, KeptForms DEF FormRecords, EditorTyped
  <2>7. EditorTyped'
    BY <1>1, <1>2, <2>2, <2>3, <2>5, <2>6, KeptTyped DEF EditorTyped
  <2> SUFFICES ASSUME s8' PROVE EditorOwn'
    BY <2>7 DEF EditorInv
  <2>8. EditorOwn /\ val.of = j.row /\ (s3.row # -1 => j.row = s4.row)
    BY <1>1, <2>1 DEF EditorInv, EditorOwn, JobsOwn, JobOwn, Editor!Bytes
  <2>9. JobsOwn' /\ TextOwn'
    BY <1>1, <2>6, <2>8, KeptOwn DEF EditorOwn
  <2>10. EditOf' /\ CallsOwn'
    BY <1>1, <2>2, <2>5, <2>6, <2>8 DEF EditorOwn, EditOf, CallsOwn, CallOwn, FormKept
  <2> QED
    BY <1>1, <2>6, <2>8, <2>9, <2>10 DEF EditorOwn, Editor!OfRows, FormKept
<1> QED
  BY <1>3, <1>4

-----------------------------------------------------------------------------
\* A call is served: what it reads is of the row that it asks for.
LEMMA ServedStep ==
  ASSUME EditorBounds, EditorInv, NEW i \in DOMAIN s6, Editor!Served(i)
  PROVE  EditorInv'
<1>1. PICK q : q = s6[i]
  OBVIOUS
<1>2. UNCHANGED <<s2, s3, s4, s5, s7, s8>> /\ EditorTyped
  BY DEF Editor!Served, EditorInv
<1>3. /\ q \in EditCalls /\ q \in Editor!Call
      /\ q.row = -1 \/ q.row \in Editor!Rows
      /\ Editor!Place(q.row) \in Editor!Rows
  <2>1. s6 \in Seq(Editor!Call)
    BY <1>2 DEF EditorTyped
  <2>2. q \in EditCalls /\ q \in Editor!Call
    BY <1>1, <2>1 DEF EditCalls, Items
  <2>3. q.row \in Editor!Rows \cup {-1}
    BY <2>2 DEF Editor!Call
  <2>4. Editor!Place(q.row) \in Editor!Rows
    BY <2>3 DEF Editor!Place, Editor!Rows, EditorBounds
  <2> QED
    BY <2>2, <2>3, <2>4
<1>4. PICK c : /\ c \in Editor!Call /\ s6' = [s6 EXCEPT ![i] = c] /\ c.what = q.what /\ c.row = q.row
               /\ \/ c.val = q.val /\ c.st = "failed" /\ s1' = s1
                  \/ /\ c.val = q.val /\ q.what = "set" /\ s1' = [s1 EXCEPT ![q.row] = q.val]
                  \/ c.val = s1[Editor!Place(q.row)] /\ q.what # "set" /\ s1' = s1
  <2>1. CASE s6' = [s6 EXCEPT ![i].st = "failed"] /\ UNCHANGED s1
    <3>1. PICK c : c = [q EXCEPT !.st = "failed"]
      OBVIOUS
    <3>2. s6' = [s6 EXCEPT ![i] = c]
      BY <1>1, <2>1, <3>1
    <3>3. c \in Editor!Call /\ c.what = q.what /\ c.row = q.row /\ c.val = q.val /\ c.st = "failed"
      BY <1>3, <3>1 DEF Editor!Call
    <3> QED
      BY <2>1, <3>2, <3>3
  <2>2. CASE /\ q.what = "set" /\ s1' = [s1 EXCEPT ![q.row] = q.val]
             /\ s6' = [s6 EXCEPT ![i].st = "done"]
    <3>1. PICK c : c = [q EXCEPT !.st = "done"]
      OBVIOUS
    <3>2. s6' = [s6 EXCEPT ![i] = c]
      BY <1>1, <2>2, <3>1
    <3>3. c \in Editor!Call /\ c.what = q.what /\ c.row = q.row /\ c.val = q.val
      BY <1>3, <3>1 DEF Editor!Call
    <3> QED
      BY <2>2, <3>2, <3>3
  <2>3. CASE /\ q.what # "set" /\ UNCHANGED s1
             /\ s6' = [s6 EXCEPT ![i].st = "done", ![i].val = s1[Editor!Place(q.row)]]
    <3> DEFINE val == s1[Editor!Place(q.row)]
    <3>1. PICK d : d = [q EXCEPT !.st = "done"]
      OBVIOUS
    <3>2. d \in Editor!Call /\ d.what = q.what /\ d.row = q.row
      BY <1>3, <3>1 DEF Editor!Call
    <3>3. PICK c : c = [d EXCEPT !.val = val]
      OBVIOUS
    <3>4. val \in Editor!Value
      BY <1>2, <1>3 DEF EditorTyped
    <3> HIDE DEF val
    <3>5. c \in Editor!Call /\ c.what = q.what /\ c.row = q.row /\ c.val = val
      BY <3>2, <3>3, <3>4 DEF Editor!Call
    <3>6. s6' = [s6 EXCEPT ![i] = c]
      <4>1. s6' = [[s6 EXCEPT ![i].st = "done"] EXCEPT ![i].val = val]
        BY <2>3 DEF val
      <4>2. [s6 EXCEPT ![i].st = "done"] = [s6 EXCEPT ![i] = d]
        BY <1>1, <3>1
      <4>3. [s6 EXCEPT ![i] = d][i] = d
        OBVIOUS
      <4>4. [[s6 EXCEPT ![i] = d] EXCEPT ![i].val = val] = [s6 EXCEPT ![i] = c]
        BY <3>3, <4>3
      <4> QED
        BY <4>1, <4>2, <4>4
    <3> QED
      BY <2>3, <3>5, <3>6 DEF val
  <2> QED
    BY <1>1, <2>1, <2>2, <2>3 DEF Editor!Served
<1>5. /\ s6' \in Seq(Editor!Call) /\ EditCalls' \subseteq EditCalls \cup {c} /\ c \in EditCalls'
      /\ \A d \in EditCalls : d = q \/ d \in EditCalls'
  BY <1>1, <1>2, <1>4, CallChanged DEF EditorTyped, EditCalls
<1>6. FormKept /\ s4'.open = s4.open
  BY <1>2, KeptForms
<1>7. s1' \in [Editor!Rows -> Editor!Value]
  BY <1>2, <1>3, <1>4 DEF EditorTyped, Editor!Call
<1>8. EditorTyped'
  BY <1>2, <1>3, <1>4, <1>5, <1>6, <1>7, KeptTyped DEF EditorTyped
<1> SUFFICES ASSUME s8' PROVE EditorOwn'
  BY <1>8 DEF EditorInv
<1>9. EditorOwn /\ CallOwn(q)
  BY <1>2, <1>3 DEF EditorInv, EditorOwn, CallsOwn
<1>10. Editor!OfRows(s1')
  BY <1>2, <1>3, <1>4, <1>9 DEF EditorOwn, Editor!OfRows, CallOwn, EditorTyped
<1>11. s1[Editor!Place(q.row)].of = Editor!Place(q.row)
  BY <1>3, <1>9 DEF EditorOwn, Editor!OfRows
<1>12. CallOwn(c)'
  BY <1>2, <1>4, <1>9, <1>11 DEF CallOwn
<1>13. CallsOwn'
  BY <1>2, <1>5, <1>9, <1>12 DEF EditorOwn, CallsOwn, CallOwn
<1>14. EditOf'
  BY <1>2, <1>4, <1>5, <1>9 DEF EditorOwn, EditOf
<1>15. JobsOwn' /\ TextOwn'
  BY <1>2, <1>6, <1>9, KeptOwn DEF EditorOwn
<1> QED
  BY <1>2, <1>9, <1>10, <1>13, <1>14, <1>15 DEF EditorOwn, Editor!OfRows

\* A panel that closes, with every row loaded again.
LEMMA ReloadOwn ==
  ASSUME EditorBounds, EditorTyped, EditorOwn, Editor!Reload,
         EditCalls' \subseteq EditCalls, s5' = s5, s1' = s1
  PROVE  EditorOwn'
<1>1. s2' = s1 /\ s3' = [index |-> -1, row |-> -1] /\ s4' = Editor!Closed(s4)
  BY DEF Editor!Reload, Editor!NoEdit
<1>2. FormKept /\ ~s4'.open
  BY <1>1, KeptForms DEF EditorTyped, FormRecords, Editor!Closed
<1>3. JobsOwn' /\ TextOwn'
  BY <1>1, <1>2, KeptOwn DEF EditorOwn
<1>4. EditOf' /\ CallsOwn'
  BY <1>1, <1>2 DEF EditorOwn, EditOf, CallsOwn, CallOwn
<1> QED
  BY <1>1, <1>2, <1>3, <1>4 DEF EditorOwn, Editor!OfRows

LEMMA RowBackStep ==
  ASSUME EditorBounds, EditorInv, NEW i \in DOMAIN s6, Editor!RowBack(i)
  PROVE  EditorInv'
<1>1. PICK c : c = s6[i]
  OBVIOUS
<1>2. /\ c.what = "row" /\ s6' = Editor!RemoveAt(s6, i) /\ EditorTyped
      /\ UNCHANGED <<s1, s5, s7, s8>>
      /\ \/ c.st = "done" /\ s2' = Editor!Applied(c.val, c.row) /\ UNCHANGED <<s3, s4>>
         \/ Editor!Reload
  BY <1>1 DEF Editor!RowBack, Editor!Back, EditorInv
<1>3. /\ s6' \in Seq(Editor!Call) /\ EditCalls' \subseteq EditCalls /\ c \in EditCalls
      /\ c \in Editor!Call
      /\ \A d \in EditCalls : d = c \/ d \in EditCalls'
  BY <1>1, <1>2, CallRemoved DEF EditorTyped, EditCalls
<1>4. c.row \in Editor!Rows /\ c.val \in Editor!Value
  BY <1>2, <1>3 DEF EditorTyped, Editor!Call
<1>5. CASE Editor!Reload
  <2>1. s2' = s1 /\ s3' = [index |-> -1, row |-> -1] /\ s4' = Editor!Closed(s4)
    BY <1>5 DEF Editor!Reload, Editor!NoEdit
  <2>2. FormKept
    BY <1>2, <2>1, KeptForms
  <2>3. EditorTyped'
    BY <1>2, <1>3, <2>1, <2>2, KeptTyped DEF EditorTyped
  <2> QED
    BY <1>2, <1>3, <1>5, <2>3, ReloadOwn DEF EditorInv
<1>6. CASE c.st = "done" /\ s2' = Editor!Applied(c.val, c.row) /\ UNCHANGED <<s3, s4>>
  <2>1. FormKept
    BY <1>2, <1>6, KeptForms
  <2>2. s2' \in [Editor!Rows -> Editor!Value]
    BY <1>2, <1>4, <1>6, AppliedTyped
  <2>3. EditorTyped'
    BY <1>2, <1>3, <1>6, <2>1, <2>2, KeptTyped DEF EditorTyped
  <2> SUFFICES ASSUME s8' PROVE EditorOwn'
    BY <2>3 DEF EditorInv
  <2>4. EditorOwn /\ CallOwn(c)
    BY <1>2, <1>3 DEF EditorInv, EditorOwn, CallsOwn
  <2>5. c.row # -1 /\ Editor!Place(c.row) = c.row /\ Editor!RowNow(c.row) = c.row
    BY <1>2, <1>4, <2>4 DEF CallOwn, Editor!Place, Editor!RowNow, Editor!Rows, EditorBounds
  <2>6. Editor!OfRows(s2')
    BY <1>2, <1>4, <1>6, <2>4, <2>5
       DEF EditorOwn, CallOwn, Editor!Applied, Editor!OfRows, EditorTyped
  <2>7. JobsOwn' /\ TextOwn'
    BY <1>2, <1>6, <2>1, <2>4, KeptOwn DEF EditorOwn
  <2>8. EditOf' /\ CallsOwn'
    BY <1>2, <1>3, <1>6, <2>4 DEF EditorOwn, EditOf, CallsOwn, CallOwn
  <2> QED
    BY <1>2, <1>6, <2>4, <2>6, <2>7, <2>8 DEF EditorOwn, Editor!OfRows
<1> QED
  BY <1>2, <1>5, <1>6

LEMMA SavedBackStep ==
  ASSUME EditorBounds, EditorInv, NEW i \in DOMAIN s6, Editor!SavedBack(i)
  PROVE  EditorInv'
<1>1. PICK c : c = s6[i]
  OBVIOUS
<1>2. /\ c.what = "saved" /\ s6' = Editor!RemoveAt(s6, i) /\ EditorTyped
      /\ UNCHANGED <<s1, s5, s7, s8>>
      /\ s3' = [index |-> -1, row |-> -1] /\ s4' = Editor!Closed(s4)
      /\ \/ c.st = "done" /\ s2' = Editor!Applied(c.val, s3.row)
         \/ Editor!Reload
  BY <1>1 DEF Editor!SavedBack, Editor!Back, EditorInv, Editor!Reload, Editor!NoEdit
<1>3. /\ s6' \in Seq(Editor!Call) /\ EditCalls' \subseteq EditCalls /\ c \in EditCalls
      /\ c \in Editor!Call
  BY <1>1, <1>2, CallRemoved DEF EditorTyped, EditCalls
<1>4. c.val \in Editor!Value
  BY <1>3 DEF Editor!Call
<1>5. FormKept /\ ~s4'.open
  <2>1. s4 \in FormRecords
    BY <1>2 DEF EditorTyped
  <2>2. ~s4'.open
    BY <1>2, <2>1 DEF FormRecords, Editor!Closed
  <2>3. FormKept
    BY <1>2, KeptForms
  <2> QED
    BY <2>2, <2>3
<1>6. s2' \in [Editor!Rows -> Editor!Value]
  <2>1. s1 \in [Editor!Rows -> Editor!Value]
    BY <1>2 DEF EditorTyped
  <2>2. Editor!Applied(c.val, s3.row) \in [Editor!Rows -> Editor!Value]
    <3>1. EditorTyped /\ s3.row \in Editor!Rows \cup {-1}
      BY <1>2 DEF EditorTyped
    <3> QED
      BY <1>4, <3>1, AppliedTyped
  <2> QED
    BY <1>2, <2>1, <2>2 DEF Editor!Reload
<1>7. EditorTyped'
  BY <1>2, <1>3, <1>5, <1>6, KeptTyped DEF EditorTyped
<1>8. CASE Editor!Reload
  BY <1>2, <1>3, <1>7, <1>8, ReloadOwn DEF EditorInv
<1>9. CASE c.st = "done" /\ s2' = Editor!Applied(c.val, s3.row)
  <2> SUFFICES ASSUME s8' PROVE EditorOwn'
    BY <1>7 DEF EditorInv
  <2>1. EditorOwn /\ CallOwn(c)
    BY <1>2, <1>3 DEF EditorInv, EditorOwn, CallsOwn
  <2>2. s3.row # -1 => c.val.of = s4.row
    BY <1>2, <1>9, <2>1 DEF EditorOwn, EditOf, CallOwn, Editor!Place, Editor!Rows, EditorBounds
  <2>3. Editor!OfRows(s2')
    BY <1>2, <1>4, <1>9, <2>1, <2>2, AppliedOwn DEF EditorOwn
  <2>4. JobsOwn' /\ TextOwn'
    BY <1>2, <1>5, <2>1, KeptOwn DEF EditorOwn
  <2>5. EditOf' /\ CallsOwn'
    BY <1>2, <1>3, <1>5, <2>1 DEF EditorOwn, EditOf, CallsOwn, CallOwn
  <2> QED
    BY <1>2, <1>5, <2>1, <2>3, <2>4, <2>5 DEF EditorOwn, Editor!OfRows
<1> QED
  BY <1>2, <1>8, <1>9

LEMMA SetBackStep ==
  ASSUME EditorBounds, EditorInv, NEW i \in DOMAIN s6, Editor!SetBack(i)
  PROVE  EditorInv'
<1>1. PICK c : c = s6[i]
  OBVIOUS
<1>2. PICK p : p = Editor!RemoveAt(s6, i)
  OBVIOUS
<1>3. PICK s : s = [what |-> "saved", row |-> s3.index, val |-> Editor!Junk, st |-> "asked"]
  OBVIOUS
<1>4. /\ c.what = "set" /\ EditorTyped /\ UNCHANGED <<s1, s2, s3, s5, s7, s8>>
      /\ \/ s6' = Append(p, s) /\ s4' = [Editor!Closed(s4) EXCEPT !.saving = FALSE]
         \/ s6' = p /\ s4' = [s4 EXCEPT !.saving = FALSE]
  BY <1>1, <1>2, <1>3 DEF Editor!SetBack, Editor!Back, EditorInv
<1>5. /\ p \in Seq(Editor!Call) /\ Items(p) \subseteq EditCalls /\ c \in EditCalls
      /\ \A d \in EditCalls : d = c \/ d \in Items(p)
  BY <1>1, <1>2, <1>4, CallRemoved DEF EditorTyped, EditCalls
<1>6. s \in Editor!Call
  BY <1>3, <1>4 DEF EditorTyped, Editor!Call, Editor!Junk, Editor!Value
<1>7. Append(p, s) \in Seq(Editor!Call) /\ Items(Append(p, s)) = Items(p) \cup {s}
  BY <1>5, <1>6, CallAdded
<1>8. FormKept
  BY <1>4, KeptForms
<1>9. /\ s6' \in Seq(Editor!Call)
      /\ \/ EditCalls' = Items(p) \cup {s} /\ ~s4'.open
         \/ EditCalls' = Items(p) /\ s4'.open = s4.open
  <2>1. CASE s6' = Append(p, s) /\ s4' = [Editor!Closed(s4) EXCEPT !.saving = FALSE]
    <3>1. PICK f : f = [s4 EXCEPT !.open = FALSE]
      OBVIOUS
    <3>2. f \in FormRecords /\ ~f.open
      BY <1>4, <3>1 DEF EditorTyped, FormRecords
    <3>3. s4' = [f EXCEPT !.saving = FALSE]
      BY <2>1, <3>1 DEF Editor!Closed
    <3>4. ~s4'.open
      BY <3>2, <3>3 DEF FormRecords
    <3> QED
      BY <1>7, <2>1, <3>4 DEF EditCalls
  <2>2. CASE s6' = p /\ s4' = [s4 EXCEPT !.saving = FALSE]
    BY <1>4, <1>5, <2>2 DEF EditCalls, EditorTyped, FormRecords
  <2> QED
    BY <1>4, <2>1, <2>2
<1>10. EditorTyped'
  BY <1>3, <1>4, <1>5, <1>8, <1>9, KeptTyped DEF EditorTyped
<1> SUFFICES ASSUME s8' PROVE EditorOwn'
  BY <1>10 DEF EditorInv
<1>11. EditorOwn
  BY <1>4 DEF EditorInv
<1>12. JobsOwn' /\ TextOwn'
  BY <1>4, <1>8, <1>11, KeptOwn DEF EditorOwn
<1>13. EditOf'
  BY <1>3, <1>4, <1>5, <1>8, <1>9, <1>11 DEF EditorOwn, EditOf, FormKept
<1>14. CallsOwn'
  BY <1>3, <1>4, <1>5, <1>8, <1>9, <1>11 DEF EditorOwn, EditOf, CallsOwn, CallOwn, FormKept
<1> QED
  BY <1>4, <1>8, <1>9, <1>11, <1>12, <1>13, <1>14 DEF EditorOwn, Editor!OfRows, FormKept

-----------------------------------------------------------------------------
LEMMA EditorInvInit == ASSUME EditorBounds, Editor!Init PROVE EditorInv
<1>1. /\ s1 = [r \in Editor!Rows |-> Editor!Own(r)] /\ s2 = s1 /\ s3 = Editor!NoEdit
      /\ s4 = Editor!NoForm
      /\ s5 = {} /\ s6 = <<>> /\ s7 = 0 /\ s8 = TRUE
  BY DEF Editor!Init
<1>2. /\ s4 \in FormRecords /\ ~s4.open /\ s4.job = 0 /\ s4.loading = FALSE
  BY <1>1 DEF Editor!NoForm, FormRecords, Editor!Rows, Editor!Views, Editor!Text, Editor!NoText,
              Editor!Junk, Editor!Value
<1>3. EditCalls = {} /\ s6 \in Seq(Editor!Call)
  BY <1>1 DEF EditCalls, Items
<1>4. s1 \in [Editor!Rows -> Editor!Value] /\ Editor!OfRows(s1)
  BY <1>1 DEF Editor!Own, Editor!Value, Editor!OfRows
<1>5. EditorTyped
  <2>1. /\ s3 \in [index : Editor!Rows \cup {-1}, row : Editor!Rows \cup {-1}]
        /\ s2 \in [Editor!Rows -> Editor!Value]
        /\ s5 \subseteq Editor!Job /\ s7 \in 0..MaxActs /\ s8 \in BOOLEAN
    BY <1>1, <1>4 DEF Editor!NoEdit, EditorBounds
  <2>2. /\ (s4.job # 0) = s4.loading /\ (s4.open => s4.row \in Editor!Rows)
        /\ \A j, k \in s5 : j.id = k.id => j = k
    BY <1>1, <1>2
  <2> QED
    BY <1>2, <1>3, <1>4, <2>1, <2>2 DEF EditorTyped
<1>6. EditorOwn
  BY <1>1, <1>2, <1>3, <1>4 DEF EditorOwn, EditOf, CallsOwn, JobsOwn, TextOwn, Editor!NoEdit
<1> QED
  BY <1>5, <1>6 DEF EditorInv

LEMMA EditorInvStep ==
  ASSUME EditorBounds, EditorInv, Editor!Next \/ UNCHANGED Editor!vars
  PROVE  EditorInv'
<1>1. CASE Editor!Next
  BY <1>1, OpenStep, RefreshRowStep, OtherStep, ChooseViewStep, CodecsStep, TypeStep, CloseStep,
     RefreshFieldStep, SubmitStep, ProbedStep, DecodedStep, EncodedStep, ServedStep, PanelBackStep,
     RowBackStep, SetBackStep, SavedBackStep DEF Editor!Next
<1>2. CASE UNCHANGED Editor!vars
  <2>1. /\ UNCHANGED <<s1, s2, s3, s4, s5, s6, s7, s8>>
    BY <1>2 DEF Editor!vars
  <2>2. EditCalls' = EditCalls
    BY <2>1, CallsStay
  <2> QED
    BY <2>1, <2>2 DEF EditorInv, EditorTyped, EditorOwn, EditOf, CallsOwn, CallOwn, JobsOwn,
                      JobOwn, TextOwn, Editor!Effective, Editor!OfRows
<1> QED
  BY <1>1, <1>2

LEMMA EditorSafe == ASSUME EditorBounds, EditorInv PROVE Editor!TypeOK /\ Editor!EditsItsOwn
<1>1. Editor!EditsItsOwn
  BY DEF EditorInv, EditorTyped, EditorOwn, Editor!EditsItsOwn, Editor!EditorShows, TextOwn,
         FormRecords, Editor!Text
<1>2. Cardinality({j.id : j \in s5}) = Cardinality(s5)
  <2> DEFINE ids == {j.id : j \in s5}
             job == [n \in ids |-> CHOOSE j \in s5 : j.id = n]
  <2>1. IsFiniteSet(ids)
    <3>1. ids \subseteq 1..MaxJobs /\ IsFiniteSet(1..MaxJobs)
      BY FS_Interval DEF EditorInv, EditorTyped, Editor!Job, Editor!Ids, EditorBounds
    <3> QED
      BY <3>1, FS_Subset
  <2>2. job \in Bijection(ids, s5)
    <3>1. \A n \in ids : job[n] \in s5 /\ job[n].id = n
      OBVIOUS
    <3>2. \A j \in s5 : j.id \in ids /\ job[j.id] = j
      BY <3>1 DEF EditorInv, EditorTyped
    <3> HIDE DEF job
    <3>3. job \in [ids -> s5]
      BY <3>1 DEF job
    <3> QED
      BY <3>1, <3>2, <3>3 DEF Bijection, Injection, Surjection, IsInjective
  <2> QED
    BY <2>1, <2>2, FS_Bijection DEF ExistsBijection
<1>3. Editor!Cardinality({j.id : j \in s5}) = Editor!Cardinality(s5)
  <2>1. \A S : Editor!Cardinality(S) = Cardinality(S)
    BY DEF Editor!Cardinality, Cardinality
  <2> QED
    BY <1>2, <2>1, Zenon
<1>4. Editor!TypeOK
  BY <1>3 DEF EditorInv, EditorTyped, FormRecords, Editor!TypeOK
<1> QED
  BY <1>1, <1>4

LEMMA EditorInit == Init => (part = "editor" => EditorInv)
BY PanelsAssumption, EditorInvInit DEF PanelsAssumption, EditorBounds, Init

LEMMA EditorStep ==
  ASSUME part = "editor" => EditorInv, [Next]_vars
  PROVE  (part = "editor" => EditorInv)'
<1> SUFFICES ASSUME part = "editor", EditorInv PROVE EditorInv'
  BY DEF Next, vars
<1>1. EditorBounds
  BY PanelsAssumption DEF PanelsAssumption, EditorBounds
<1>2. Editor!Next \/ UNCHANGED Editor!vars
  BY DEF Next, vars, Editor!vars
<1> QED
  BY <1>1, <1>2, EditorInvStep

\* The panel that edits a row shows that row, and neither the table nor the server gets in a row
\* what was shown or typed for another, for any number of rows, codecs, calls and steps of the
\* user: openFieldPanel, refreshField, submit and onFieldSetSuccess.
THEOREM EditsAreOwn == Spec => []EditsItsOwn
<1>1. (part = "editor" => EditorInv) => EditsItsOwn
  BY PanelsAssumption, EditorSafe DEF PanelsAssumption, EditorBounds, EditsItsOwn
<1>2. Spec => Init /\ [][Next]_vars
  BY DEF Spec
<1> QED
  BY <1>1, <1>2, EditorInit, EditorStep, PTL
=============================================================================
