---------------------------- MODULE PanelsProofs ----------------------------
(***************************************************************************)
(* The parts of Panels that are proved, for all values of the constants.   *)
(*                                                                         *)
(* A part's state is s1, s2 and so on here; each section says which        *)
(* variable of the part's own module is which.  Its lemmas are about the   *)
(* steps of Panels in which `part` is that part.                           *)
(***************************************************************************)
EXTENDS Panels, Sequences, FiniteSetTheorems, TLAPS

-----------------------------------------------------------------------------
(* The types of keys: the types remembered, and those shown, are those of the keys. *)

TypesBounds == MaxLife \in Nat /\ None \notin Keys

\* An edit under way names keys; a rename names two.
EditNames ==
  s5.st # "no" => /\ s5.kind \in {"delete", "rename"} => s5.key \in Keys
                  /\ s5.kind = "rename" => s5.new \in Keys /\ s5.new # s5.key

\* A TYPE that has been answered read the key as it is, unless an edit was served
\* while it was under way: such a key is set aside, and stays so.
CallFollows == \A k \in Keys :
  s3[k].st = "answered" /\ k \notin s6 => s3[k].life = s1[k]

\* A tag that is not mounted remembers nothing.
Unmounted == \A t \in Tags : s4[t].key = None => s4[t] = Types!NoTag

\* The key a served rename has overwritten is set aside.
Overwritten == s5.st = "answered" /\ s5.kind = "rename" => s5.new \in s6

TypesInv == Types!TypeOK /\ EditNames /\ Overwritten /\ Unmounted /\ CallFollows /\ Types!TypeFollows /\ Types!TagFollows

LEMMA TypesInvInit == ASSUME TypesBounds, Types!Init PROVE TypesInv
<1>1. /\ s1 = [k \in Keys |-> 0] /\ s2 = [k \in Keys |-> Types!Unread]
      /\ s3 = [k \in Keys |-> Types!NoCall] /\ s4 = [t \in Tags |-> Types!NoTag]
      /\ s5 = Types!NoEdit /\ s6 = {}
  BY DEF Types!Init
<1>2. Types!TypeOK
  BY <1>1 DEF Types!TypeOK, TypesBounds, Types!NoCall, Types!NoTag, Types!NoEdit, Types!Types, Types!Unread
<1>3. EditNames /\ Overwritten /\ Unmounted /\ CallFollows
  BY <1>1 DEF EditNames, Overwritten, Unmounted, CallFollows, Types!NoEdit, Types!NoCall
<1>4. Types!TypeFollows /\ Types!TagFollows
  BY <1>1 DEF Types!TypeFollows, Types!TagFollows, Types!NoTag
<1> QED
  BY <1>2, <1>3, <1>4 DEF TypesInv

\* What asking does: the call of the key, if any is needed, is under way.
LEMMA AskTyped ==
  ASSUME TypesBounds, Types!TypeOK, NEW k \in Keys
  PROVE  /\ Types!Ask(k) \in [Keys -> [st : {"no", "asked", "answered"}, life : 0..MaxLife]]
         /\ \A n \in Keys : s3[n].st # "no" => Types!Ask(k)[n] = s3[n]
         /\ \A n \in Keys : Types!Ask(k)[n].st = "answered" => Types!Ask(k)[n] = s3[n]
         /\ s2[k] = Types!Unread => Types!Ask(k)[k].st # "no"
BY DEF Types!TypeOK, Types!Ask

\* A tag that is given a key shows its type, or waits for it.
LEMMA ResolvedTyped ==
  ASSUME TypesBounds, Types!TypeOK, NEW t \in Tags, NEW k \in Keys
  PROVE  LET r == Types!Resolved(s4[t], k) IN
         /\ r \in [key : Keys \cup {None}, waits : SUBSET Keys, shows : Types!Types, of : Keys \cup {None}]
         /\ r.key = k
         /\ s2[k] # Types!Unread => r.waits = s4[t].waits /\ r.shows = s2[k] /\ r.of = k
         /\ s2[k] = Types!Unread => /\ r.waits = s4[t].waits \cup {k}
                                    /\ r.shows = s4[t].shows /\ r.of = s4[t].of
<1> DEFINE Tag == [key : Keys \cup {None}, waits : SUBSET Keys, shows : Types!Types, of : Keys \cup {None}]
<1>1. s4[t] \in Tag /\ s2[k] \in Types!Types
  BY DEF Types!TypeOK
<1>2. CASE s2[k] # Types!Unread
  BY <1>1, <1>2 DEF Types!Resolved
<1>3. CASE s2[k] = Types!Unread
  BY <1>1, <1>3 DEF Types!Resolved
<1> QED
  BY <1>2, <1>3

LEMMA TypesMountStep ==
  ASSUME TypesBounds, TypesInv, NEW t \in Tags, NEW k \in Keys, Types!Mount(t, k) PROVE TypesInv'
<1> DEFINE r == Types!Resolved(s4[t], k)
<1>1. /\ s4' = [s4 EXCEPT ![t] = r] /\ s3' = Types!Ask(k) /\ s4[t].key = None
      /\ UNCHANGED <<s1, s2, s5, s6>> /\ Types!TypeOK
  BY DEF Types!Mount, TypesInv
<1>2. s4' \in [Tags -> [key : Keys \cup {None}, waits : SUBSET Keys, shows : Types!Types, of : Keys \cup {None}]]
  BY <1>1, ResolvedTyped DEF Types!TypeOK
<1>3. ASSUME NEW u \in Tags, NEW n \in s4'[u].waits PROVE s3'[n].st # "no"
  <2>1. n \in Keys
    BY <1>2
  <2>2. CASE n \in s4[u].waits
    BY <1>1, <2>1, <2>2, AskTyped DEF Types!TypeOK
  <2>3. CASE n \notin s4[u].waits
    <3>1. u = t /\ s2[k] = Types!Unread /\ n = k
      BY <1>1, <2>3, ResolvedTyped DEF Types!TypeOK
    <3> QED
      BY <1>1, <3>1, AskTyped
  <2> QED
    BY <2>2, <2>3
<1>4. Types!TypeOK'
  BY <1>1, <1>2, <1>3, AskTyped DEF Types!TypeOK, Types!Types, Types!Unread
<1>5. (EditNames /\ Overwritten /\ CallFollows)'
  BY <1>1, AskTyped DEF TypesInv, EditNames, Overwritten, CallFollows
<1>6. Types!TypeFollows'
  BY <1>1 DEF TypesInv, Types!TypeFollows, Types!Unread, Types!Hit
<1>7. Types!TagFollows'
  <2> SUFFICES ASSUME NEW u \in Tags, s4'[u].key # None, s4'[u].of = s4'[u].key,
                      s4'[u].shows # Types!Unread, s4'[u].key \notin s6,
                      ~(s5.st = "answered" /\ s4'[u].key \in Types!Hit)
               PROVE  s4'[u].shows = s1[s4'[u].key]
    BY <1>1 DEF Types!TagFollows, Types!Hit, Types!Unread
  <2>1. CASE u # t
    BY <1>1, <2>1 DEF TypesInv, Types!TypeOK, Types!TagFollows
  <2>2. CASE u = t
    <3>1. s4'[t] = r /\ r.key = k
      BY <1>1, ResolvedTyped DEF Types!TypeOK
    <3>2. CASE s2[k] # Types!Unread
      <4>1. r.shows = s2[k]
        BY <1>1, <3>2, ResolvedTyped
      <4> QED
        BY <1>1, <2>2, <3>1, <3>2, <4>1 DEF TypesInv, Types!TypeFollows
    <3>3. CASE s2[k] = Types!Unread
      <4>1. r.of = s4[t].of
        BY <1>1, <3>3, ResolvedTyped
      <4> QED
        BY <1>1, <2>2, <3>1, <4>1 DEF TypesBounds, TypesInv, Unmounted, Types!NoTag
    <3> QED
      BY <3>2, <3>3
  <2> QED
    BY <2>1, <2>2
<1>8. Unmounted'
  BY <1>1, ResolvedTyped DEF TypesInv, Unmounted, Types!TypeOK, TypesBounds
<1> QED
  BY <1>4, <1>5, <1>6, <1>7, <1>8 DEF TypesInv

LEMMA AnsweredStep ==
  ASSUME TypesBounds, TypesInv, NEW k \in Keys, Types!Answered(k) PROVE TypesInv'
<1>1. PICK got \in {s3[k].life, Types!Unread} :
        /\ s2' = [s2 EXCEPT ![k] = IF got = Types!Unread THEN @ ELSE got]
        /\ s4' = [t \in Tags |-> IF k \in s4[t].waits
                                  THEN [s4[t] EXCEPT !.waits = @ \ {k}, !.shows = got, !.of = k]
                                  ELSE s4[t]]
  BY DEF Types!Answered
<1>2. /\ s3[k].st = "answered" /\ s3' = [s3 EXCEPT ![k] = Types!NoCall]
      /\ UNCHANGED <<s1, s5, s6>> /\ Types!TypeOK
  BY DEF Types!Answered, TypesInv
<1>3. got \in Types!Types /\ s3[k].life \in 0..MaxLife
  BY <1>2 DEF Types!TypeOK, Types!Types, Types!Unread, TypesBounds
<1>4. got # Types!Unread /\ k \notin s6 => got = s1[k]
  BY <1>2 DEF TypesInv, CallFollows
<1>5. \A t \in Tags :
        /\ s4'[t].key = s4[t].key /\ k \notin s4'[t].waits
        /\ k \in s4[t].waits => /\ s4'[t].waits = s4[t].waits \ {k}
                                /\ s4'[t].shows = got /\ s4'[t].of = k
        /\ k \notin s4[t].waits => s4'[t] = s4[t]
  BY <1>1, <1>2 DEF Types!TypeOK
<1>6. Types!TypeOK'
  <2>1. s4' \in [Tags -> [key : Keys \cup {None}, waits : SUBSET Keys, shows : Types!Types, of : Keys \cup {None}]]
    BY <1>1, <1>2, <1>3, ZenonT(30) DEF Types!TypeOK
  <2>2. s2' \in [Keys -> Types!Types]
    BY <1>1, <1>2, <1>3 DEF Types!TypeOK
  <2>4. Types!NoCall \in [st : {"no", "asked", "answered"}, life : 0..MaxLife]
    BY DEF Types!NoCall, TypesBounds
  <2>5. s3' \in [Keys -> [st : {"no", "asked", "answered"}, life : 0..MaxLife]]
    BY <1>2, <2>4 DEF Types!TypeOK
  <2>3. ASSUME NEW t \in Tags, NEW n \in s4'[t].waits PROVE s3'[n].st # "no"
    <3>1. n \in s4[t].waits /\ n # k /\ n \in Keys
      BY <1>5, <2>1
    <3> QED
      BY <1>2, <3>1 DEF Types!TypeOK
  <2> QED
    BY <1>2, <2>1, <2>2, <2>3, <2>5 DEF Types!TypeOK, Types!Types, Types!Unread
<1>7. (EditNames /\ Overwritten /\ CallFollows)'
  BY <1>2 DEF TypesInv, EditNames, Overwritten, CallFollows, Types!TypeOK, Types!NoCall
<1>8. Unmounted'
  <2> SUFFICES ASSUME NEW t \in Tags, s4'[t].key = None PROVE s4'[t] = Types!NoTag
    BY DEF Unmounted
  <2>1. s4[t] = Types!NoTag
    BY <1>5 DEF TypesInv, Unmounted
  <2>2. k \notin s4[t].waits
    BY <2>1 DEF Types!NoTag
  <2> QED
    BY <1>5, <2>1, <2>2
<1>9. Types!TypeFollows'
  BY <1>1, <1>2, <1>4 DEF TypesInv, Types!TypeFollows, Types!TypeOK, Types!Hit, Types!Unread
<1>10. Types!TagFollows'
  BY <1>2, <1>4, <1>5 DEF TypesInv, Types!TagFollows, Types!Hit, Types!Unread
<1> QED
  BY <1>6, <1>7, <1>8, <1>9, <1>10 DEF TypesInv

LEMMA EditServedStep == ASSUME TypesBounds, TypesInv, Types!EditServed PROVE TypesInv'
<1>1. /\ s5.st = "asked" /\ \A k \in Types!Hit : s1[k] < MaxLife
      /\ s1' = [k \in Keys |-> IF k \in Types!Hit THEN s1[k] + 1 ELSE s1[k]]
      /\ s6' = s6 \cup {k \in Types!Hit : s3[k].st # "no"}
                      \cup (IF s5.kind = "rename" THEN {s5.new} ELSE {})
      /\ s5' = [s5 EXCEPT !.st = "answered"]
      /\ UNCHANGED <<s2, s3, s4>> /\ Types!TypeOK
  BY DEF Types!EditServed, TypesInv
<1>2. Types!Hit \subseteq Keys /\ (s5.kind = "rename" => s5.new \in Keys)
  BY <1>1 DEF TypesInv, EditNames, Types!Hit, Types!TypeOK
<1>3. /\ s5'.st = "answered" /\ s5'.kind = s5.kind
      /\ s5'.key = s5.key /\ s5'.new = s5.new
  BY <1>1 DEF Types!TypeOK
<1>4. Types!Hit' = Types!Hit
  BY <1>3 DEF Types!Hit
<1>5. s6' \subseteq Keys
  BY <1>1, <1>2 DEF Types!TypeOK
<1>6. ASSUME NEW k \in Keys PROVE s1'[k] \in 0..MaxLife
  <2>1. s1[k] \in 0..MaxLife
    BY <1>1 DEF Types!TypeOK
  <2> QED
    BY <1>1, <2>1 DEF TypesBounds
<1>7. Types!TypeOK'
  <2>1. s5' \in [st : {"no", "asked", "answered"}, kind : {"delete", "rename", "flush"},
                   key : Keys \cup {None}, new : Keys \cup {None}]
    BY <1>1 DEF Types!TypeOK
  <2> QED
    BY <1>1, <1>5, <1>6, <2>1 DEF Types!TypeOK, Types!Types, Types!Unread
<1>8. EditNames' /\ Overwritten' /\ Unmounted'
  BY <1>1, <1>3 DEF TypesInv, EditNames, Overwritten, Unmounted
<1>9. CallFollows'
  BY <1>1 DEF TypesInv, CallFollows, Types!TypeOK
<1>10. Types!TypeFollows' /\ Types!TagFollows'
  <2>1. ASSUME NEW k \in Keys, k \notin s6', ~(s5'.st = "answered" /\ k \in Types!Hit')
        PROVE  k \notin s6 /\ s5.st # "answered" /\ s1'[k] = s1[k]
    BY <1>1, <1>3, <1>4, <2>1
  <2>2. Types!TypeFollows'
    BY <1>1, <2>1 DEF TypesInv, Types!TypeFollows, Types!Unread
  <2>3. Types!TagFollows'
    <3> SUFFICES ASSUME NEW t \in Tags, s4[t].key # None, s4[t].of = s4[t].key,
                        s4[t].shows # Types!Unread, s4[t].key \notin s6',
                        ~(s5'.st = "answered" /\ s4[t].key \in Types!Hit')
                 PROVE  s4[t].shows = s1'[s4[t].key]
      BY <1>1 DEF Types!TagFollows, Types!Unread
    <3>1. s4[t].key \in Keys
      BY <1>1 DEF Types!TypeOK
    <3> QED
      BY <2>1, <3>1 DEF TypesInv, Types!TagFollows
  <2> QED
    BY <2>2, <2>3
<1> QED
  BY <1>7, <1>8, <1>9, <1>10 DEF TypesInv

\* A tag whose key a rename renames shows the new name's type, or waits for it.
Renamed(t) == s5.kind = "rename" /\ s4[t].key = s5.key

LEMMA EditedStep == ASSUME TypesBounds, TypesInv, Types!Edited PROVE TypesInv'
<1>1. /\ s5.st = "answered" /\ s5' = Types!NoEdit /\ UNCHANGED <<s1, s6>> /\ Types!TypeOK
      /\ Types!Dropped(IF s5.kind = "flush" THEN Keys ELSE {s5.key})
      /\ s4' = [t \in Tags |->
           IF s4[t].key \in Types!Gone THEN Types!NoTag
           ELSE IF s5.kind = "rename" /\ s4[t].key = s5.key
           THEN Types!Resolved(s4[t], s5.new) ELSE s4[t]]
      /\ s3' = IF s5.kind = "rename" /\ \E t \in Tags : s4[t].key = s5.key
                 THEN Types!Ask(s5.new) ELSE s3
  BY DEF Types!Edited, TypesInv
<1>2. /\ s5.kind \in {"delete", "rename"} => s5.key \in Keys
      /\ s5.kind = "rename" => s5.new \in Keys /\ s5.new # s5.key
  BY <1>1 DEF TypesInv, EditNames
<1>3. \A k \in Keys :
        IF s5.kind = "flush" \/ k = s5.key THEN s2'[k] = Types!Unread ELSE s2'[k] = s2[k]
  BY <1>1 DEF Types!Dropped
<1>4. s2' \in [Keys -> Types!Types]
  BY <1>1 DEF Types!Dropped, Types!TypeOK, Types!Types, Types!Unread, TypesBounds
<1>5. s3' \in [Keys -> [st : {"no", "asked", "answered"}, life : 0..MaxLife]]
  BY <1>1, <1>2, AskTyped DEF Types!TypeOK
<1>6. ASSUME NEW k \in Keys
      PROVE  /\ s3[k].st # "no" => s3'[k] = s3[k]
             /\ s3'[k].st = "answered" => s3'[k] = s3[k]
  BY <1>1, <1>2, <1>6, AskTyped
<1>7. ASSUME NEW t \in Tags
      PROVE  /\ s4[t].key \in Types!Gone => s4'[t] = Types!NoTag
             /\ s4[t].key \notin Types!Gone /\ ~Renamed(t) => s4'[t] = s4[t]
             /\ Renamed(t) => s4'[t] = Types!Resolved(s4[t], s5.new) /\ s4'[t].key = s5.new
  BY <1>1, <1>2, <1>7, ResolvedTyped DEF Renamed, Types!Gone
<1>8. s4' \in [Tags -> [key : Keys \cup {None}, waits : SUBSET Keys, shows : Types!Types, of : Keys \cup {None}]]
  <2>1. Types!NoTag \in [key : Keys \cup {None}, waits : SUBSET Keys, shows : Types!Types, of : Keys \cup {None}]
    BY DEF Types!NoTag, Types!Types, Types!Unread, TypesBounds
  <2> QED
    BY <1>1, <1>2, <2>1, ResolvedTyped DEF Types!TypeOK
<1>9. ASSUME NEW t \in Tags, NEW k \in s4'[t].waits PROVE s3'[k].st # "no"
  <2>1. k \in Keys
    BY <1>8
  <2>2. CASE k \in s4[t].waits
    BY <1>1, <1>6, <2>1, <2>2 DEF Types!TypeOK
  <2>3. CASE k \notin s4[t].waits
    <3>1. s4'[t] # Types!NoTag
      BY <1>9 DEF Types!NoTag
    <3>2. Renamed(t)
      BY <1>7, <2>3, <3>1
    <3>3. k = s5.new /\ s2[s5.new] = Types!Unread
      BY <1>1, <1>2, <1>7, <2>3, <3>2, ResolvedTyped DEF Renamed
    <3>4. s3' = Types!Ask(s5.new)
      BY <1>1, <3>2 DEF Renamed
    <3> QED
      BY <1>1, <1>2, <3>2, <3>3, <3>4, AskTyped DEF Renamed
  <2> QED
    BY <2>2, <2>3
<1>10. Types!TypeOK'
  <2>1. s5' \in [st : {"no", "asked", "answered"}, kind : {"delete", "rename", "flush"},
                   key : Keys \cup {None}, new : Keys \cup {None}]
    BY <1>1 DEF Types!NoEdit
  <2> QED
    BY <1>1, <1>4, <1>5, <1>8, <1>9, <2>1 DEF Types!TypeOK, Types!Types, Types!Unread
<1>11. EditNames' /\ Overwritten' /\ CallFollows'
  BY <1>1, <1>6 DEF TypesInv, EditNames, Overwritten, CallFollows, Types!NoEdit
<1>12. Unmounted'
  <2> SUFFICES ASSUME NEW t \in Tags, s4'[t].key = None PROVE s4'[t] = Types!NoTag
    BY DEF Unmounted
  <2>1. ~Renamed(t)
    BY <1>2, <1>7 DEF Renamed, TypesBounds
  <2> QED
    BY <1>7, <2>1 DEF TypesInv, Unmounted
\* What the edit has hit is forgotten or set aside; the rest is as it was.
<1>13. Types!TypeFollows'
  <2> SUFFICES ASSUME NEW k \in Keys, s2'[k] # Types!Unread, k \notin s6 PROVE s2'[k] = s1[k]
    BY <1>1 DEF Types!TypeFollows, Types!Unread
  <2>1. s2'[k] = s2[k] /\ k # s5.key /\ s5.kind # "flush"
    BY <1>3
  <2>2. CASE k \notin Types!Hit
    BY <2>1, <2>2 DEF TypesInv, Types!TypeFollows
  <2>3. CASE k \in Types!Hit
    BY <1>1, <2>1, <2>3 DEF TypesInv, Overwritten, Types!Hit, Types!TypeOK
  <2> QED
    BY <2>2, <2>3
<1>14. Types!TagFollows'
  <2> SUFFICES ASSUME NEW t \in Tags, s4'[t].key # None, s4'[t].of = s4'[t].key,
                      s4'[t].shows # Types!Unread, s4'[t].key \notin s6
               PROVE  s4'[t].shows = s1[s4'[t].key]
    BY <1>1 DEF Types!TagFollows, Types!Unread
  <2>1. ~Renamed(t)
    BY <1>1, <1>7 DEF Renamed, TypesInv, Overwritten
  <2>2. s4'[t] = s4[t] /\ s4[t].key \notin Types!Gone /\ s4[t].key \in Keys
    BY <1>1, <1>7, <2>1 DEF Types!NoTag, Types!TypeOK
  <2>3. s4[t].key \notin Types!Hit
    BY <1>1, <2>1, <2>2 DEF Renamed, Types!Gone, Types!Hit, TypesInv, Overwritten, Types!TypeOK
  <2> QED
    BY <2>2, <2>3 DEF TypesInv, Types!TagFollows
<1> QED
  BY <1>10, <1>11, <1>12, <1>13, <1>14 DEF TypesInv

\* The steps that touch neither the cache nor what tags show.
LEMMA QuietStep ==
  ASSUME TypesBounds, TypesInv,
         \/ \E t \in Tags : Types!Unmount(t)
         \/ \E k \in Keys : Types!Served(k)
         \/ Types!EditFails \/ Types!Confirm("flush", None, None)
         \/ \E k \in Keys : Types!Confirm("delete", k, None) \/ \E n \in Keys \ {k} : Types!Confirm("rename", k, n)
  PROVE  TypesInv'
<1>1. ASSUME NEW t \in Tags, Types!Unmount(t) PROVE TypesInv'
  <2>1. /\ \A u \in Tags : s4'[u] = IF u = t THEN Types!NoTag ELSE s4[u]
        /\ UNCHANGED <<s1, s2, s3, s5, s6>> /\ Types!TypeOK
    BY <1>1 DEF Types!Unmount, TypesInv, Types!TypeOK
  <2>2. Types!NoTag \in [key : Keys \cup {None}, waits : SUBSET Keys, shows : Types!Types, of : Keys \cup {None}]
    BY DEF Types!NoTag, Types!Types, Types!Unread, TypesBounds
  <2>3. s4' \in [Tags -> [key : Keys \cup {None}, waits : SUBSET Keys, shows : Types!Types, of : Keys \cup {None}]]
    BY <1>1, <2>1, <2>2 DEF Types!Unmount, Types!TypeOK
  <2>4. Types!NoTag.waits = {} /\ Types!NoTag.key = None
    BY DEF Types!NoTag
  <2>5. Types!TypeOK'
    BY <2>1, <2>3, <2>4 DEF Types!TypeOK, Types!Types, Types!Unread
  <2>6. (EditNames /\ Overwritten /\ CallFollows /\ Types!TypeFollows)'
    BY <2>1 DEF TypesInv, EditNames, Overwritten, CallFollows, Types!TypeFollows, Types!Hit, Types!Unread
  <2>7. Unmounted' /\ Types!TagFollows'
    BY <2>1, <2>4 DEF TypesInv, Unmounted, Types!TagFollows, Types!Hit, Types!Unread
  <2> QED
    BY <2>5, <2>6, <2>7 DEF TypesInv
<1>2. ASSUME NEW k \in Keys, Types!Served(k) PROVE TypesInv'
  <2>1. /\ s3' = [s3 EXCEPT ![k] = [st |-> "answered", life |-> s1[k]]]
        /\ UNCHANGED <<s1, s2, s4, s5, s6>> /\ Types!TypeOK
    BY <1>2 DEF Types!Served, TypesInv
  <2>2. \A n \in Keys : s3'[n] = IF n = k THEN [st |-> "answered", life |-> s1[k]] ELSE s3[n]
    BY <2>1 DEF Types!TypeOK
  <2>3. s3' \in [Keys -> [st : {"no", "asked", "answered"}, life : 0..MaxLife]]
    BY <2>1 DEF Types!TypeOK
  <2>4. Types!TypeOK'
    BY <2>1, <2>2, <2>3 DEF Types!TypeOK, Types!Types, Types!Unread
  <2>5. CallFollows'
    BY <2>1, <2>2 DEF TypesInv, CallFollows
  <2>6. (EditNames /\ Overwritten /\ Unmounted /\ Types!TypeFollows /\ Types!TagFollows)'
    BY <2>1 DEF TypesInv, EditNames, Overwritten, Unmounted, Types!TypeFollows, Types!TagFollows, Types!Hit, Types!Unread
  <2> QED
    BY <2>4, <2>5, <2>6 DEF TypesInv
<1>3. ASSUME UNCHANGED <<s1, s2, s3, s4, s6>>, s5'.st # "answered", s5.st # "answered",
             s5' \in [st : {"no", "asked", "answered"}, kind : {"delete", "rename", "flush"},
                        key : Keys \cup {None}, new : Keys \cup {None}],
             EditNames'
      PROVE  TypesInv'
  <2>1. Types!TypeOK' /\ Overwritten'
    BY <1>3 DEF TypesInv, Types!TypeOK, Types!Types, Types!Unread, Overwritten
  <2>2. (Unmounted /\ CallFollows)'
    BY <1>3 DEF TypesInv, Unmounted, CallFollows
  <2>3. (Types!TypeFollows /\ Types!TagFollows)'
    BY <1>3 DEF TypesInv, Types!TypeFollows, Types!TagFollows, Types!Unread
  <2> QED
    BY <1>3, <2>1, <2>2, <2>3 DEF TypesInv
<1>4. CASE Types!EditFails
  BY <1>3, <1>4 DEF Types!EditFails, Types!NoEdit, EditNames
<1>5. CASE Types!Confirm("flush", None, None)
  BY <1>3, <1>5 DEF Types!Confirm, EditNames
<1>6. ASSUME NEW k \in Keys, Types!Confirm("delete", k, None) PROVE TypesInv'
  BY <1>3, <1>6 DEF Types!Confirm, EditNames
<1>7. ASSUME NEW k \in Keys, NEW n \in Keys \ {k}, Types!Confirm("rename", k, n) PROVE TypesInv'
  BY <1>3, <1>7 DEF Types!Confirm, EditNames
<1> QED
  BY <1>1, <1>2, <1>4, <1>5, <1>6, <1>7

LEMMA TypesInvStep == ASSUME TypesBounds, TypesInv, Types!Next \/ UNCHANGED Types!vars PROVE TypesInv'
<1>1. CASE Types!Next
  BY <1>1, TypesMountStep, AnsweredStep, EditServedStep, EditedStep, QuietStep DEF Types!Next
<1>2. CASE UNCHANGED Types!vars
  BY <1>2 DEF Types!vars, TypesInv, Types!TypeOK, Types!Types, Types!Unread, EditNames, Overwritten, Unmounted, CallFollows,
              Types!TypeFollows, Types!TagFollows, Types!Hit
<1> QED
  BY <1>1, <1>2

LEMMA TypesInit == Init => (part = "types" => TypesInv)
BY PanelsAssumption, TypesInvInit DEF PanelsAssumption, TypesBounds, Init

LEMMA TypesStep ==
  ASSUME part = "types" => TypesInv, [Next]_vars
  PROVE  (part = "types" => TypesInv)'
<1> SUFFICES ASSUME part = "types", TypesInv PROVE TypesInv'
  BY DEF Next, vars
<1>1. TypesBounds
  BY PanelsAssumption DEF PanelsAssumption, TypesBounds
<1>2. Types!Next \/ UNCHANGED Types!vars
  BY DEF Next, vars, Types!vars
<1> QED
  BY <1>1, <1>2, TypesInvStep

\* A remembered type is that of the key as it is now, and so is the type that a tag in the list
\* shows, for any keys, tags and number of edits: key-type-cache, KeyTypeTag.
THEOREM TypesFollowKeys == Spec => []TypeFollows
<1>1. (part = "types" => TypesInv) => TypeFollows
  BY DEF TypesInv, TypeFollows
<1>2. Spec => Init /\ [][Next]_vars
  BY DEF Spec
<1> QED
  BY <1>1, <1>2, TypesInit, TypesStep, PTL

-----------------------------------------------------------------------------
(* The memory analysis: an open dialog has the hits of its own folder, and all of them when *)
(* the scan is over. *)

MemoryBounds == Pages \in Nat \ {0} /\ Patterns # {}

\* A scan that is paused has something left to read.
PausedIsUnfinished == ~Memory!Scanning /\ s4.paused => s6 < Pages

\* The list of a folder's dialog is what has been read of the folder, and the
\* call that is under way asks for what comes next.
ReadSoFar ==
  s3.open /\ ~Memory!Opening /\ s9.kept =>
    /\ s9.match = s2 /\ s7 = {s2} \X (1..s6)
    /\ s5.at = "call" => s5.match = s2 /\ s5.from = s6

MemoryInv == Memory!TypeOK /\ PausedIsUnfinished /\ ReadSoFar

LEMMA IdleTyped ==
  ASSUME MemoryBounds PROVE Memory!Idle \in [at : {"idle"}, match : Patterns, from : 0..Pages - 1]
<1>1. (CHOOSE p \in Patterns : TRUE) \in Patterns
  BY DEF MemoryBounds
<1>2. 0 \in 0..Pages - 1
  BY DEF MemoryBounds
<1> QED
  BY <1>1, <1>2 DEF Memory!Idle

LEMMA MemoryInvInit == ASSUME MemoryBounds, Memory!Init PROVE MemoryInv
<1>1. Memory!TypeOK
  BY IdleTyped DEF Memory!Init, Memory!TypeOK, MemoryBounds
<1>2. PausedIsUnfinished /\ ReadSoFar
  BY DEF Memory!Init, PausedIsUnfinished, ReadSoFar
<1> QED
  BY <1>1, <1>2 DEF MemoryInv

\* A scan starts: nothing is read, and the call is for the pattern there is.
LEMMA MemoryStartStep ==
  ASSUME MemoryBounds, Memory!TypeOK, Memory!Start, UNCHANGED <<s1, s2, s3>>,
         s8' \in [Waiters -> {"no", "open", "stop", "closed"}]
  PROVE  MemoryInv'
<1>1. /\ s4' = [cancelled |-> FALSE, paused |-> FALSE] /\ s7' = {} /\ s6' = 0
      /\ s5' = [at |-> "call", match |-> s2, from |-> 0]
      /\ s9' = [match |-> s2, kept |-> TRUE]
  BY DEF Memory!Start, Memory!Ask
<1>2. Memory!TypeOK'
  BY <1>1 DEF Memory!TypeOK, MemoryBounds
<1>3. PausedIsUnfinished'
  BY <1>1 DEF PausedIsUnfinished
<1>4. s7' = {s2} \X (1..0)
  BY <1>1
<1>5. ReadSoFar'
  BY <1>1, <1>4 DEF ReadSoFar
<1> QED
  BY <1>2, <1>3, <1>5 DEF MemoryInv

LEMMA MemoryPageStep == ASSUME MemoryBounds, MemoryInv, Memory!Page PROVE MemoryInv'
<1>1. /\ s5.at = "call" /\ UNCHANGED <<s1, s2, s3, s8, s9>> /\ Memory!TypeOK
      /\ s5 \in [at : {"idle", "call", "sleep"}, match : Patterns, from : 0..Pages - 1]
  BY DEF Memory!Page, MemoryInv, Memory!TypeOK
<1>2. CASE s4.cancelled
  <2>1. /\ UNCHANGED <<s6, s7>> /\ s5' = Memory!Idle
        /\ s4' = [s4 EXCEPT !.paused = @ /\ s6 # Pages]
    BY <1>2 DEF Memory!Page, Memory!End
  <2>2. s5'.at = "idle" /\ s6 < Pages
    BY <1>1, <2>1 DEF Memory!Idle, Memory!TypeOK
  <2>3. Memory!TypeOK'
    BY <1>1, <2>1, <2>2, IdleTyped DEF Memory!TypeOK
  <2>4. PausedIsUnfinished' /\ ReadSoFar'
    BY <1>1, <2>1, <2>2 DEF MemoryInv, PausedIsUnfinished, ReadSoFar, Memory!Opening, Memory!Scanning
  <2> QED
    BY <2>3, <2>4 DEF MemoryInv
<1>3. CASE ~s4.cancelled
  <2>1. PICK p \in s5.from + 1..Pages :
          /\ s6' = p /\ s7' = s7 \cup Memory!Hits(p)
          /\ \/ (p = Pages \/ s4.paused) /\ s5' = Memory!Idle /\ s4' = [s4 EXCEPT !.paused = @ /\ p # Pages]
             \/ /\ p < Pages /\ s5' = [at |-> "call", match |-> s2, from |-> p]
                /\ UNCHANGED s4
             \/ p < Pages /\ s5' = [Memory!Idle EXCEPT !.at = "sleep"] /\ UNCHANGED s4
    BY <1>3 DEF Memory!Page, Memory!Merged, Memory!End, Memory!Ask
  <2>2. p \in 1..Pages /\ p > s5.from
    BY <1>1, <2>1 DEF MemoryBounds
  <2>3. Memory!Hits(p) = {s5.match} \X (s5.from + 1..p)
    BY DEF Memory!Hits
  <2>4. s7' \subseteq Patterns \X (1..Pages)
    BY <1>1, <2>1, <2>2, <2>3 DEF Memory!TypeOK, MemoryBounds
  <2>5. /\ s5' \in [at : {"idle", "call", "sleep"}, match : Patterns, from : 0..Pages - 1]
        /\ s4' \in [cancelled : BOOLEAN, paused : BOOLEAN]
        /\ s5'.at # "idle" => p < Pages
        /\ s5'.at = "idle" /\ s4'.paused => p < Pages
        /\ s5'.at = "call" => s5'.match = s2 /\ s5'.from = p
    <3>1. CASE s5' = Memory!Idle /\ s4' = [s4 EXCEPT !.paused = @ /\ p # Pages]
      <4>1. s5' \in [at : {"idle"}, match : Patterns, from : 0..Pages - 1] /\ s5'.at = "idle"
        BY <3>1, IdleTyped
      <4>2. /\ s4' \in [cancelled : BOOLEAN, paused : BOOLEAN]
            /\ s4'.paused => p # Pages
        BY <1>1, <3>1 DEF Memory!TypeOK
      <4>3. p # Pages => p < Pages
        BY <2>2 DEF MemoryBounds
      <4> QED
        BY <4>1, <4>2, <4>3
    <3>2. CASE p < Pages /\ s5' = [at |-> "call", match |-> s2, from |-> p] /\ UNCHANGED s4
      BY <1>1, <2>2, <3>2 DEF Memory!TypeOK, MemoryBounds
    <3>3. CASE p < Pages /\ s5' = [Memory!Idle EXCEPT !.at = "sleep"] /\ UNCHANGED s4
      BY <1>1, <2>2, <3>3, IdleTyped DEF Memory!TypeOK, MemoryBounds
    <3> QED
      BY <2>1, <3>1, <3>2, <3>3
  <2>6. Memory!TypeOK'
    BY <1>1, <2>1, <2>2, <2>4, <2>5 DEF Memory!TypeOK
  <2>7. PausedIsUnfinished'
    BY <2>1, <2>5 DEF PausedIsUnfinished, Memory!Scanning
  <2>8. ReadSoFar'
    <3> SUFFICES ASSUME s3.open, ~Memory!Opening, s9.kept PROVE s9.match = s2 /\ s7' = {s2} \X (1..p)
      BY <1>1, <2>1, <2>5 DEF ReadSoFar, Memory!Opening
    <3>1. s9.match = s2 /\ s7 = {s2} \X (1..s6) /\ s5.match = s2 /\ s5.from = s6
      BY <1>1 DEF MemoryInv, ReadSoFar
    <3>2. (1..s6) \cup (s6 + 1..p) = 1..p
      BY <1>1, <2>2, <3>1 DEF Memory!TypeOK
    <3>3. s7' = ({s2} \X (1..s6)) \cup ({s2} \X (s6 + 1..p))
      BY <2>1, <2>3, <3>1
    <3> QED
      BY <3>1, <3>2, <3>3
  <2> QED
    BY <2>6, <2>7, <2>8 DEF MemoryInv
<1> QED
  BY <1>2, <1>3

LEMMA AwakeStep == ASSUME MemoryBounds, MemoryInv, Memory!Awake PROVE MemoryInv'
<1>1. /\ s5.at = "sleep" /\ UNCHANGED <<s1, s2, s3, s6, s7, s8, s9>>
      /\ Memory!TypeOK /\ s6 < Pages
  BY DEF Memory!Awake, MemoryInv, Memory!TypeOK
<1>2. CASE s4.cancelled \/ s4.paused
  <2>1. s5' = Memory!Idle /\ s4' = [s4 EXCEPT !.paused = @ /\ s6 # Pages]
    BY <1>2 DEF Memory!Awake, Memory!End
  <2>2. s5'.at = "idle"
    BY <2>1 DEF Memory!Idle
  <2>3. Memory!TypeOK'
    BY <1>1, <2>1, <2>2, IdleTyped DEF Memory!TypeOK
  <2>4. PausedIsUnfinished' /\ ReadSoFar'
    BY <1>1, <2>2 DEF MemoryInv, PausedIsUnfinished, ReadSoFar, Memory!Opening
  <2> QED
    BY <2>3, <2>4 DEF MemoryInv
<1>3. CASE ~(s4.cancelled \/ s4.paused)
  <2>1. s5' = [at |-> "call", match |-> s2, from |-> s6] /\ UNCHANGED s4
    BY <1>3 DEF Memory!Awake, Memory!Ask
  <2>2. Memory!TypeOK'
    BY <1>1, <2>1 DEF Memory!TypeOK, MemoryBounds
  <2>3. PausedIsUnfinished' /\ ReadSoFar'
    BY <1>1, <2>1 DEF MemoryInv, PausedIsUnfinished, ReadSoFar, Memory!Opening, Memory!Scanning
  <2> QED
    BY <2>2, <2>3 DEF MemoryInv
<1> QED
  BY <1>2, <1>3

LEMMA FailStep == ASSUME MemoryBounds, MemoryInv, Memory!PageFails PROVE MemoryInv'
<1>1. /\ UNCHANGED <<s1, s2, s3, s6, s7, s8, s9>>
      /\ Memory!TypeOK /\ s6 < Pages /\ s5' = Memory!Idle /\ s4' = [s4 EXCEPT !.paused = TRUE]
  BY DEF Memory!PageFails, MemoryInv, Memory!TypeOK
<1>2. s5'.at = "idle"
  BY <1>1 DEF Memory!Idle
<1>3. Memory!TypeOK'
  BY <1>1, <1>2, IdleTyped DEF Memory!TypeOK
<1>4. PausedIsUnfinished' /\ ReadSoFar'
  BY <1>1, <1>2 DEF MemoryInv, PausedIsUnfinished, ReadSoFar, Memory!Opening
<1> QED
  BY <1>3, <1>4 DEF MemoryInv

\* The buttons of the dialog and the page.
LEMMA ButtonStep ==
  ASSUME MemoryBounds, MemoryInv,
         \/ Memory!StartButton \/ Memory!Pause \/ Memory!Resume \/ Memory!Close
         \/ \E w \in Waiters : Memory!StopButton(w) \/ Memory!Closed(w) \/ \E m \in Patterns : Memory!Open(w, m)
         \/ \E m \in Patterns : Memory!EditMatch(m)
  PROVE  MemoryInv'
<1> Memory!TypeOK
  BY DEF MemoryInv
<1>1. CASE Memory!StartButton
  BY <1>1, MemoryStartStep DEF Memory!StartButton, Memory!TypeOK
<1>2. CASE Memory!Pause
  <2>1. Memory!TypeOK'
    BY <1>2 DEF Memory!Pause, Memory!TypeOK
  <2>2. PausedIsUnfinished' /\ ReadSoFar'
    BY <1>2 DEF Memory!Pause, MemoryInv, PausedIsUnfinished, ReadSoFar, Memory!Opening, Memory!Scanning
  <2> QED
    BY <2>1, <2>2 DEF MemoryInv
<1>3. CASE Memory!Resume
  <2>1. /\ s5' = [at |-> "call", match |-> s2, from |-> s6] /\ s6 < Pages
        /\ s4' = [cancelled |-> FALSE, paused |-> FALSE]
        /\ UNCHANGED <<s1, s2, s3, s6, s7, s8, s9>>
    BY <1>3 DEF Memory!Resume, Memory!Ask, MemoryInv, PausedIsUnfinished
  <2>2. Memory!TypeOK'
    BY <2>1 DEF Memory!TypeOK, MemoryBounds
  <2>3. PausedIsUnfinished' /\ ReadSoFar'
    BY <2>1 DEF MemoryInv, PausedIsUnfinished, ReadSoFar, Memory!Opening
  <2> QED
    BY <2>2, <2>3 DEF MemoryInv
<1>4. CASE Memory!Close
  <2>1. Memory!TypeOK'
    BY <1>4 DEF Memory!Close, Memory!TypeOK
  <2>2. PausedIsUnfinished' /\ ReadSoFar'
    BY <1>4 DEF Memory!Close, MemoryInv, PausedIsUnfinished, ReadSoFar, Memory!Scanning
  <2> QED
    BY <2>1, <2>2 DEF MemoryInv
<1>5. ASSUME NEW w \in Waiters, Memory!StopButton(w) PROVE MemoryInv'
  <2>1. /\ s8[w] = "no" /\ s8' = [s8 EXCEPT ![w] = "stop"]
        /\ s4' = [cancelled |-> TRUE, paused |-> FALSE]
        /\ UNCHANGED <<s1, s2, s3, s5, s6, s7, s9>>
    BY <1>5 DEF Memory!StopButton, Memory!Stop
  <2>2. Memory!TypeOK' /\ (Memory!Opening => Memory!Opening')
    BY <2>1 DEF Memory!TypeOK, Memory!Opening
  <2>3. PausedIsUnfinished' /\ ReadSoFar'
    BY <2>1, <2>2 DEF MemoryInv, PausedIsUnfinished, ReadSoFar
  <2> QED
    BY <2>2, <2>3 DEF MemoryInv
<1>6. ASSUME NEW w \in Waiters, Memory!Closed(w) PROVE MemoryInv'
  <2>1. s3' = [s3 EXCEPT !.closing = FALSE] /\ UNCHANGED <<s1, s2, s5, s6, s7, s9>>
    BY <1>6 DEF Memory!Closed
  <2>2. CASE s3.open
    <3>1. UNCHANGED <<s4, s8>>
      BY <1>6, <2>2 DEF Memory!Closed
    <3>2. Memory!TypeOK'
      BY <2>1, <3>1 DEF Memory!TypeOK
    <3>3. PausedIsUnfinished' /\ ReadSoFar'
      BY <2>1, <2>2, <3>1 DEF MemoryInv, Memory!TypeOK, PausedIsUnfinished, ReadSoFar, Memory!Opening, Memory!Scanning
    <3> QED
      BY <3>2, <3>3 DEF MemoryInv
  <2>3. CASE ~s3.open
    <3>1. /\ s8' = [s8 EXCEPT ![w] = "closed"]
          /\ s4' = [cancelled |-> TRUE, paused |-> FALSE]
      BY <1>6, <2>3 DEF Memory!Closed, Memory!Stop
    <3>2. Memory!TypeOK' /\ ~s3'.open
      BY <2>1, <2>3, <3>1 DEF Memory!TypeOK
    <3>3. PausedIsUnfinished' /\ ReadSoFar'
      BY <3>1, <3>2 DEF PausedIsUnfinished, ReadSoFar
    <3> QED
      BY <3>2, <3>3 DEF MemoryInv
  <2> QED
    BY <2>2, <2>3
<1>7. ASSUME NEW w \in Waiters, NEW m \in Patterns, Memory!Open(w, m) PROVE MemoryInv'
  <2>1. /\ s3' = [s3 EXCEPT !.open = TRUE] /\ s2' = m
        /\ s8' = [s8 EXCEPT ![w] = "open"] /\ s4' = [cancelled |-> TRUE, paused |-> FALSE]
        /\ UNCHANGED <<s1, s5, s6, s7, s9>>
    BY <1>7 DEF Memory!Open, Memory!Stop
  <2>2. Memory!TypeOK' /\ Memory!Opening'
    BY <2>1 DEF Memory!TypeOK, Memory!Opening
  <2>3. PausedIsUnfinished' /\ ReadSoFar'
    BY <2>1, <2>2 DEF PausedIsUnfinished, ReadSoFar
  <2> QED
    BY <2>2, <2>3 DEF MemoryInv
<1>8. ASSUME NEW m \in Patterns, Memory!EditMatch(m) PROVE MemoryInv'
  <2>1. /\ s2' = m /\ s9' = [s9 EXCEPT !.kept = FALSE]
        /\ UNCHANGED <<s1, s3, s4, s5, s6, s7, s8>>
    BY <1>8 DEF Memory!EditMatch
  <2>2. Memory!TypeOK' /\ ~s9'.kept
    BY <2>1 DEF Memory!TypeOK
  <2>3. PausedIsUnfinished' /\ ReadSoFar'
    BY <2>1, <2>2 DEF MemoryInv, PausedIsUnfinished, ReadSoFar, Memory!Scanning
  <2> QED
    BY <2>2, <2>3 DEF MemoryInv
<1> QED
  BY <1>1, <1>2, <1>3, <1>4, <1>5, <1>6, <1>7, <1>8

\* Who waits goes on when the loop is over.
LEMMA GoStep == ASSUME MemoryBounds, MemoryInv, NEW w \in Waiters, Memory!Go(w) PROVE MemoryInv'
<1>1. /\ ~Memory!Scanning /\ s8[w] # "no" /\ s8' = [s8 EXCEPT ![w] = "no"] /\ Memory!TypeOK
      /\ UNCHANGED <<s1, s2, s3>>
  BY DEF Memory!Go, Memory!LoopOver, MemoryInv
<1>2. s8' \in [Waiters -> {"no", "open", "stop", "closed"}]
  BY <1>1 DEF Memory!TypeOK
<1>3. CASE s8[w] = "open"
  <2>1. Memory!Start
    BY <1>1, <1>3 DEF Memory!Go, Memory!StartUnlessScanning
  <2> QED
    BY <1>1, <1>2, <2>1, MemoryStartStep
<1>4. CASE s8[w] # "open"
  <2>1. UNCHANGED <<s4, s5, s6, s9>> /\ (s3.open => s7' = s7) /\ s7' \in {s7, {}}
    BY <1>1, <1>4 DEF Memory!Go, Memory!Cleared, Memory!TypeOK
  <2>2. Memory!TypeOK'
    BY <1>1, <1>2, <2>1 DEF Memory!TypeOK
  <2>3. Memory!Opening => Memory!Opening'
    BY <1>1, <1>4 DEF Memory!Opening, Memory!TypeOK
  <2>4. PausedIsUnfinished' /\ ReadSoFar'
    BY <1>1, <2>1, <2>3 DEF MemoryInv, PausedIsUnfinished, ReadSoFar, Memory!Scanning
  <2> QED
    BY <2>2, <2>4 DEF MemoryInv
<1> QED
  BY <1>3, <1>4

LEMMA MemoryInvStep == ASSUME MemoryBounds, MemoryInv, Memory!Next \/ UNCHANGED Memory!vars PROVE MemoryInv'
<1>1. CASE Memory!Next
  BY <1>1, MemoryPageStep, AwakeStep, FailStep, ButtonStep, GoStep DEF Memory!Next
<1>2. CASE UNCHANGED Memory!vars
  BY <1>2 DEF Memory!vars, MemoryInv, Memory!TypeOK, PausedIsUnfinished, ReadSoFar, Memory!Opening, Memory!Scanning
<1> QED
  BY <1>1, <1>2

\* The hits of a folder are what the invariant says has been read.
LEMMA HitsAreRead == ASSUME MemoryBounds, MemoryInv PROVE Memory!OwnFolder /\ Memory!AllHits
<1>1. Memory!OwnFolder
  <2> SUFFICES ASSUME s3.open, ~Memory!Opening, s9.kept
               PROVE  s9.match = s2 /\ \A h \in s7 : h[1] = s2
    BY DEF Memory!OwnFolder
  <2>1. s9.match = s2 /\ s7 = {s2} \X (1..s6)
    BY DEF MemoryInv, ReadSoFar
  <2> QED
    BY <2>1
<1>2. Memory!AllHits
  BY DEF Memory!AllHits, MemoryInv, ReadSoFar
<1> QED
  BY <1>1, <1>2

LEMMA MemoryInit == Init => (part = "memory" => MemoryInv)
BY PanelsAssumption, MemoryInvInit DEF PanelsAssumption, MemoryBounds, Init

LEMMA MemoryStep ==
  ASSUME part = "memory" => MemoryInv, [Next]_vars
  PROVE  (part = "memory" => MemoryInv)'
<1> SUFFICES ASSUME part = "memory", MemoryInv PROVE MemoryInv'
  BY DEF Next, vars
<1>1. MemoryBounds
  BY PanelsAssumption DEF PanelsAssumption, MemoryBounds
<1>2. Memory!Next \/ UNCHANGED Memory!vars
  BY DEF Next, vars, Memory!vars
<1> QED
  BY <1>1, <1>2, MemoryInvStep

\* An open dialog that nobody waits to start has its own folder's hits, and all of them when
\* its cursor is read to the end, for any folders and lengths of the cursor, and however many
\* closed and opened it: useMemoryScan, runLoop.
THEOREM FoldersHaveTheirHits == Spec => []OwnHits
<1>1. (part = "memory" => MemoryInv) => OwnHits
  BY PanelsAssumption, HitsAreRead DEF PanelsAssumption, MemoryBounds, OwnHits
<1>2. Spec => Init /\ [][Next]_vars
  BY DEF Spec
<1> QED
  BY <1>1, <1>2, MemoryInit, MemoryStep, PTL

-----------------------------------------------------------------------------
(* KeyModes: ui, scan, list, tasks and off are s1 to s5.  Of the tasks at most one waits for a
   page, and `loading` says so; while nobody was overtaken, whoever is under way is alone and
   what it was started for is still what is chosen. *)

\* Those of the instance are those of the module.
LEMMA SameCount == \A S : Modes!Cardinality(S) = Cardinality(S)
BY DEF Modes!Cardinality, Cardinality

Flags == [loading : BOOLEAN, cancelled : BOOLEAN, paused : BOOLEAN, all : BOOLEAN]

\* Tasks that wait for a page.
PageTasks(ts) == {t \in ts : t.what = "page"}

\* The one page task there is, as the flag says; `loading` is what handlers test.
OnePage == IF s2.loading THEN \E t : PageTasks(s4) = {t} ELSE PageTasks(s4) = {}

OneRuns == s2 \in Flags /\ OnePage

LEMMA OneRunsInit == ASSUME Modes!Init PROVE OneRuns
<1> DEFINE t == [what |-> "page", mode |-> "scan", all |-> FALSE, of |-> "scan", from |-> 0]
<1>1. s2 \in Flags /\ s2.loading
  BY DEF Modes!Init, Flags
<1>2. s4 = {t} /\ t.what = "page"
  BY DEF Modes!Init
<1>3. PageTasks(s4) = {t}
  BY <1>2 DEF PageTasks
<1> QED
  BY <1>1, <1>3 DEF OneRuns, OnePage

\* A step that keeps the flag and the page tasks.
LEMMA Unchanged ==
  ASSUME OneRuns, s2' \in Flags, s2'.loading = s2.loading, PageTasks(s4') = PageTasks(s4)
  PROVE  OneRuns'
<1>1. CASE s2.loading
  <2>1. PICK t : PageTasks(s4) = {t}
    BY <1>1 DEF OneRuns, OnePage
  <2>2. PageTasks(s4)' = {t}
    BY <2>1 DEF PageTasks
  <2> QED
    BY <1>1, <2>2 DEF OneRuns, OnePage
<1>2. CASE ~s2.loading
  <2>1. PageTasks(s4)' = {}
    BY <1>2 DEF OneRuns, OnePage, PageTasks
  <2> QED
    BY <1>2, <2>1 DEF OneRuns, OnePage
<1> QED
  BY <1>1, <1>2

LEMMA BeginStep ==
  ASSUME OneRuns, ~s2.loading, NEW ts, PageTasks(ts) = PageTasks(s4), NEW l, NEW mode,
         NEW paused \in BOOLEAN, NEW all \in BOOLEAN, Modes!Begin(mode, ts, l, paused, all)
  PROVE  OneRuns'
<1> DEFINE p == Modes!Page(mode, all, l)
<1>1. /\ s2' = [loading |-> TRUE, cancelled |-> FALSE, paused |-> paused, all |-> all]
      /\ s4' = ts \cup {p} /\ p.what = "page"
  BY DEF Modes!Begin, Modes!Page
<1>2. PageTasks(ts) = {}
  BY DEF OneRuns, OnePage
<1>3. {t \in s4' : t.what = "page"} = {p}
  BY <1>1, <1>2 DEF PageTasks
<1>4. s2' \in Flags /\ s2'.loading
  BY <1>1 DEF OneRuns, Flags
<1>5. PageTasks(s4)' = {p}
  BY <1>3 DEF PageTasks
<1> QED
  BY <1>4, <1>5 DEF OneRuns, OnePage

LEMMA ScanKeyStep ==
  ASSUME OneRuns, NEW ts, PageTasks(ts) = PageTasks(s4), NEW l,
         NEW append \in BOOLEAN, NEW all \in BOOLEAN, Modes!ScanKey(ts, l, append, all)
  PROVE  OneRuns'
<1>1. CASE s2.loading
  <2>1. s4' = ts /\ s2' = s2
    BY <1>1 DEF Modes!ScanKey, Modes!Busy, Modes!Nothing
  <2> QED
    BY <2>1, Unchanged DEF OneRuns
<1>2. CASE ~s2.loading
  <2>1. (s2.paused /\ append) \in BOOLEAN
    BY DEF OneRuns, Flags
  <2>2. \E m : Modes!Begin("scan", ts, m, s2.paused /\ append, all)
    BY <1>2 DEF Modes!ScanKey, Modes!Busy
  <2> QED
    BY <1>2, <2>1, <2>2, BeginStep
<1> QED
  BY <1>1, <1>2

LEMMA QueryIndexStep ==
  ASSUME OneRuns, ~s2.loading, NEW ts, PageTasks(ts) = PageTasks(s4), NEW l,
         NEW append \in BOOLEAN, NEW all \in BOOLEAN, Modes!QueryIndex(ts, l, append, all)
  PROVE  OneRuns'
<1>1. (s2.paused /\ append) \in BOOLEAN
  BY DEF OneRuns, Flags
<1>2. \/ s4' = ts /\ s2' = s2
      \/ \E m : Modes!Begin("search", ts, m, s2.paused /\ append, all)
  BY DEF Modes!QueryIndex, Modes!Nothing
<1>3. CASE s4' = ts /\ s2' = s2
  BY <1>3, Unchanged DEF OneRuns
<1>4. CASE \E m : Modes!Begin("search", ts, m, s2.paused /\ append, all)
  BY <1>1, <1>4, BeginStep
<1> QED
  BY <1>2, <1>3, <1>4

LEMMA RunSearchStep ==
  ASSUME OneRuns, NEW ts, PageTasks(ts) = PageTasks(s4), NEW l,
         NEW append \in BOOLEAN, NEW all \in BOOLEAN, Modes!RunSearchKeys(ts, l, append, all)
  PROVE  OneRuns'
<1>1. \/ s4' = ts /\ s2' = s2
      \/ ~s2.loading /\ Modes!QueryIndex(ts, l, append, all)
  BY DEF Modes!RunSearchKeys, Modes!Busy, Modes!Nothing
<1>2. CASE s4' = ts /\ s2' = s2
  BY <1>2, Unchanged DEF OneRuns
<1>3. CASE ~s2.loading /\ Modes!QueryIndex(ts, l, append, all)
  BY <1>3, QueryIndexStep
<1> QED
  BY <1>1, <1>2, <1>3

\* What waits for the end of a scan is not a page, nor is what waits for names.
LEMMA ThenStep ==
  ASSUME OneRuns, ~s2.loading, NEW s, NEW ts, PageTasks(ts) = PageTasks(s4),
         s.then \in {"scan", "search", "enter", "browse", "refresh"}, Modes!Then(s, ts)
  PROVE  OneRuns'
<1>1. CASE s.then = "scan"
  BY <1>1, ScanKeyStep DEF Modes!Then
<1>2. CASE s.then = "search"
  BY <1>2, QueryIndexStep DEF Modes!Then
<1>3. CASE s.then = "refresh"
  BY <1>3, ScanKeyStep DEF Modes!Then
<1>4. CASE s.then \in {"enter", "browse"}
  <2>1. PICK n : s2' = [s2 EXCEPT !.paused = FALSE] /\ s4' = ts \cup {n} /\ n.what = "names"
    <3> DEFINE m == [what |-> "names", prefer |-> s.prefer, prev |-> s1.index, then |-> s.then]
    <3>1. s2' = [s2 EXCEPT !.paused = FALSE] /\ s4' = ts \cup {m}
      BY <1>4 DEF Modes!Then, Modes!Names
    <3>2. m.what = "names"
      OBVIOUS
    <3> QED
      BY <3>1, <3>2
  <2>2. PageTasks(s4') = PageTasks(s4)
    BY <2>1 DEF PageTasks
  <2>3. s2' \in Flags /\ s2'.loading = s2.loading
    BY <2>1 DEF OneRuns, Flags
  <2> QED
    BY <2>2, <2>3, Unchanged
<1> QED
  BY <1>1, <1>2, <1>3, <1>4

LEMMA StoppingStep ==
  ASSUME OneRuns, NEW then \in {"scan", "search", "enter", "browse", "refresh"},
         NEW prefer, NEW already, NEW u, Modes!Stopping(then, prefer, already, u)
  PROVE  OneRuns'
<1> DEFINE s == [what |-> "stop", then |-> then, prefer |-> prefer, already |-> already]
<1>1. s.what = "stop" /\ s.then = then
  OBVIOUS
<1>2. CASE s2.loading
  <2>1. s2' = [s2 EXCEPT !.cancelled = TRUE, !.paused = FALSE] /\ s4' = s4 \cup {s}
    BY <1>2 DEF Modes!Stopping
  <2>2. PageTasks(s4') = PageTasks(s4)
    BY <1>1, <2>1 DEF PageTasks
  <2>3. s2' \in Flags /\ s2'.loading = s2.loading
    BY <2>1 DEF OneRuns, Flags
  <2> QED
    BY <2>2, <2>3, Unchanged
<1>3. CASE ~s2.loading
  <2>1. Modes!Then(s, s4)
    BY <1>3 DEF Modes!Stopping
  <2> QED
    BY <1>1, <1>3, <2>1, ThenStep
<1> QED
  BY <1>2, <1>3

\* A page task is the only one, and it runs under the flag.
LEMMA TheOnePage ==
  ASSUME OneRuns, NEW t \in s4, t.what = "page"
  PROVE  s2.loading /\ PageTasks(s4) = {t}
<1>1. t \in PageTasks(s4)
  BY DEF PageTasks
<1> QED
  BY <1>1 DEF OneRuns, OnePage

LEMMA EndedStep ==
  ASSUME OneRuns, NEW t \in s4, t.what = "page", NEW l, Modes!Ended(t, l) PROVE OneRuns'
<1>1. PageTasks(s4) = {t}
  BY TheOnePage
<1>2. s4' = s4 \ {t} /\ s2' \in Flags /\ s2'.loading = FALSE
  BY DEF Modes!Ended, OneRuns, Flags
<1>3. {u \in s4' : u.what = "page"} = {}
  BY <1>1, <1>2 DEF PageTasks
<1>4. PageTasks(s4)' = {}
  BY <1>3 DEF PageTasks
<1> QED
  BY <1>2, <1>4 DEF OneRuns, OnePage

LEMMA LandedStep == ASSUME OneRuns, NEW t \in s4, Modes!Landed(t) PROVE OneRuns'
<1>1. t.what = "page"
  BY DEF Modes!Landed
<1>2. \/ Modes!Ended(t, s3')
      \/ \E p : p.what = "page" /\ s4' = (s4 \ {t}) \cup {p} /\ UNCHANGED s2
  <2>1. Modes!Page(t.mode, t.all, s3').what = "page"
    BY DEF Modes!Page
  <2> QED
    BY <2>1 DEF Modes!Landed
<1>3. CASE Modes!Ended(t, s3')
  BY <1>1, <1>3, EndedStep
<1>4. CASE \E p : p.what = "page" /\ s4' = (s4 \ {t}) \cup {p} /\ UNCHANGED s2
  <2>1. PICK p : p.what = "page" /\ s4' = (s4 \ {t}) \cup {p} /\ UNCHANGED s2
    BY <1>4
  <2>2. PageTasks(s4) = {t} /\ s2.loading
    BY <1>1, TheOnePage
  <2>3. {u \in s4' : u.what = "page"} = {p}
    BY <2>1, <2>2 DEF PageTasks
  <2>4. PageTasks(s4)' = {p}
    BY <2>3 DEF PageTasks
  <2> QED
    BY <2>1, <2>2, <2>4 DEF OneRuns, OnePage
<1> QED
  BY <1>2, <1>3, <1>4

\* What the user does.
LEMMA UserStep ==
  ASSUME OneRuns,
         \/ Modes!ChooseScan \/ Modes!ChooseSearch \/ Modes!RefreshNames \/ Modes!Restart \/ Modes!Refresh \/ Modes!Pause \/ Modes!Resume
         \/ \E i \in Indexes : Modes!Browse(i) \/ Modes!PickIndex(i)
         \/ Modes!Query(FALSE, FALSE) \/ Modes!Query(TRUE, FALSE) \/ Modes!Query(TRUE, TRUE)
  PROVE  OneRuns'
<1>1. CASE Modes!ChooseScan \/ Modes!ChooseSearch \/ Modes!Restart \/ Modes!Refresh
  BY <1>1, StoppingStep DEF Modes!ChooseScan, Modes!ChooseSearch, Modes!Restart, Modes!Refresh
<1>2. ASSUME NEW i \in Indexes, Modes!Browse(i) PROVE OneRuns'
  BY <1>2, StoppingStep DEF Modes!Browse
<1>3. ASSUME NEW i \in Indexes, Modes!PickIndex(i) PROVE OneRuns'
  <2>1. CASE UNCHANGED <<s2, s3, s4>>
    BY <2>1, Unchanged DEF OneRuns
  <2>2. CASE \E u : Modes!Stopping("search", None, FALSE, u)
    BY <2>2, StoppingStep
  <2> QED
    BY <1>3, <2>1, <2>2 DEF Modes!PickIndex
<1>4. CASE Modes!RefreshNames
  <2> DEFINE n == [what |-> "names", prefer |-> None, prev |-> s1.index, then |-> "names"]
  <2>1. s4' = s4 \cup {n} /\ UNCHANGED s2
    BY <1>4 DEF Modes!RefreshNames, Modes!Names
  <2>2. n.what = "names"
    OBVIOUS
  <2>3. PageTasks(s4') = PageTasks(s4)
    BY <2>1, <2>2 DEF PageTasks
  <2> QED
    BY <2>1, <2>3, Unchanged DEF OneRuns
<1>5. CASE Modes!Pause
  <2>1. s2' \in Flags /\ s2'.loading = s2.loading /\ UNCHANGED s4
    BY <1>5 DEF Modes!Pause, OneRuns, Flags
  <2> QED
    BY <2>1, Unchanged
<1>6. CASE Modes!Resume
  <2>1. s2.all \in BOOLEAN
    BY DEF OneRuns, Flags
  <2>2. ~s2.loading /\ \/ s4' = s4 /\ s2' = [s2 EXCEPT !.paused = FALSE]
                       \/ Modes!Begin(s1.mode, s4, s3, FALSE, s2.all)
    BY <1>6 DEF Modes!Resume
  <2>3. CASE s4' = s4 /\ s2' = [s2 EXCEPT !.paused = FALSE]
    <3>1. s2' \in Flags /\ s2'.loading = s2.loading
      BY <2>3 DEF OneRuns, Flags
    <3> QED
      BY <2>3, <3>1, Unchanged
  <2>4. CASE Modes!Begin(s1.mode, s4, s3, FALSE, s2.all)
    BY <2>1, <2>2, <2>4, BeginStep
  <2> QED
    BY <2>2, <2>3, <2>4
<1>7. ASSUME NEW append \in BOOLEAN, NEW all \in BOOLEAN, Modes!Query(append, all) PROVE OneRuns'
  <2>1. Modes!RunSearchKeys(s4, s3, append, all) \/ Modes!ScanKey(s4, s3, append, all)
    BY <1>7 DEF Modes!Query
  <2> QED
    BY <2>1, RunSearchStep, ScanKeyStep
<1> QED
  BY <1>1, <1>2, <1>3, <1>4, <1>5, <1>6, <1>7

\* Handlers that go on.
LEMMA HandlerStep ==
  ASSUME Modes!TypeOK, OneRuns, NEW t \in s4, Modes!GoOn(t) \/ Modes!GotNames(t) \/ Modes!NamesFail(t) \/ Modes!PageFails(t)
  PROVE  OneRuns'
<1>1. t.what # "page" => PageTasks(s4 \ {t}) = PageTasks(s4)
  BY DEF PageTasks
<1>2. CASE Modes!GoOn(t)
  <2>1. t.what = "stop" /\ ~s2.loading /\ Modes!Then(t, s4 \ {t})
    BY <1>2 DEF Modes!GoOn
  <2>2. t.then \in {"scan", "search", "enter", "browse", "refresh"}
    BY <2>1 DEF Modes!TypeOK, Modes!Task
  <2> QED
    BY <1>1, <2>1, <2>2, ThenStep
<1>3. CASE Modes!GotNames(t)
  <2>1. t.what = "names"
    BY <1>3 DEF Modes!GotNames
  <2>2. \/ s4' = s4 \ {t} /\ s2' = s2
        \/ Modes!RunSearchKeys(s4 \ {t}, s3, FALSE, FALSE)
    BY <1>3 DEF Modes!GotNames, Modes!Nothing
  <2>3. CASE s4' = s4 \ {t} /\ s2' = s2
    BY <1>1, <2>1, <2>3, Unchanged DEF OneRuns
  <2>4. CASE Modes!RunSearchKeys(s4 \ {t}, s3, FALSE, FALSE)
    BY <1>1, <2>1, <2>4, RunSearchStep
  <2> QED
    BY <2>2, <2>3, <2>4
<1>4. CASE Modes!NamesFail(t)
  BY <1>1, <1>4, Unchanged DEF Modes!NamesFail, OneRuns
<1>5. CASE Modes!PageFails(t)
  BY <1>5, EndedStep DEF Modes!PageFails
<1> QED
  BY <1>2, <1>3, <1>4, <1>5

-----------------------------------------------------------------------------
(* Types.                                                                  *)

UI == [mode : {"scan", "search"}, index : Modes!Maybe, naming : BOOLEAN, ignore : BOOLEAN]
List == [buf : SUBSET Modes!Rows, shown : SUBSET Modes!Rows, cursor : 0..Pages, offset : 0..Pages, total : {0, Pages}]

\* What the shared parts set.
WorkOK == s2 \in Flags /\ s3 \in List /\ s4 \subseteq Modes!Task

LEMMA Parted == Modes!TypeOK <=> /\ s1 \in UI /\ WorkOK
                                 /\ s5 \in [overtaken : BOOLEAN, failed : BOOLEAN]
BY DEF Modes!TypeOK, UI, WorkOK, Flags, List

LEMMA ClearedTyped ==
  ASSUME Pages \in Nat, NEW l \in List
  PROVE  Modes!Cleared(l) \in List /\ [Modes!Cleared(l) EXCEPT !.cursor = 0] \in List
         /\ [l EXCEPT !.cursor = 0, !.buf = {}] \in List /\ [l EXCEPT !.cursor = 0] \in List
<1>1. 0 \in 0..Pages
  OBVIOUS
<1>2. Modes!Cleared(l) \in List
  BY <1>1 DEF Modes!Cleared, List
<1>3. \A m \in List : [m EXCEPT !.cursor = 0] \in List
  BY <1>1 DEF List
<1>4. [l EXCEPT !.cursor = 0, !.buf = {}] \in List
  BY <1>1 DEF List
<1> QED
  BY <1>2, <1>3, <1>4

LEMMA PageTaskTyped ==
  ASSUME Pages \in Nat, s1' \in UI, NEW l \in List,
         NEW mode \in {"scan", "search"}, NEW all \in BOOLEAN
  PROVE  Modes!Page(mode, all, l) \in Modes!Task
<1>1. s1'.index \in Modes!Maybe
  BY DEF UI
<1>2. (IF mode = "search" THEN s1'.index ELSE IF s1'.mode = "scan" THEN "scan" ELSE None) \in Modes!Maybe \cup {"scan"}
  BY <1>1 DEF Modes!Maybe
<1>3. (IF mode = "search" THEN l.offset ELSE l.cursor) \in 0..Pages
  BY DEF List
<1>4. Modes!Page(mode, all, l) \in
        [what : {"page"}, mode : {"scan", "search"}, all : BOOLEAN, of : Modes!Maybe \cup {"scan"}, from : 0..Pages]
  BY <1>2, <1>3 DEF Modes!Page
<1> QED
  BY <1>4 DEF Modes!Task

LEMMA BeginTyped ==
  ASSUME Pages \in Nat, s1' \in UI, WorkOK, NEW ts, ts \subseteq Modes!Task, NEW l \in List,
         NEW mode \in {"scan", "search"}, NEW paused \in BOOLEAN, NEW all \in BOOLEAN,
         Modes!Begin(mode, ts, l, paused, all)
  PROVE  WorkOK'
<1>1. s4' \subseteq Modes!Task /\ s3' \in List
  BY PageTaskTyped DEF Modes!Begin
<1>2. s2' \in Flags
  BY DEF Modes!Begin, WorkOK, Flags
<1> QED
  BY <1>1, <1>2 DEF WorkOK, Modes!Task, List, Modes!Rows

LEMMA ScanKeyTyped ==
  ASSUME Pages \in Nat, s1' \in UI, WorkOK, NEW ts, ts \subseteq Modes!Task, NEW l \in List,
         NEW append \in BOOLEAN, NEW all \in BOOLEAN, Modes!ScanKey(ts, l, append, all)
  PROVE  WorkOK'
<1>1. CASE s2.loading
  BY <1>1 DEF Modes!ScanKey, Modes!Busy, Modes!Nothing, WorkOK
<1>2. CASE ~s2.loading
  <2>1. PICK m \in List : Modes!Begin("scan", ts, m, s2.paused /\ append, all)
    BY <1>2, ClearedTyped DEF Modes!ScanKey, Modes!Busy
  <2>2. (s2.paused /\ append) \in BOOLEAN
    BY DEF WorkOK, Flags
  <2> QED
    BY <2>1, <2>2, BeginTyped
<1> QED
  BY <1>1, <1>2

LEMMA QueryIndexTyped ==
  ASSUME Pages \in Nat, s1' \in UI, WorkOK, NEW ts, ts \subseteq Modes!Task, NEW l \in List,
         NEW append \in BOOLEAN, NEW all \in BOOLEAN, Modes!QueryIndex(ts, l, append, all)
  PROVE  WorkOK'
<1>1. (s2.paused /\ append) \in BOOLEAN
  BY DEF WorkOK, Flags
<1>2. \/ \E m \in List : s4' = ts /\ s3' = m /\ s2' = s2
      \/ \E m \in List : Modes!Begin("search", ts, m, s2.paused /\ append, all)
  BY ClearedTyped DEF Modes!QueryIndex, Modes!Nothing
<1>3. CASE \E m \in List : s4' = ts /\ s3' = m /\ s2' = s2
  BY <1>3 DEF WorkOK
<1>4. CASE \E m \in List : Modes!Begin("search", ts, m, s2.paused /\ append, all)
  BY <1>1, <1>4, BeginTyped
<1> QED
  BY <1>2, <1>3, <1>4

LEMMA RunSearchTyped ==
  ASSUME Pages \in Nat, s1' \in UI, WorkOK, NEW ts, ts \subseteq Modes!Task, NEW l \in List,
         NEW append \in BOOLEAN, NEW all \in BOOLEAN, Modes!RunSearchKeys(ts, l, append, all)
  PROVE  WorkOK'
<1>1. \/ s4' = ts /\ s3' = l /\ s2' = s2
      \/ Modes!QueryIndex(ts, l, append, all)
  BY DEF Modes!RunSearchKeys, Modes!Nothing
<1>2. CASE s4' = ts /\ s3' = l /\ s2' = s2
  BY <1>2 DEF WorkOK
<1>3. CASE Modes!QueryIndex(ts, l, append, all)
  BY <1>3, QueryIndexTyped
<1> QED
  BY <1>1, <1>2, <1>3

Stops == [what : {"stop"}, prefer : Modes!Maybe, already : BOOLEAN,
          then : {"scan", "search", "enter", "browse", "refresh"}]

LEMMA ThenTyped ==
  ASSUME Pages \in Nat, s1 \in UI, s1' \in UI, WorkOK, NEW s \in Stops,
         NEW ts, ts \subseteq Modes!Task, Modes!Then(s, ts)
  PROVE  WorkOK'
<1> s3 \in List
  BY DEF WorkOK
<1>1. CASE s.then = "scan"
  BY <1>1, ScanKeyTyped DEF Modes!Then
<1>2. CASE s.then = "search"
  BY <1>2, QueryIndexTyped DEF Modes!Then
<1>3. CASE s.then = "refresh"
  BY <1>3, ClearedTyped, ScanKeyTyped DEF Modes!Then
<1>4. CASE s.then \in {"enter", "browse"}
  <2> DEFINE n == [what |-> "names", prefer |-> s.prefer, prev |-> s1.index, then |-> s.then]
  <2>1. n \in Modes!Task
    BY <1>4 DEF Modes!Task, Stops, UI
  <2>2. /\ s2' = [s2 EXCEPT !.paused = FALSE] /\ s4' = ts \cup {n}
        /\ s3' = [(IF s.already THEN s3 ELSE Modes!Cleared(s3)) EXCEPT !.cursor = 0]
    BY <1>4 DEF Modes!Then, Modes!Names
  <2>3. s3' \in List
    BY <2>2, ClearedTyped
  <2>4. s2' \in Flags
    BY <2>2 DEF WorkOK, Flags
  <2> QED
    BY <2>1, <2>2, <2>3, <2>4 DEF WorkOK
<1> QED
  BY <1>1, <1>2, <1>3, <1>4 DEF Stops

LEMMA SetsTyped ==
  ASSUME NEW s \in Stops, NEW u \in UI PROVE Modes!Sets(s, u) \in UI
BY DEF Modes!Sets, UI, Modes!Maybe

Off == [overtaken : BOOLEAN, failed : BOOLEAN]

LEMMA StoppingTyped ==
  ASSUME Pages \in Nat, Modes!TypeOK, NEW then \in {"scan", "search", "enter", "browse", "refresh"},
         NEW prefer \in Modes!Maybe, NEW already \in BOOLEAN, NEW u \in UI,
         Modes!Stopping(then, prefer, already, u)
  PROVE  Modes!TypeOK'
<1> DEFINE s == [what |-> "stop", then |-> then, prefer |-> prefer, already |-> already]
<1>0. s1 \in UI /\ WorkOK
  BY Parted
<1>1. s \in Stops /\ s \in Modes!Task
  BY DEF Stops, Modes!Task
<1>2. s5' \in Off
  BY DEF Modes!Stopping, Off
<1>3. CASE s2.loading
  <2>1. /\ s1' = u /\ s2' = [s2 EXCEPT !.cancelled = TRUE, !.paused = FALSE]
        /\ s4' = s4 \cup {s} /\ UNCHANGED s3
    BY <1>3 DEF Modes!Stopping
  <2>2. s2' \in Flags
    BY <1>0, <2>1 DEF WorkOK, Flags
  <2>3. WorkOK'
    BY <1>0, <1>1, <2>1, <2>2 DEF WorkOK
  <2> QED
    BY <1>2, <2>1, <2>3, Parted DEF Off, Modes!TypeOK, UI, WorkOK, Flags, List
<1>4. CASE ~s2.loading
  <2>1. s1' = Modes!Sets(s, u) /\ Modes!Then(s, s4)
    BY <1>4 DEF Modes!Stopping
  <2>2. s1' \in UI
    BY <1>1, <2>1, SetsTyped
  <2>3. WorkOK'
    BY <1>0, <1>1, <2>1, <2>2, ThenTyped DEF WorkOK
  <2> QED
    BY <1>2, <2>2, <2>3 DEF Off, Modes!TypeOK, UI, WorkOK, Flags, List
<1> QED
  BY <1>3, <1>4

LEMMA ModesTypeInit == ASSUME Pages \in Nat, Modes!Init PROVE Modes!TypeOK
<1> DEFINE t == [what |-> "page", mode |-> "scan", all |-> FALSE, of |-> "scan", from |-> 0]
<1>1. t \in Modes!Task
  BY DEF Modes!Task
<1>2. s1 \in UI /\ s2 \in Flags /\ s5 \in Off
  BY DEF Modes!Init, UI, Flags, Off, Modes!Maybe
<1>3. s3 \in List
  BY DEF Modes!Init, List
<1> QED
  BY <1>1, <1>2, <1>3, Parted DEF Modes!Init, WorkOK, Off

\* A step whose parts have their types.
LEMMA TypedStep ==
  ASSUME s1' \in UI, WorkOK', s5' \in Off PROVE Modes!TypeOK'
BY DEF Modes!TypeOK, UI, WorkOK, Off, Flags, List

LEMMA UserTyped ==
  ASSUME Pages \in Nat, Modes!TypeOK,
         \/ Modes!ChooseScan \/ Modes!ChooseSearch \/ Modes!RefreshNames \/ Modes!Restart \/ Modes!Refresh \/ Modes!Pause \/ Modes!Resume
         \/ \E i \in Indexes : Modes!Browse(i) \/ Modes!PickIndex(i)
         \/ Modes!Query(FALSE, FALSE) \/ Modes!Query(TRUE, FALSE) \/ Modes!Query(TRUE, TRUE)
  PROVE  Modes!TypeOK'
<1>0. s1 \in UI /\ WorkOK /\ s5 \in Off
  BY Parted DEF Off
<1>1. ASSUME NEW m \in {"scan", "search"} PROVE [s1 EXCEPT !.mode = m] \in UI
  BY <1>0 DEF UI
<1>2. None \in Modes!Maybe
  BY DEF Modes!Maybe
<1>3. CASE Modes!ChooseScan
  BY <1>1, <1>2, <1>3, StoppingTyped DEF Modes!ChooseScan
<1>4. CASE Modes!ChooseSearch
  BY <1>1, <1>2, <1>4, StoppingTyped DEF Modes!ChooseSearch
<1>5. CASE Modes!Restart \/ Modes!Refresh
  BY <1>0, <1>2, <1>5, StoppingTyped DEF Modes!Restart, Modes!Refresh
<1>6. ASSUME NEW i \in Indexes, Modes!Browse(i) PROVE Modes!TypeOK'
  <2>1. i \in Modes!Maybe /\ (s1.mode = "search") \in BOOLEAN
    BY DEF Modes!Maybe
  <2> QED
    BY <1>1, <1>6, <2>1, StoppingTyped DEF Modes!Browse
<1>7. ASSUME NEW i \in Indexes, Modes!PickIndex(i) PROVE Modes!TypeOK'
  <2>1. [s1 EXCEPT !.index = i] \in UI
    BY <1>0 DEF UI, Modes!Maybe
  <2>2. CASE s1.ignore
    <3>1. s1' \in UI /\ s5' \in Off /\ UNCHANGED <<s2, s3, s4>>
      BY <1>0, <1>7, <2>1, <2>2 DEF Modes!PickIndex, Off
    <3>2. WorkOK'
      BY <1>0, <3>1 DEF WorkOK
    <3> QED
      BY <3>1, <3>2, TypedStep
  <2>3. CASE ~s1.ignore
    BY <1>2, <1>7, <2>1, <2>3, StoppingTyped DEF Modes!PickIndex
  <2> QED
    BY <2>2, <2>3
<1>8. CASE Modes!RefreshNames
  <2> DEFINE n == [what |-> "names", prefer |-> None, prev |-> s1.index, then |-> "names"]
  <2>1. n \in Modes!Task
    BY <1>0, <1>2 DEF Modes!Task, UI
  <2>2. /\ s4' = s4 \cup {n} /\ s1' = [s1 EXCEPT !.naming = TRUE, !.ignore = TRUE]
        /\ UNCHANGED <<s2, s3>> /\ s5' = [s5 EXCEPT !.overtaken = @ \/ ~Modes!Settled]
    BY <1>8 DEF Modes!RefreshNames, Modes!Names
  <2>3. s1' \in UI /\ s5' \in Off
    BY <1>0, <2>2 DEF UI, Off
  <2>4. WorkOK'
    BY <1>0, <2>1, <2>2 DEF WorkOK
  <2> QED
    BY <2>3, <2>4, TypedStep
<1>9. CASE Modes!Pause
  <2>1. s2' \in Flags /\ UNCHANGED <<s1, s3, s4, s5>>
    BY <1>0, <1>9 DEF Modes!Pause, WorkOK, Flags
  <2>2. WorkOK'
    BY <1>0, <2>1 DEF WorkOK
  <2> QED
    BY <1>0, <2>1, <2>2, TypedStep
<1>10. ASSUME NEW append \in BOOLEAN, NEW all \in BOOLEAN, UNCHANGED s1,
              s5' = [s5 EXCEPT !.overtaken = @ \/ ~Modes!Settled],
              Modes!RunSearchKeys(s4, s3, append, all) \/ Modes!ScanKey(s4, s3, append, all)
       PROVE  Modes!TypeOK'
  <2>1. s1' \in UI /\ s5' \in Off
    BY <1>0, <1>10 DEF Off
  <2>2. WorkOK'
    BY <1>0, <1>10, <2>1, RunSearchTyped, ScanKeyTyped DEF WorkOK
  <2> QED
    BY <2>1, <2>2, TypedStep
<1>11. CASE Modes!Resume
  <2>1. s2.all \in BOOLEAN /\ s1.mode \in {"scan", "search"}
    BY <1>0 DEF WorkOK, Flags, UI
  <2>2. s1' \in UI /\ s5' \in Off
    BY <1>0, <1>11 DEF Modes!Resume, Off
  <2>3. \/ s4' = s4 /\ s3' = Modes!Cleared(s3) /\ s2' = [s2 EXCEPT !.paused = FALSE]
        \/ Modes!Begin(s1.mode, s4, s3, FALSE, s2.all)
    BY <1>11 DEF Modes!Resume
  <2>4. CASE s4' = s4 /\ s3' = Modes!Cleared(s3) /\ s2' = [s2 EXCEPT !.paused = FALSE]
    <3>1. s3' \in List /\ s2' \in Flags
      BY <1>0, <2>4, ClearedTyped DEF WorkOK, Flags
    <3>2. WorkOK'
      BY <1>0, <2>4, <3>1 DEF WorkOK
    <3> QED
      BY <2>2, <3>2, TypedStep
  <2>5. CASE Modes!Begin(s1.mode, s4, s3, FALSE, s2.all)
    <3>1. WorkOK'
      BY <1>0, <2>1, <2>2, <2>5, BeginTyped DEF WorkOK
    <3> QED
      BY <2>2, <3>1, TypedStep
  <2> QED
    BY <2>3, <2>4, <2>5
<1>12. ASSUME NEW append \in BOOLEAN, NEW all \in BOOLEAN, Modes!Query(append, all) PROVE Modes!TypeOK'
  BY <1>10, <1>12 DEF Modes!Query
<1> QED
  BY <1>3, <1>4, <1>5, <1>6, <1>7, <1>8, <1>9, <1>11, <1>12

LEMMA EndedTyped ==
  ASSUME WorkOK, NEW t, NEW l, Modes!Ended(t, l) PROVE s4' \subseteq Modes!Task /\ s2' \in Flags
BY DEF Modes!Ended, WorkOK, Flags

LEMMA LandedTyped == ASSUME Pages \in Nat \ {0}, Modes!TypeOK, NEW t \in s4, Modes!Landed(t) PROVE Modes!TypeOK'
<1> DEFINE rows == s3.buf \cup IF t.of = None \/ t.from = Pages THEN {} ELSE {<<t.of, t.from + 1>>}
<1>0. s1 \in UI /\ WorkOK /\ s5 \in Off /\ UNCHANGED <<s1, s5>>
  BY Parted DEF Off, Modes!Landed
<1>1. /\ t.mode \in {"scan", "search"} /\ t.all \in BOOLEAN /\ t.of \in Modes!Maybe \cup {"scan"}
      /\ t.from \in 0..Pages
  BY <1>0 DEF Modes!Landed, WorkOK, Modes!Task
<1>2. rows \subseteq Modes!Rows
  <2>1. CASE t.of = None \/ t.from = Pages
    BY <1>0, <2>1 DEF WorkOK, List
  <2>2. CASE ~(t.of = None \/ t.from = Pages)
    <3>1. t.of \in Indexes \cup {"scan"} /\ t.from + 1 \in 1..Pages
      BY <1>1, <2>2 DEF Modes!Maybe
    <3>2. <<t.of, t.from + 1>> \in Modes!Rows
      BY <3>1 DEF Modes!Rows
    <3> QED
      BY <1>0, <2>2, <3>2 DEF WorkOK, List
  <2> QED
    BY <2>1, <2>2
<1>3. s3' \in List
  <2>1. CASE t.mode = "search"
    <3>1. s3' = [s3 EXCEPT !.buf = rows, !.shown = rows, !.total = Pages,
                     !.offset = IF t.from = Pages \/ @ = Pages THEN Pages ELSE @ + 1]
      BY <2>1 DEF Modes!Landed
    <3>2. (IF t.from = Pages \/ s3.offset = Pages THEN Pages ELSE s3.offset + 1) \in 0..Pages
      BY <1>0 DEF WorkOK, List
    <3> QED
      BY <1>0, <1>2, <3>1, <3>2 DEF WorkOK, List
  <2>2. CASE t.mode # "search"
    <3>1. s3' = [s3 EXCEPT !.buf = rows, !.shown = rows,
                     !.cursor = IF t.from + 1 >= Pages THEN Pages ELSE t.from + 1]
      BY <2>2 DEF Modes!Landed
    <3>2. (IF t.from + 1 >= Pages THEN Pages ELSE t.from + 1) \in 0..Pages
      BY <1>1
    <3> QED
      BY <1>0, <1>2, <3>1, <3>2 DEF WorkOK, List
  <2> QED
    BY <2>1, <2>2
<1>4. \/ Modes!Ended(t, s3')
      \/ s4' = (s4 \ {t}) \cup {Modes!Page(t.mode, t.all, s3')} /\ UNCHANGED s2
  BY DEF Modes!Landed
<1>5. Modes!Page(t.mode, t.all, s3') \in Modes!Task
  BY <1>0, <1>1, <1>3, PageTaskTyped
<1>6. s4' \subseteq Modes!Task /\ s2' \in Flags
  BY <1>0, <1>4, <1>5, EndedTyped DEF WorkOK
<1> QED
  BY <1>0, <1>3, <1>6, TypedStep DEF WorkOK, List, Flags, Modes!Task

LEMMA HandlerTyped ==
  ASSUME Pages \in Nat, Modes!TypeOK, NEW t \in s4, Modes!GoOn(t) \/ Modes!GotNames(t) \/ Modes!NamesFail(t) \/ Modes!PageFails(t)
  PROVE  Modes!TypeOK'
<1>0. s1 \in UI /\ WorkOK /\ s5 \in Off /\ s4 \ {t} \subseteq Modes!Task /\ t \in Modes!Task /\ s3 \in List
  BY Parted DEF Off, WorkOK
<1>1. CASE Modes!GoOn(t)
  <2>1. t \in Stops /\ s1' = Modes!Sets(t, s1) /\ Modes!Then(t, s4 \ {t}) /\ UNCHANGED s5
    BY <1>0, <1>1 DEF Modes!GoOn, Stops, Modes!Task
  <2>2. s1' \in UI
    BY <1>0, <2>1, SetsTyped
  <2> QED
    BY <1>0, <2>1, <2>2, ThenTyped, TypedStep
<1>2. CASE Modes!GotNames(t)
  <2>1. PICK i \in Modes!Maybe :
          /\ s1' = [s1 EXCEPT !.index = i, !.naming = FALSE, !.ignore = FALSE]
          /\ \/ Modes!Nothing(s4 \ {t}, s3) \/ Modes!Nothing(s4 \ {t}, Modes!Cleared(s3))
             \/ Modes!RunSearchKeys(s4 \ {t}, s3, FALSE, FALSE)
    BY <1>2 DEF Modes!GotNames
  <2>2. s1' \in UI /\ UNCHANGED s5
    BY <1>0, <1>2, <2>1 DEF UI, Modes!GotNames
  <2>3. WorkOK'
    <3>1. CASE Modes!RunSearchKeys(s4 \ {t}, s3, FALSE, FALSE)
      BY <1>0, <2>2, <3>1, RunSearchTyped
    <3>2. CASE Modes!Nothing(s4 \ {t}, s3) \/ Modes!Nothing(s4 \ {t}, Modes!Cleared(s3))
      BY <1>0, <3>2, ClearedTyped DEF Modes!Nothing, WorkOK
    <3> QED
      BY <2>1, <3>1, <3>2
  <2> QED
    BY <1>0, <2>2, <2>3, TypedStep
<1>3. CASE Modes!NamesFail(t)
  <2>1. s1' \in UI /\ s5' \in Off
    BY <1>0, <1>3 DEF Modes!NamesFail, UI, Off
  <2>2. WorkOK'
    BY <1>0, <1>3 DEF Modes!NamesFail, WorkOK
  <2> QED
    BY <2>1, <2>2, TypedStep
<1>4. CASE Modes!PageFails(t)
  <2>1. Modes!Ended(t, s3) /\ UNCHANGED <<s1, s3>> /\ s5' \in Off
    BY <1>0, <1>4 DEF Modes!PageFails, Off
  <2>2. WorkOK'
    BY <1>0, <2>1, EndedTyped DEF WorkOK
  <2> QED
    BY <1>0, <2>1, <2>2, TypedStep
<1> QED
  BY <1>1, <1>2, <1>3, <1>4

-----------------------------------------------------------------------------
(* The rows are the mode's and index's own.  As long as no handler was     *)
(* overtaken, only one waits at a time, and what it waits for decides what *)
(* the list has: nothing is known while a scan is still to be stopped, the *)
(* names of the indexes come to a list that nobody reads for, and a page   *)
(* under way is the one that the list lacks.                               *)

Calm == ~s5.overtaken /\ ~s5.failed

\* Whose rows the list has, and that it has all that were read.
Filled == s3.buf = {Modes!Whose} \X (1..Modes!Read)
Full == Filled /\ s3.shown = s3.buf

PageFits(t) ==
  Modes!Settled => t.mode = s1.mode /\ t.of = Modes!Whose /\ t.of # None /\ t.from = Modes!Read /\ Filled
StopFits(t) ==
  /\ t.then = "scan" => s1.mode = "scan"
  /\ t.then \in {"search", "enter", "browse"} => s1.mode = "search"
NamesFit(t) ==
  ~s2.loading /\ s1.mode = "search" /\ (t.then = "names" => s1.index = t.prev /\ Full)

RowsOwn == Calm =>
  /\ \A t \in s4 : /\ t.what = "page" => PageFits(t)
                   /\ t.what = "stop" => StopFits(t)
                   /\ t.what = "names" => NamesFit(t)
  /\ \A t, u \in s4 : t.what # "page" /\ u.what # "page" => t = u
  /\ Modes!AtRest => Full

\* The rows of the page after the last one that was read.
LEMMA NextPage ==
  ASSUME NEW w, NEW n \in Nat
  PROVE  ({w} \X (1..n)) \cup {<<w, n + 1>>} = {w} \X (1..n + 1)
<1>1. (1..n) \cup {n + 1} = 1..n + 1
  OBVIOUS
<1> QED
  BY <1>1

LEMMA NoRows == \A w : {w} \X (1..0) = {}
OBVIOUS

\* A scan or a query begins when nothing else is there.
LEMMA BeginOwn ==
  ASSUME None # "scan", NEW mode \in {"scan", "search"}, NEW l \in List,
         NEW paused \in BOOLEAN, NEW all \in BOOLEAN, Modes!Begin(mode, {}, l, paused, all),
         s1' \in UI, s1'.mode = mode, mode = "search" => s1'.index # None,
         mode = "scan" => l.buf = {"scan"} \X (1..l.cursor),
         mode = "search" => l.buf = {s1'.index} \X (1..l.offset)
  PROVE  RowsOwn'
<1> PICK p : p = Modes!Page(mode, all, l)
  OBVIOUS
<1>1. s4' = {p} /\ s3' = l
  BY DEF Modes!Begin
<1>2. /\ p.what = "page" /\ p.mode = mode
      /\ p.of = (IF mode = "search" THEN s1'.index ELSE "scan")
      /\ p.from = (IF mode = "search" THEN l.offset ELSE l.cursor)
  BY DEF Modes!Page
<1>3. Modes!Whose' = p.of /\ Modes!Read' = p.from /\ p.of # None
  BY <1>1, <1>2 DEF Modes!Whose, Modes!Read
<1>4. Filled'
  BY <1>1, <1>2, <1>3 DEF Filled
<1>5. PageFits(p)'
  BY <1>2, <1>3, <1>4 DEF PageFits
<1> QED
  BY <1>1, <1>2, <1>5 DEF RowsOwn, Modes!AtRest

LEMMA ScanKeyOwn ==
  ASSUME Pages \in Nat, None # "scan", s2 \in Flags, ~s2.loading, NEW l \in List,
         NEW append \in BOOLEAN, NEW all \in BOOLEAN, Modes!ScanKey({}, l, append, all),
         s1' \in UI, s1'.mode = "scan", append => l.buf = {"scan"} \X (1..l.cursor)
  PROVE  RowsOwn'
<1> DEFINE m == IF append THEN l ELSE [l EXCEPT !.cursor = 0, !.buf = {}]
<1>1. Modes!Begin("scan", {}, m, s2.paused /\ append, all) /\ (s2.paused /\ append) \in BOOLEAN
  BY DEF Modes!ScanKey, Modes!Busy, Flags
<1>2. m \in List /\ m.buf = {"scan"} \X (1..m.cursor)
  BY NoRows, ClearedTyped DEF List
<1> HIDE DEF m
<1> QED
  BY <1>1, <1>2, BeginOwn

\* With no index chosen the list is empty, and so are the rows of none that were read.
LEMMA QueryIndexOwn ==
  ASSUME Pages \in Nat, None # "scan", s2 \in Flags, NEW l \in List,
         NEW append \in BOOLEAN, NEW all \in BOOLEAN, Modes!QueryIndex({}, l, append, all),
         s1' \in UI, s1'.mode = "search", append => l.buf = {s1'.index} \X (1..l.offset)
  PROVE  RowsOwn'
<1>1. Modes!Cleared(l) \in List /\ Modes!Cleared(l).buf = {} /\ Modes!Cleared(l).shown = {} /\ Modes!Cleared(l).offset = 0
  BY ClearedTyped DEF Modes!Cleared, List
<1>2. CASE s1'.index = None
  <2>1. s4' = {} /\ s3' = Modes!Cleared(l)
    BY <1>2 DEF Modes!QueryIndex, Modes!Nothing
  <2>2. Full'
    BY <1>1, <2>1, NoRows DEF Full, Filled, Modes!Whose, Modes!Read
  <2> QED
    BY <2>1, <2>2 DEF RowsOwn
<1>3. CASE s1'.index # None
  <2> DEFINE m == IF append THEN l ELSE Modes!Cleared(l)
  <2>1. /\ Modes!Begin("search", {}, m, s2.paused /\ append, all)
        /\ (s2.paused /\ append) \in BOOLEAN
    BY <1>3 DEF Modes!QueryIndex, Flags
  <2>2. m \in List /\ m.buf = {s1'.index} \X (1..m.offset)
    BY <1>1, NoRows
  <2> HIDE DEF m
  <2> QED
    BY <1>3, <2>1, <2>2, BeginOwn
<1> QED
  BY <1>2, <1>3

\* A handler that is alone, when what it waited for is over.
LEMMA ThenOwn ==
  ASSUME Pages \in Nat, None # "scan", ~s2.loading, WorkOK, NEW s \in Stops,
         s1' \in UI, s.then \in {"scan", "refresh"} => s1'.mode = "scan",
         s.then \in {"search", "enter", "browse"} => s1'.mode = "search", Modes!Then(s, {})
  PROVE  RowsOwn'
<1> s3 \in List /\ s2 \in Flags
  BY DEF WorkOK
<1>1. CASE s.then = "scan"
  BY <1>1, ScanKeyOwn DEF Modes!Then
<1>2. CASE s.then = "search"
  BY <1>2, QueryIndexOwn DEF Modes!Then
<1>3. CASE s.then = "refresh"
  BY <1>3, ClearedTyped, ScanKeyOwn DEF Modes!Then
<1>4. CASE s.then \in {"enter", "browse"}
  <2> PICK n : n = [what |-> "names", prefer |-> s.prefer, prev |-> s1.index, then |-> s.then]
    OBVIOUS
  <2>1. n.what = "names" /\ n.then # "names"
    BY <1>4
  <2>2. s2' = [s2 EXCEPT !.paused = FALSE] /\ s4' = {n}
    BY <1>4 DEF Modes!Then, Modes!Names
  <2>3. ~s2'.loading
    BY <2>2 DEF WorkOK, Flags
  <2>4. NamesFit(n)'
    BY <1>4, <2>1, <2>3 DEF NamesFit
  <2> QED
    BY <2>1, <2>2, <2>4 DEF RowsOwn, Modes!AtRest
<1> QED
  BY <1>1, <1>2, <1>3, <1>4 DEF Stops

\* With nothing else there nothing is loading, and with nothing loading there is no page.
LEMMA Alone ==
  ASSUME Modes!TypeOK, OneRuns, Modes!Settled, ~s2.loading PROVE s4 = {}
BY DEF OneRuns, OnePage, PageTasks, Modes!Settled

LEMMA StoppingOwn ==
  ASSUME Pages \in Nat, None # "scan", Modes!TypeOK, OneRuns, RowsOwn,
         NEW then \in {"scan", "search", "enter", "browse", "refresh"},
         NEW prefer \in Modes!Maybe, NEW already \in BOOLEAN, NEW u \in UI,
         then = "scan" => u.mode = "scan",
         then \in {"search", "enter", "browse"} => u.mode = "search",
         Modes!Stopping(then, prefer, already, u)
  PROVE  RowsOwn'
<1> PICK s : s = [what |-> "stop", then |-> then, prefer |-> prefer, already |-> already]
  OBVIOUS
<1>0. s1 \in UI /\ WorkOK
  BY Parted
<1>1. s \in Stops /\ s.what = "stop" /\ s.then = then
  BY DEF Stops
<1>2. s5' = [overtaken |-> ~Modes!Settled, failed |-> FALSE]
  BY DEF Modes!Stopping
<1>3. CASE ~Modes!Settled
  BY <1>2, <1>3 DEF RowsOwn, Calm
<1>4. CASE Modes!Settled /\ s2.loading
  <2>1. s1' = u /\ s4' = s4 \cup {s}
    BY <1>4 DEF Modes!Stopping
  <2>2. StopFits(s)'
    BY <1>1, <2>1 DEF StopFits
  <2>3. ~Modes!Settled' /\ \A t \in s4 : t.what = "page"
    BY <1>1, <1>4, <2>1 DEF Modes!Settled
  <2> QED
    BY <1>1, <2>1, <2>2, <2>3 DEF RowsOwn, PageFits, Modes!AtRest
<1>5. CASE Modes!Settled /\ ~s2.loading
  <2>1. s4 = {}
    BY <1>5, Alone
  <2>2. s1' = Modes!Sets(s, u) /\ Modes!Then(s, {})
    BY <1>5, <2>1 DEF Modes!Stopping
  <2>3. s1' \in UI
    BY <1>1, <2>2, SetsTyped
  <2>4. /\ then \in {"scan", "refresh"} => s1'.mode = "scan"
        /\ then \in {"search", "enter", "browse"} => s1'.mode = "search"
    BY <1>1, <2>2 DEF Modes!Sets, UI
  <2> QED
    BY <1>0, <1>1, <1>5, <2>2, <2>3, <2>4, ThenOwn
<1> QED
  BY <1>3, <1>4, <1>5

\* A step that sets nobody aside begins at rest, if nothing loads.
LEMMA FromRest ==
  ASSUME Modes!TypeOK, OneRuns, RowsOwn, ~s2.loading, Calm',
         s5' = [s5 EXCEPT !.overtaken = @ \/ ~Modes!Settled]
  PROVE  s4 = {} /\ Full
<1>0. s5 \in Off
  BY Parted DEF Off
<1>1. Calm /\ Modes!Settled
  BY <1>0 DEF Calm, Off
<1> QED
  BY <1>1, Alone DEF RowsOwn, Modes!AtRest

LEMMA QueryOwn ==
  ASSUME Pages \in Nat, None # "scan", Modes!TypeOK, OneRuns, RowsOwn,
         NEW append \in BOOLEAN, NEW all \in BOOLEAN, Modes!Query(append, all)
  PROVE  RowsOwn'
<1>0. s1 \in UI /\ s2 \in Flags /\ s3 \in List /\ s1' = s1 /\ ~s2.loading
  BY Parted DEF WorkOK, Modes!Query
<1> SUFFICES ASSUME Calm' PROVE RowsOwn'
  BY DEF RowsOwn
<1>1. s4 = {} /\ Full
  BY <1>0, FromRest DEF Modes!Query
<1>2. CASE s1.mode = "search"
  <2>1. Modes!QueryIndex({}, s3, append, all)
    BY <1>0, <1>1, <1>2 DEF Modes!Query, Modes!RunSearchKeys, Modes!Busy
  <2> QED
    BY <1>0, <1>1, <1>2, <2>1, QueryIndexOwn DEF Full, Filled, Modes!Whose, Modes!Read
<1>3. CASE s1.mode # "search"
  <2>1. s1.mode = "scan" /\ Modes!ScanKey({}, s3, append, all)
    BY <1>0, <1>1, <1>3 DEF UI, Modes!Query
  <2> QED
    BY <1>0, <1>1, <2>1, ScanKeyOwn DEF Full, Filled, Modes!Whose, Modes!Read
<1> QED
  BY <1>2, <1>3

LEMMA ResumeOwn ==
  ASSUME Pages \in Nat, None # "scan", Modes!TypeOK, OneRuns, RowsOwn, Modes!Resume PROVE RowsOwn'
<1>0. s1 \in UI /\ s2 \in Flags /\ s3 \in List /\ s1' = s1 /\ ~s2.loading
  BY Parted DEF WorkOK, Modes!Resume
<1> SUFFICES ASSUME Calm' PROVE RowsOwn'
  BY DEF RowsOwn
<1>1. s4 = {} /\ Full
  BY <1>0, FromRest DEF Modes!Resume
<1>2. CASE s1.mode = "search" /\ s1.index = None
  <2>1. s4' = {} /\ s3' = Modes!Cleared(s3)
    BY <1>1, <1>2 DEF Modes!Resume
  <2>2. s3'.buf = {} /\ s3'.shown = {} /\ s3'.offset = 0
    BY <1>0, <2>1 DEF Modes!Cleared, List
  <2>3. Full'
    BY <1>0, <1>2, <2>2, NoRows DEF Full, Filled, Modes!Whose, Modes!Read
  <2> QED
    BY <2>1, <2>3 DEF RowsOwn
<1>3. CASE ~(s1.mode = "search" /\ s1.index = None)
  <2>1. Modes!Begin(s1.mode, {}, s3, FALSE, s2.all) /\ s2.all \in BOOLEAN
    BY <1>0, <1>1, <1>3 DEF Modes!Resume, Flags
  <2>2. /\ s1.mode \in {"scan", "search"}
        /\ s1.mode = "scan" => s3.buf = {"scan"} \X (1..s3.cursor)
        /\ s1.mode = "search" => s3.buf = {s1.index} \X (1..s3.offset)
    BY <1>0, <1>1 DEF Full, Filled, Modes!Whose, Modes!Read, UI
  <2> QED
    BY <1>0, <1>3, <2>1, <2>2, BeginOwn
<1> QED
  BY <1>2, <1>3

\* What was there at rest stays while the names are read again.
LEMMA RefreshNamesOwn ==
  ASSUME Modes!TypeOK, OneRuns, RowsOwn, Modes!RefreshNames PROVE RowsOwn'
<1> PICK n : n = [what |-> "names", prefer |-> None, prev |-> s1.index, then |-> "names"]
  OBVIOUS
<1>0. s1 \in UI /\ s5 \in Off
  BY Parted DEF Off
<1>1. /\ s1.mode = "search" /\ ~s2.loading /\ s4' = s4 \cup {n}
      /\ s1' = [s1 EXCEPT !.naming = TRUE, !.ignore = TRUE]
      /\ s5' = [s5 EXCEPT !.overtaken = @ \/ ~Modes!Settled] /\ UNCHANGED <<s2, s3>>
  BY DEF Modes!RefreshNames, Modes!Names
<1> SUFFICES ASSUME Calm' PROVE RowsOwn'
  BY DEF RowsOwn
<1>2. Calm /\ Modes!Settled
  BY <1>0, <1>1 DEF Calm, Off
<1>3. s4 = {} /\ Full
  BY <1>1, <1>2, Alone DEF RowsOwn, Modes!AtRest
<1>4. s1'.mode = "search" /\ s1'.index = s1.index
  BY <1>0, <1>1 DEF UI
<1>5. Full'
  BY <1>1, <1>3, <1>4 DEF Full, Filled, Modes!Whose, Modes!Read
<1>6. NamesFit(n)'
  BY <1>1, <1>4, <1>5 DEF NamesFit
<1> QED
  BY <1>1, <1>3, <1>6 DEF RowsOwn, Modes!AtRest

LEMMA UserOwn ==
  ASSUME Pages \in Nat, None # "scan", Modes!TypeOK, OneRuns, RowsOwn,
         \/ Modes!ChooseScan \/ Modes!ChooseSearch \/ Modes!RefreshNames \/ Modes!Restart \/ Modes!Refresh \/ Modes!Pause \/ Modes!Resume
         \/ \E i \in Indexes : Modes!Browse(i) \/ Modes!PickIndex(i)
         \/ Modes!Query(FALSE, FALSE) \/ Modes!Query(TRUE, FALSE) \/ Modes!Query(TRUE, TRUE)
  PROVE  RowsOwn'
<1>0. s1 \in UI /\ WorkOK /\ s5 \in Off
  BY Parted DEF Off
<1>1. ASSUME NEW m \in {"scan", "search"}
      PROVE  [s1 EXCEPT !.mode = m] \in UI /\ [s1 EXCEPT !.mode = m].mode = m
  BY <1>0 DEF UI
<1>2. None \in Modes!Maybe
  BY DEF Modes!Maybe
<1>3. CASE Modes!ChooseScan
  BY <1>1, <1>2, <1>3, StoppingOwn DEF Modes!ChooseScan
<1>4. CASE Modes!ChooseSearch
  BY <1>1, <1>2, <1>4, StoppingOwn DEF Modes!ChooseSearch
<1>5. CASE Modes!Restart
  BY <1>0, <1>2, <1>5, StoppingOwn DEF Modes!Restart, UI
<1>6. CASE Modes!Refresh
  BY <1>0, <1>2, <1>6, StoppingOwn DEF Modes!Refresh
<1>7. ASSUME NEW i \in Indexes, Modes!Browse(i) PROVE RowsOwn'
  <2>1. i \in Modes!Maybe /\ (s1.mode = "search") \in BOOLEAN
    BY DEF Modes!Maybe
  <2> QED
    BY <1>1, <1>7, <2>1, StoppingOwn DEF Modes!Browse
<1>8. ASSUME NEW i \in Indexes, Modes!PickIndex(i) PROVE RowsOwn'
  <2>1. s1.mode = "search" /\ [s1 EXCEPT !.index = i] \in UI /\ [s1 EXCEPT !.index = i].mode = "search"
    BY <1>0, <1>8 DEF UI, Modes!Maybe, Modes!PickIndex
  <2>2. CASE s1.ignore
    BY <1>0, <1>8, <2>2 DEF Modes!PickIndex, Off, RowsOwn, Calm
  <2>3. CASE ~s1.ignore
    BY <1>2, <1>8, <2>1, <2>3, StoppingOwn DEF Modes!PickIndex
  <2> QED
    BY <2>2, <2>3
<1>9. CASE Modes!Pause
  <2>1. s2'.loading = s2.loading /\ UNCHANGED <<s1, s3, s4, s5>>
    BY <1>0, <1>9 DEF Modes!Pause, WorkOK, Flags
  <2> QED
    BY <2>1 DEF RowsOwn, Calm, PageFits, StopFits, NamesFit, Modes!Settled, Modes!AtRest, Full, Filled, Modes!Whose, Modes!Read
<1>10. CASE Modes!Resume
  BY <1>10, ResumeOwn
<1>11. ASSUME NEW append \in BOOLEAN, NEW all \in BOOLEAN, Modes!Query(append, all) PROVE RowsOwn'
  BY <1>11, QueryOwn
<1> QED
  BY <1>3, <1>4, <1>5, <1>6, <1>7, <1>8, <1>9, <1>10, <1>11, RefreshNamesOwn

\* The page that lands is the one that the list lacks.
LEMMA LandedOwn ==
  ASSUME Pages \in Nat \ {0}, Modes!TypeOK, OneRuns, RowsOwn, NEW t \in s4, Modes!Landed(t)
  PROVE  RowsOwn'
<1> DEFINE rows == s3.buf \cup IF t.of = None \/ t.from = Pages THEN {} ELSE {<<t.of, t.from + 1>>}
<1>0. s1 \in UI /\ WorkOK /\ UNCHANGED <<s1, s5>> /\ t.what = "page" /\ s3 \in List
  BY Parted DEF Modes!Landed, WorkOK
<1>1. /\ t.mode \in {"scan", "search"} /\ t.all \in BOOLEAN /\ t.of \in Modes!Maybe \cup {"scan"}
      /\ t.from \in 0..Pages
  BY <1>0 DEF WorkOK, Modes!Task
<1>2. PageTasks(s4) = {t} /\ s2.loading
  BY <1>0, TheOnePage
<1>3. PICK p : p = Modes!Page(t.mode, t.all, s3')
  OBVIOUS
<1>4. p.what = "page"
  BY <1>3 DEF Modes!Page
<1>5. \/ s4' = s4 \ {t}
      \/ s4' = (s4 \ {t}) \cup {p}
  BY <1>3 DEF Modes!Landed, Modes!Ended
<1> SUFFICES ASSUME Calm PROVE RowsOwn'
  BY <1>0 DEF RowsOwn, Calm
<1>6. CASE ~Modes!Settled
  <2>1. PICK h \in s4 : h.what # "page"
    BY <1>6 DEF Modes!Settled
  <2>2. h \in s4' /\ ~Modes!Settled'
    BY <1>0, <1>5, <2>1 DEF Modes!Settled
  <2>3. \A u \in s4' : u.what # "page" => u \in s4
    BY <1>4, <1>5
  <2>4. \A u \in s4 : u.what # "names"
    BY <1>2 DEF RowsOwn, NamesFit
  <2> QED
    BY <1>0, <2>2, <2>3, <2>4 DEF RowsOwn, PageFits, StopFits, Modes!AtRest
<1>7. CASE Modes!Settled
  <2>1. s4 = {t}
    BY <1>2, <1>7 DEF Modes!Settled, PageTasks
  <2>2. t.mode = s1.mode /\ t.of = Modes!Whose /\ t.of # None /\ t.from = Modes!Read /\ Filled
    BY <1>0, <1>7 DEF RowsOwn, PageFits
  <2>3. Full'
    <3>1. CASE t.mode = "search"
      <4>1. s3' = [s3 EXCEPT !.buf = rows, !.shown = rows, !.total = Pages,
                       !.offset = IF t.from = Pages \/ @ = Pages THEN Pages ELSE @ + 1]
        BY <3>1 DEF Modes!Landed
      <4> DEFINE n == IF t.from = Pages \/ s3.offset = Pages THEN Pages ELSE s3.offset + 1
      <4>2. s3' = [s3 EXCEPT !.buf = rows, !.shown = rows, !.total = Pages, !.offset = n]
        BY <4>1
      <4>3. t.from = s3.offset /\ t.of = s1.index /\ s3.buf = {t.of} \X (1..t.from)
        BY <2>2, <3>1 DEF Modes!Whose, Modes!Read, Filled
      <4>4. rows = {t.of} \X (1..n)
        BY <1>1, <2>2, <4>3, NextPage
      <4> HIDE DEF rows, n
      <4>5. s3'.buf = rows /\ s3'.shown = rows /\ s3'.offset = n
        BY <1>0, <4>2 DEF List
      <4> QED
        BY <1>0, <2>2, <3>1, <4>3, <4>4, <4>5 DEF Full, Filled, Modes!Whose, Modes!Read
    <3>2. CASE t.mode # "search"
      <4> DEFINE n == IF t.from + 1 >= Pages THEN Pages ELSE t.from + 1
      <4>1. s3' = [s3 EXCEPT !.buf = rows, !.shown = rows, !.cursor = n]
        BY <3>2 DEF Modes!Landed
      <4>2. t.mode = "scan"
        BY <1>1, <3>2
      <4>3. t.from = s3.cursor /\ t.of = "scan" /\ s3.buf = {t.of} \X (1..t.from)
        BY <2>2, <4>2 DEF Modes!Whose, Modes!Read, Filled
      <4>4. rows = {t.of} \X (1..n)
        BY <1>1, <2>2, <4>3, NextPage
      <4> HIDE DEF rows, n
      <4>5. s3'.buf = rows /\ s3'.shown = rows /\ s3'.cursor = n
        BY <1>0, <4>1 DEF List
      <4> QED
        BY <1>0, <2>2, <4>2, <4>3, <4>4, <4>5 DEF Full, Filled, Modes!Whose, Modes!Read
    <3> QED
      BY <3>1, <3>2
  <2>4. CASE s4' = s4 \ {t}
    BY <2>1, <2>3, <2>4 DEF RowsOwn
  <2>5. CASE s4' = (s4 \ {t}) \cup {p}
    <3>1. /\ p.mode = t.mode
          /\ p.of = (IF t.mode = "search" THEN s1'.index ELSE IF s1'.mode = "scan" THEN "scan" ELSE None)
          /\ p.from = (IF t.mode = "search" THEN s3'.offset ELSE s3'.cursor)
      BY <1>3 DEF Modes!Page
    <3>2. p.of = t.of /\ p.of = Modes!Whose' /\ p.from = Modes!Read'
      BY <1>0, <1>1, <2>2, <3>1 DEF Modes!Whose, Modes!Read
    <3>3. PageFits(p)'
      BY <1>0, <2>2, <2>3, <3>1, <3>2 DEF PageFits, Full
    <3> QED
      BY <1>4, <2>1, <2>5, <3>3 DEF RowsOwn, Modes!AtRest
  <2> QED
    BY <1>5, <2>4, <2>5
<1> QED
  BY <1>6, <1>7

\* Handlers that go on: one that was not overtaken is alone by then.
LEMMA HandlerOwn ==
  ASSUME Pages \in Nat, None # "scan", Modes!TypeOK, OneRuns, RowsOwn, NEW t \in s4,
         Modes!GoOn(t) \/ Modes!GotNames(t) \/ Modes!NamesFail(t) \/ Modes!PageFails(t)
  PROVE  RowsOwn'
<1>0. /\ s1 \in UI /\ WorkOK /\ s5 \in Off /\ t \in Modes!Task /\ s3 \in List
  BY Parted DEF Off, WorkOK
<1> SUFFICES ASSUME Calm' PROVE RowsOwn'
  BY DEF RowsOwn
<1>1. CASE Modes!GoOn(t)
  <2>1. t \in Stops /\ ~s2.loading /\ s1' = Modes!Sets(t, s1) /\ Modes!Then(t, s4 \ {t}) /\ UNCHANGED s5
    BY <1>0, <1>1 DEF Modes!GoOn, Stops, Modes!Task
  <2>2. Calm /\ StopFits(t)
    BY <2>1 DEF Calm, RowsOwn, Stops
  <2>3. s4 \ {t} = {}
    BY <2>1, <2>2 DEF RowsOwn, Stops, OneRuns, OnePage, PageTasks
  <2>4. s1' \in UI
    BY <1>0, <2>1, SetsTyped
  <2>5. /\ t.then \in {"scan", "refresh"} => s1'.mode = "scan"
        /\ t.then \in {"search", "enter", "browse"} => s1'.mode = "search"
    BY <1>0, <2>1, <2>2 DEF Modes!Sets, StopFits, UI
  <2>6. Modes!Then(t, {})
    BY <2>1, <2>3
  <2> QED
    BY <1>0, <2>1, <2>4, <2>5, <2>6, ThenOwn
<1>2. CASE Modes!GotNames(t)
  <2>1. t.what = "names" /\ UNCHANGED s5
    BY <1>2 DEF Modes!GotNames
  <2>2. Calm /\ NamesFit(t)
    BY <2>1 DEF Calm, RowsOwn
  <2>3. s4 \ {t} = {} /\ ~s2.loading
    BY <2>1, <2>2 DEF RowsOwn, NamesFit, OneRuns, OnePage, PageTasks
  <2>4. PICK i \in Modes!Maybe :
          /\ s1' = [s1 EXCEPT !.index = i, !.naming = FALSE, !.ignore = FALSE]
          /\ \/ t.then = "names" /\ i = t.prev /\ Modes!Nothing(s4 \ {t}, s3)
             \/ Modes!Nothing(s4 \ {t}, Modes!Cleared(s3))
             \/ Modes!RunSearchKeys(s4 \ {t}, s3, FALSE, FALSE)
    BY <1>2 DEF Modes!GotNames
  <2>5. s1' \in UI /\ s1'.mode = "search" /\ s1'.index = i
    BY <1>0, <2>2, <2>4 DEF UI, NamesFit
  <2>6. CASE t.then = "names" /\ i = t.prev /\ Modes!Nothing(s4 \ {t}, s3)
    <3>1. s4' = {} /\ s3' = s3 /\ s1'.index = s1.index /\ Full
      BY <2>2, <2>3, <2>5, <2>6 DEF Modes!Nothing, NamesFit
    <3>2. Full'
      BY <2>2, <2>5, <3>1 DEF Full, Filled, Modes!Whose, Modes!Read, NamesFit
    <3> QED
      BY <3>1, <3>2 DEF RowsOwn
  <2>7. CASE Modes!Nothing(s4 \ {t}, Modes!Cleared(s3))
    <3>1. s4' = {} /\ s3' = Modes!Cleared(s3)
      BY <2>3, <2>7 DEF Modes!Nothing
    <3>2. s3'.buf = {} /\ s3'.shown = {} /\ s3'.offset = 0
      BY <1>0, <3>1 DEF Modes!Cleared, List
    <3>3. Full'
      BY <2>5, <3>2, NoRows DEF Full, Filled, Modes!Whose, Modes!Read
    <3> QED
      BY <3>1, <3>3 DEF RowsOwn
  <2>8. CASE Modes!RunSearchKeys(s4 \ {t}, s3, FALSE, FALSE)
    <3>1. Modes!QueryIndex({}, s3, FALSE, FALSE) /\ s2 \in Flags
      BY <1>0, <2>3, <2>5, <2>8 DEF Modes!RunSearchKeys, Modes!Busy, WorkOK
    <3> QED
      BY <1>0, <2>5, <3>1, QueryIndexOwn
  <2> QED
    BY <2>4, <2>6, <2>7, <2>8
<1>3. CASE Modes!NamesFail(t) \/ Modes!PageFails(t)
  BY <1>0, <1>3 DEF Modes!NamesFail, Modes!PageFails, Calm, Off
<1> QED
  BY <1>1, <1>2, <1>3

LEMMA RowsOwnInit == ASSUME None # "scan", Modes!Init PROVE RowsOwn
<1> PICK t : t = [what |-> "page", mode |-> "scan", all |-> FALSE, of |-> "scan", from |-> 0]
  OBVIOUS
<1>1. s4 = {t} /\ s1.mode = "scan" /\ s3.cursor = 0 /\ s3.buf = {}
  BY DEF Modes!Init
<1>2. Filled /\ Modes!Whose = "scan" /\ Modes!Read = 0
  BY <1>1, NoRows DEF Filled, Modes!Whose, Modes!Read
<1>3. PageFits(t)
  BY <1>1, <1>2 DEF PageFits
<1> QED
  BY <1>1, <1>3 DEF RowsOwn, Modes!AtRest

LEMMA RowsOwnStep ==
  ASSUME Pages \in Nat \ {0}, None # "scan", Modes!TypeOK, OneRuns, RowsOwn, Modes!Next \/ UNCHANGED Modes!vars PROVE RowsOwn'
<1>1. CASE Modes!Next
  BY <1>1, UserOwn, LandedOwn, HandlerOwn DEF Modes!Next
<1>2. CASE UNCHANGED Modes!vars
  BY <1>2 DEF Modes!vars, RowsOwn, Calm, PageFits, StopFits, NamesFit, Modes!Settled, Modes!AtRest, Full, Filled, Modes!Whose,
              Modes!Read
<1> QED
  BY <1>1, <1>2

\* What the list shows when nothing is under way is what was read for the mode and index.
LEMMA OwnIsOwn == ASSUME RowsOwn PROVE Modes!OwnRows
BY DEF RowsOwn, Modes!OwnRows, Calm, Full, Filled

-----------------------------------------------------------------------------
LEMMA OneRunsStep ==
  ASSUME Pages \in Nat \ {0}, Modes!TypeOK, OneRuns, Modes!Next \/ UNCHANGED Modes!vars PROVE Modes!TypeOK' /\ OneRuns'
<1>1. CASE Modes!Next
  BY <1>1, UserStep, UserTyped, LandedStep, LandedTyped, HandlerStep, HandlerTyped DEF Modes!Next
<1>2. CASE UNCHANGED Modes!vars
  <2>1. Modes!TypeOK'
    BY <1>2 DEF Modes!vars, Modes!TypeOK, Modes!Rows, Modes!Maybe, Modes!Task
  <2>2. OneRuns'
    BY <1>2, Unchanged DEF Modes!vars, OneRuns
  <2> QED
    BY <2>1, <2>2
<1> QED
  BY <1>1, <1>2

\* The invariant says what the property counts.
LEMMA OneIsOne == ASSUME OneRuns PROVE Modes!OneAtATime
<1>1. PageTasks(s4) = Modes!Paging
  BY DEF PageTasks, Modes!Paging
<1>2. CASE s2.loading
  <2>1. PICK t : Modes!Paging = {t}
    BY <1>1, <1>2 DEF OneRuns, OnePage
  <2> QED
    BY <1>2, <2>1, SameCount, FS_Singleton DEF Modes!OneAtATime
<1>3. CASE ~s2.loading
  BY <1>1, <1>3, SameCount, FS_EmptySet DEF OneRuns, OnePage, Modes!OneAtATime
<1> QED
  BY <1>2, <1>3

ModesInv == Modes!TypeOK /\ OneRuns /\ RowsOwn

LEMMA ModesInit == Init => (part = "modes" => ModesInv)
<1> SUFFICES ASSUME Modes!Init PROVE ModesInv
  BY DEF Init
<1>1. Pages \in Nat \ {0} /\ None # "scan"
  BY PanelsAssumption DEF PanelsAssumption
<1> QED
  BY <1>1, OneRunsInit, ModesTypeInit, RowsOwnInit DEF ModesInv

LEMMA ModesStep ==
  ASSUME part = "modes" => ModesInv, [Next]_vars
  PROVE  (part = "modes" => ModesInv)'
<1> SUFFICES ASSUME part = "modes", ModesInv PROVE ModesInv'
  BY DEF Next, vars
<1>1. Pages \in Nat \ {0} /\ None # "scan"
  BY PanelsAssumption DEF PanelsAssumption
<1>2. Modes!Next \/ UNCHANGED Modes!vars
  BY DEF Next, vars, Modes!vars
<1> QED
  BY <1>1, <1>2, OneRunsStep, RowsOwnStep DEF ModesInv

\* One scan or query runs at a time, for any indexes, pages and handlers under way: scanKey,
\* runSearchKeys.
THEOREM OneRunsAtATime == Spec => []OneAtATime
<1>1. (part = "modes" => ModesInv) => OneAtATime
  BY OneIsOne DEF ModesInv, OneAtATime
<1>2. Spec => Init /\ [][Next]_vars
  BY DEF Spec
<1> QED
  BY <1>1, <1>2, ModesInit, ModesStep, PTL

\* The key list at rest shows the rows of the mode and index that are chosen, all that were
\* read and no others, for any indexes and handlers that overtook nobody: KeyMain.
THEOREM RowsAreOwn == Spec => []OwnRows
<1>1. (part = "modes" => ModesInv) => OwnRows
  BY OwnIsOwn DEF ModesInv, OwnRows
<1>2. Spec => Init /\ [][Next]_vars
  BY DEF Spec
<1> QED
  BY <1>1, <1>2, ModesInit, ModesStep, PTL

-----------------------------------------------------------------------------
(* SshDialer.  The gate is with the dial that looks again, authenticates or puts
   its handle away, and while it does the last two the slot's session is closed:
   nobody else can give it a live one. *)

GateHeld == \A d \in Dials : s1[d].pc \in {"recheck", "auth", "put"} => s3 = d
InHand == \A d \in Dials : s1[d].got # None <=> s1[d].pc = "put"
SlotClosed == \A d \in Dials : s1[d].pc \in {"auth", "put"} => s4 \notin s5
SshInv == Ssh!TypeOK /\ GateHeld /\ InHand /\ SlotClosed /\ s5 \subseteq Ssh!Held

LEMMA SshInit == Init => (part = "ssh" => SshInv)
<1> SUFFICES ASSUME Ssh!Init PROVE SshInv
  BY DEF Init
<1> QED
  BY PanelsAssumption DEF PanelsAssumption, Ssh!Init, Ssh!Idle, Ssh!TypeOK, Ssh!Pcs, Ssh!Held,
                          SshInv, GateHeld, InHand, SlotClosed

DialRecords == [pc : Ssh!Pcs, got : Sessions \cup {None}, again : BOOLEAN]

\* Steps of a dial that leave the sessions alone.
LEMMA SshMoves ==
  ASSUME SshInv, NEW d \in Dials, s4' = s4, s5' = s5,
         s1[d].pc # "put", s1'[d].pc # "put", s1'[d].got = s1[d].got \/ s1'[d].got = None,
         s1' \in [Dials -> DialRecords], \A e \in Dials \ {d} : s1'[e] = s1[e],
         s2' \in Dials \cup {None}, s3' \in {None, s3, d},
         s1'[d].pc \in {"recheck", "auth"} => s3' = d,
         s1'[d].pc = "auth" => s4 \notin s5,
         s3' # s3 => s3 \in {None, d}
  PROVE  SshInv'
<1>1. (Ssh!TypeOK)'
  BY DEF SshInv, Ssh!TypeOK, DialRecords
<1>2. GateHeld'
  BY PanelsAssumption DEF PanelsAssumption, SshInv, GateHeld, Ssh!TypeOK
<1>3. InHand'
  BY DEF SshInv, InHand, Ssh!TypeOK
<1>4. SlotClosed'
  BY DEF SshInv, SlotClosed, Ssh!TypeOK
<1>5. (s5 \subseteq Ssh!Held)'
  BY PanelsAssumption DEF PanelsAssumption, SshInv, InHand, Ssh!TypeOK, Ssh!Held
<1> QED
  BY <1>1, <1>2, <1>3, <1>4, <1>5 DEF SshInv

LEMMA SshStep ==
  ASSUME part = "ssh" => SshInv, [Next]_vars
  PROVE  (part = "ssh" => SshInv)'
<1> SUFFICES ASSUME part = "ssh", SshInv PROVE SshInv'
  BY DEF Next, vars
<1>1. CASE UNCHANGED <<s1, s2, s3, s4, s5>>
  BY <1>1 DEF SshInv, Ssh!TypeOK, Ssh!Held, GateHeld, InHand, SlotClosed
<1>2. CASE \E s \in Sessions : Ssh!Ends(s)
  <2>1. s5' \subseteq s5 /\ UNCHANGED <<s1, s2, s3, s4>>
    BY <1>2 DEF Ssh!Ends
  <2> QED
    BY <2>1 DEF SshInv, Ssh!TypeOK, Ssh!Held, GateHeld, InHand, SlotClosed
<1>3. ASSUME NEW d \in Dials, Ssh!Start(d) \/ Ssh!Step(d) PROVE SshInv'
  <2>1. /\ s1 \in [Dials -> DialRecords]
        /\ s2 \in Dials \cup {None} /\ s3 \in Dials \cup {None}
        /\ s4 \in Sessions /\ s5 \subseteq Sessions
        /\ None \notin Dials /\ None \notin Sessions
    BY PanelsAssumption DEF PanelsAssumption, SshInv, Ssh!TypeOK, DialRecords
  <2>2. CASE Ssh!Start(d)
    <3>1. /\ s1[d].pc # "put" /\ s2' = s2 /\ s3' = s3 /\ s4' = s4 /\ s5' = s5
          /\ s1' = [s1 EXCEPT ![d] = [Ssh!Idle EXCEPT !.pc = "check"]]
      BY <2>2 DEF Ssh!Start, Ssh!Busy, Ssh!Over
    <3>2. /\ s1'[d].pc = "check" /\ s1'[d].got = None
          /\ s1' \in [Dials -> DialRecords] /\ \A e \in Dials \ {d} : s1'[e] = s1[e]
      BY <2>1, <3>1 DEF Ssh!Idle, DialRecords, Ssh!Pcs
    <3> QED
      BY <2>1, <3>1, <3>2, SshMoves
  <2>3. CASE Ssh!Check(d) \/ Ssh!Open(d) \/ Ssh!Opened(d) \/ Ssh!OpenFails(d)
    <3>1. PICK pc \in {"gate", "open", "failed", "after", "opening", "ok"} :
            /\ s1[d].pc # "put" /\ s1' = [s1 EXCEPT ![d].pc = pc]
            /\ s2' \in Dials \cup {None} /\ s3' = s3 /\ s4' = s4 /\ s5' = s5
      BY <2>1, <2>3 DEF Ssh!Check, Ssh!Open, Ssh!Opened, Ssh!OpenFails, Ssh!To, Ssh!AfterFailure
    <3>2. /\ s1'[d].pc = pc /\ s1'[d].got = s1[d].got
          /\ s1' \in [Dials -> DialRecords] /\ \A e \in Dials \ {d} : s1'[e] = s1[e]
      BY <2>1, <3>1 DEF DialRecords, Ssh!Pcs
    <3> QED
      BY <2>1, <3>1, <3>2, SshMoves
  <2>4. CASE Ssh!After(d)
    <3>1. PICK pc \in {"gate", "failed"} :
            /\ s1[d].pc # "put" /\ s1' = [s1 EXCEPT ![d].pc = pc, ![d].again = TRUE]
            /\ s2' = s2 /\ s3' = s3 /\ s4' = s4 /\ s5' = s5
      BY <2>4 DEF Ssh!After
    <3>2. /\ s1'[d].pc = pc /\ s1'[d].got = s1[d].got
          /\ s1' \in [Dials -> DialRecords] /\ \A e \in Dials \ {d} : s1'[e] = s1[e]
      BY <2>1, <3>1 DEF DialRecords, Ssh!Pcs
    <3> QED
      BY <2>1, <3>1, <3>2, SshMoves
  <2>5. CASE Ssh!Gate(d) \/ Ssh!Recheck(d) \/ Ssh!AuthFails(d)
    <3>1. PICK pc \in {"recheck", "auth", "open", "failed"} :
            /\ s1[d].pc # "put" /\ s1' = [s1 EXCEPT ![d].pc = pc]
            /\ s2' = s2 /\ s4' = s4 /\ s5' = s5
            /\ s3' \in {None, d} /\ s3 \in {None, d}
            /\ pc \in {"recheck", "auth"} => s3' = d
            /\ pc = "auth" => s4 \notin s5
      <4>1. CASE Ssh!Gate(d)
        BY <4>1 DEF Ssh!Gate, Ssh!To
      <4>2. CASE Ssh!Recheck(d)
        BY <4>2 DEF Ssh!Recheck, Ssh!To, Ssh!StillClosed, Ssh!Closed, SshInv, GateHeld
      <4>3. CASE Ssh!AuthFails(d)
        BY <4>3 DEF Ssh!AuthFails, Ssh!To, SshInv, GateHeld
      <4> QED
        BY <2>5, <4>1, <4>2, <4>3
    <3>2. /\ s1'[d].pc = pc /\ s1'[d].got = s1[d].got
          /\ s1' \in [Dials -> DialRecords] /\ \A e \in Dials \ {d} : s1'[e] = s1[e]
      BY <2>1, <3>1 DEF DialRecords, Ssh!Pcs
    <3> QED
      BY <2>1, <3>1, <3>2, SshMoves
  <2>6. CASE Ssh!Auth(d)
    <3>1. PICK s \in Sessions \ Ssh!Held :
            /\ s1[d].pc = "auth" /\ s1' = [s1 EXCEPT ![d].pc = "put", ![d].got = s]
            /\ s5' = s5 \cup {s} /\ UNCHANGED <<s2, s3, s4>>
      BY <2>6 DEF Ssh!Auth
    <3>2. s # s4
      BY <3>1 DEF Ssh!Held
    <3>3. /\ s1'[d].pc = "put" /\ s1'[d].got = s
          /\ \A e \in Dials \ {d} : s1'[e] = s1[e]
          /\ s1' \in [Dials -> DialRecords]
      BY <2>1, <3>1, ZenonT(30) DEF Ssh!Pcs, DialRecords
    <3>4. (Ssh!TypeOK)'
      BY <2>1, <3>1, <3>3 DEF Ssh!TypeOK, DialRecords
    <3>5. GateHeld' /\ InHand' /\ SlotClosed'
      BY <2>1, <3>1, <3>2, <3>3 DEF SshInv, GateHeld, InHand, SlotClosed
    <3>6. (s5 \subseteq Ssh!Held)'
      BY <2>1, <3>1, <3>3 DEF SshInv, Ssh!Held, InHand
    <3> QED
      BY <3>4, <3>5, <3>6 DEF SshInv
  <2>7. CASE Ssh!Put(d)
    <3>1. /\ s1[d].pc = "put" /\ s1[d].got \in Sessions /\ s3 = d /\ s4 \notin s5
          /\ \A e \in Dials \ {d} : s1[e].pc \notin {"recheck", "auth", "put"} /\ s1[e].got = None
      BY <2>1, <2>7 DEF Ssh!Put, SshInv, GateHeld, InHand, SlotClosed,
                         DialRecords
    <3>2. /\ s1' = [s1 EXCEPT ![d].pc = "open", ![d].got = None]
          /\ s3' = None /\ s2' = s2 /\ s4' = s1[d].got /\ s5' = s5 \ {s4}
      BY <2>7, <3>1 DEF Ssh!Put, Ssh!Closed, Ssh!GateAfter
    <3>3. /\ s1'[d].pc = "open" /\ s1'[d].got = None
          /\ \A e \in Dials \ {d} : s1'[e] = s1[e]
          /\ s1' \in [Dials -> DialRecords]
      BY <2>1, <3>2, ZenonT(30) DEF Ssh!Pcs, DialRecords
    <3>4. (Ssh!TypeOK)'
      BY <2>1, <3>1, <3>2, <3>3 DEF Ssh!TypeOK, DialRecords
    <3>5. GateHeld' /\ InHand' /\ SlotClosed'
      BY <2>1, <3>1, <3>2, <3>3 DEF SshInv, GateHeld, InHand, SlotClosed
    <3>6. (s5 \subseteq Ssh!Held)'
      BY <2>1, <3>1, <3>2 DEF SshInv, Ssh!Held
    <3> QED
      BY <3>4, <3>5, <3>6 DEF SshInv
  <2> QED
    BY <1>3, <2>2, <2>3, <2>4, <2>5, <2>6, <2>7 DEF Ssh!Step
<1> QED
  BY <1>1, <1>2, <1>3 DEF Next, vars, Ssh!Next

\* The jump host has one session of a client and somebody has its handle, however many
\* connections dial at a time: SshDialer's reconnect.
THEOREM OneSshSession == Spec => []OneSession
<1>1. ASSUME SshInv PROVE Ssh!OneSession
  <2>1. /\ s1 \in [Dials -> [pc : Ssh!Pcs, got : Sessions \cup {None}, again : BOOLEAN]]
        /\ s5 \subseteq Sessions /\ None \notin Dials /\ None \notin Sessions
    BY <1>1, PanelsAssumption DEF PanelsAssumption, SshInv, Ssh!TypeOK
  <2>2. CASE \E d \in Dials : s1[d].pc = "put"
    <3>1. PICK d \in Dials : s1[d].pc = "put"
      BY <2>2
    <3>2. \A e \in Dials \ {d} : s1[e].got = None
      BY <1>1, <3>1 DEF SshInv, GateHeld, InHand
    <3>3. s5 \subseteq {s1[d].got}
      BY <1>1, <2>1, <3>1, <3>2 DEF SshInv, SlotClosed, Ssh!Held
    <3> QED
      BY <1>1, <3>3 DEF SshInv, Ssh!OneSession
  <2>3. CASE \A d \in Dials : s1[d].pc # "put"
    <3>1. s5 \subseteq {s4}
      BY <1>1, <2>1, <2>3 DEF SshInv, InHand, Ssh!Held
    <3> QED
      BY <1>1, <3>1 DEF SshInv, Ssh!OneSession
  <2> QED
    BY <2>2, <2>3
<1>2. (part = "ssh" => SshInv) => OneSession
  BY <1>1 DEF OneSession
<1>3. Spec => Init /\ [][Next]_vars
  BY DEF Spec
<1> QED
  BY <1>2, <1>3, SshInit, SshStep, PTL

-----------------------------------------------------------------------------
(* KeyMove.  What a renaming call has read is still what the old name has, or
   nothing, and what it has restored is under the new name or was lost as somebody
   meant it: so DEL takes no value's last name.  The time to live that was read
   belongs to the value that is there. *)

MoveSteps == {"exists", "pttl", "dump", "restore", "del"}
MoveKeys == [KeyNames -> [val : Values, ttl : Move!Ttls] \cup {Move!Absent}]
MoveCalls == [pc : MoveSteps \cup {"idle"}, do : {"rename", "copy"}, from : KeyNames \cup {None},
              to : KeyNames \cup {None}, ttl : Move!Ttls, dump : Values \cup {None}]
MoveTyped ==
  /\ s1 \in MoveKeys /\ s2 \in MoveCalls /\ s3 \subseteq Values /\ {s5, s6} \subseteq BOOLEAN
  /\ s2.pc # "idle" => s2.from \in KeyNames /\ s2.to \in KeyNames
  /\ s2.pc # "idle" /\ s2.do = "rename" => s2.from # s2.to
  /\ s2.pc = "del" => s2.do = "rename" /\ s2.dump # None
MoveRead ==
  s5 /\ s2.do = "rename" =>
    /\ s2.pc \in {"restore", "del"} => s1[s2.from].val \in {None, s2.dump}
    /\ s2.pc = "del" => s2.dump \in s4 \/ s1[s2.to].val = s2.dump
MoveTtl ==
  s5 /\ ~s6 =>
    /\ s2.pc = "dump" /\ Move!There(s2.from) => (s2.ttl = Never <=> s1[s2.from].val \in Lasting)
    /\ s2.pc = "restore" /\ s2.dump # None => (s2.ttl = Never <=> s2.dump \in Lasting)
MoveInv == MoveTyped /\ MoveRead /\ MoveTtl /\ Move!ValueKept /\ Move!ExpiryKept

LEMMA MoveInit == Init => (part = "move" => MoveInv)
<1> SUFFICES ASSUME Move!Init PROVE MoveInv
  BY DEF Init
<1>1. MoveTyped
  BY DEF Move!Init, MoveTyped, MoveKeys, MoveCalls, MoveSteps, Move!NoMove, Move!Ttls
<1> QED
  BY <1>1 DEF Move!Init, MoveInv, MoveRead, MoveTtl, Move!ValueKept, Move!ExpiryKept,
              Move!There, Move!NoMove

\* A name has either a value of somebody's, or nothing and no time to live.
LEMMA MoveKey ==
  ASSUME MoveTyped, NEW n \in KeyNames
  PROVE  /\ s1[n].ttl = Never \/ s1[n].ttl \in 0..Ttl
         /\ Move!There(n) <=> s1[n].val # None
         /\ ~Move!There(n) => s1[n].ttl = Never
         /\ Move!There(n) => s1[n].val \in Values
BY PanelsAssumption DEF PanelsAssumption, MoveTyped, MoveKeys, Move!Ttls, Move!There, Move!Absent

\* Other clients and time.
LEMMA MoveOthers ==
  ASSUME MoveInv, Move!Tick \/ \E n \in KeyNames : Move!Write(n) \/ Move!Delete(n)
  PROVE  MoveInv'
<1> USE PanelsAssumption DEF PanelsAssumption
<1>1. CASE \E n \in KeyNames : Move!Write(n)
  <2>1. PICK n \in KeyNames, v \in Values \ s3 :
          /\ s1' = [s1 EXCEPT ![n] = [val |-> v, ttl |-> IF v \in Lasting THEN Never ELSE Ttl]]
          /\ s3' = s3 \cup {v} /\ s4' = s4 \cup Move!Held(n)
          /\ s5' = (s5 /\ ~Move!Relied(n)) /\ s2' = s2 /\ s6' = s6
    BY <1>1 DEF Move!Write
  <2>2. MoveTyped'
    BY <2>1 DEF MoveInv, MoveTyped, MoveKeys, Move!Ttls
  <2>3. /\ s1'[n].val = v /\ (s1'[n].ttl = Never <=> v \in Lasting)
        /\ \A m \in KeyNames \ {n} : s1'[m] = s1[m]
    BY <2>1 DEF MoveInv, MoveTyped, MoveKeys
  <2>4. MoveRead'
    <3> SUFFICES ASSUME s5', s2.do = "rename", s2.pc \in {"restore", "del"}
                 PROVE  /\ s1'[s2.from].val \in {None, s2.dump}
                        /\ s2.pc = "del" => s2.dump \in s4' \/ s1'[s2.to].val = s2.dump
      BY <2>1 DEF MoveRead
    <3>1. s5 /\ ~Move!Relied(n) /\ s2.from # n /\ s2.from \in KeyNames /\ s2.to \in KeyNames
      BY <2>1 DEF MoveInv, MoveTyped, Move!Relied
    <3>2. s2.pc = "del" => s2.dump \in s4 \/ s2.dump \in Move!Held(s2.to)
      BY <3>1 DEF MoveInv, MoveTyped, MoveRead, Move!Held
    <3> QED
      BY <2>1, <2>3, <3>1, <3>2 DEF MoveInv, MoveRead, Move!Held
  <2>5. MoveTtl'
    BY <2>1, <2>3 DEF MoveInv, MoveTyped, MoveCalls, MoveTtl, Move!Relied, Move!There
  <2>6. (Move!ValueKept)'
    BY <2>1, <2>3 DEF MoveInv, MoveTyped, Move!ValueKept, Move!Held
  <2>7. (Move!ExpiryKept)'
    BY <2>1, <2>3 DEF MoveInv, MoveTyped, Move!ExpiryKept, Move!There
  <2> QED
    BY <2>2, <2>4, <2>5, <2>6, <2>7 DEF MoveInv
<1>2. CASE \E n \in KeyNames : Move!Delete(n)
  <2>1. PICK n \in KeyNames :
          /\ s1' = [s1 EXCEPT ![n] = Move!Absent] /\ s4' = s4 \cup Move!Held(n)
          /\ UNCHANGED <<s2, s3, s5, s6>>
    BY <1>2 DEF Move!Delete
  <2>2. MoveTyped'
    BY <2>1 DEF MoveInv, MoveTyped, MoveKeys
  <2>3. /\ s1'[n] = Move!Absent /\ s1'[n].val = None
        /\ \A m \in KeyNames \ {n} : s1'[m] = s1[m]
    BY <2>1 DEF MoveInv, MoveTyped, MoveKeys, Move!Absent
  <2>4. MoveRead'
    BY <2>1, <2>3 DEF MoveInv, MoveTyped, MoveCalls, MoveRead, Move!Held
  <2>5. MoveTtl'
    BY <2>1, <2>3 DEF MoveInv, MoveTyped, MoveCalls, MoveTtl, Move!There
  <2>6. (Move!ValueKept)'
    BY <2>1, <2>3 DEF MoveInv, MoveTyped, Move!ValueKept, Move!Held
  <2>7. (Move!ExpiryKept)'
    BY <2>1, <2>3 DEF MoveInv, MoveTyped, Move!ExpiryKept, Move!There
  <2> QED
    BY <2>2, <2>4, <2>5, <2>6, <2>7 DEF MoveInv
<1>3. CASE Move!Tick
  <2>1. /\ s1' = [n \in KeyNames |-> Move!Older(s1[n])]
        /\ s4' = s4 \cup {s1[n].val : n \in {m \in KeyNames : s1[m].ttl = 0}}
        /\ UNCHANGED <<s2, s3, s5, s6>>
    BY <1>3 DEF Move!Tick
  <2>2. ASSUME NEW n \in KeyNames
        PROVE  \/ /\ s1'[n] \in [val : Values, ttl : Move!Ttls]
                  /\ s1'[n].val = s1[n].val /\ Move!There(n)
                  /\ s1'[n].ttl = Never <=> s1[n].ttl = Never
               \/ s1'[n] = Move!Absent /\ (s1[n].val = None \/ s1[n].val \in s4')
    <3>1. s1'[n] = Move!Older(s1[n])
      BY <2>1
    <3>2. CASE s1[n].ttl = Never
      <4>1. s1'[n] = s1[n]
        BY <3>1, <3>2 DEF Move!Older
      <4> QED
        BY <4>1, MoveKey DEF MoveInv, MoveTyped, MoveKeys, Move!Ttls, Move!There
    <3>3. CASE s1[n].ttl = 0
      BY <2>1, <3>1, <3>3 DEF Move!Older
    <3>4. CASE s1[n].ttl \in 1..Ttl
      <4>1. s1'[n] = [s1[n] EXCEPT !.ttl = @ - 1]
        BY <3>1, <3>4 DEF Move!Older
      <4>2. s1[n] \in [val : Values, ttl : Move!Ttls] /\ Move!There(n)
        BY <3>4, MoveKey DEF MoveInv, MoveTyped, MoveKeys, Move!Absent, Move!There
      <4> QED
        BY <3>4, <4>1, <4>2 DEF Move!Ttls
    <3> QED
      BY <3>2, <3>3, <3>4, MoveKey DEF MoveInv
  <2>3. MoveTyped'
    BY <2>1, <2>2 DEF MoveInv, MoveTyped, MoveKeys
  <2>4. ASSUME NEW n \in KeyNames
        PROVE  /\ s1'[n].val \in {s1[n].val, None}
               /\ s1[n].val \in {s1'[n].val, None} \/ s1[n].val \in s4'
               /\ (Move!There(n))' => /\ Move!There(n) /\ s1'[n].val = s1[n].val
                                      /\ s1'[n].ttl = Never <=> s1[n].ttl = Never
    BY <2>2 DEF Move!Absent, Move!There
  <2>5. MoveRead'
    BY <2>1, <2>4 DEF MoveInv, MoveTyped, MoveCalls, MoveRead
  <2>6. MoveTtl'
    BY <2>1, <2>4 DEF MoveInv, MoveTyped, MoveCalls, MoveTtl
  <2>7. (Move!ValueKept)'
    BY <2>1, <2>4 DEF MoveInv, MoveTyped, Move!ValueKept
  <2>8. (Move!ExpiryKept)'
    BY <2>1, <2>4 DEF MoveInv, MoveTyped, Move!ExpiryKept
  <2> QED
    BY <2>3, <2>5, <2>6, <2>7, <2>8 DEF MoveInv
<1> QED
  BY <1>1, <1>2, <1>3

\* The call's own steps.
LEMMA MoveCall ==
  ASSUME MoveInv,
         Move!Call \/ \E m, n \in KeyNames : Move!Rename(m, n) \/ Move!Copy(m, n)
  PROVE  MoveInv'
<1> USE PanelsAssumption DEF PanelsAssumption
<1>0. Move!NoMove \in MoveCalls
  BY DEF Move!NoMove, MoveCalls, Move!Ttls
<1>1. ASSUME UNCHANGED <<s1, s3, s4, s5>>, s2' \in MoveCalls, s2'.pc \notin {"dump", "restore", "del"},
             s6' \in BOOLEAN, s6 => s6',
             s2'.pc # "idle" => s2'.from \in KeyNames /\ s2'.to \in KeyNames,
             s2'.pc # "idle" /\ s2'.do = "rename" => s2'.from # s2'.to
      PROVE  MoveInv'
  BY <1>1 DEF MoveInv, MoveTyped, MoveRead, MoveTtl, Move!ValueKept, Move!ExpiryKept, Move!There
<1>2. CASE \E m, n \in KeyNames : Move!Rename(m, n) \/ Move!Copy(m, n)
  <2>1. PICK m \in KeyNames, n \in KeyNames : Move!Rename(m, n) \/ Move!Copy(m, n)
    BY <1>2
  <2>2. /\ s2'.pc \in {"exists", "pttl"} /\ s2'.from = m /\ s2'.to = n
        /\ s2'.do = "rename" => m # n
        /\ s2' \in MoveCalls /\ UNCHANGED <<s1, s3, s4, s5, s6>>
    BY <2>1, ZenonT(30)
       DEF Move!Rename, Move!Copy, Move!SameName, Move!NoMove, MoveCalls, MoveSteps, Move!Ttls
  <2>3. s6' \in BOOLEAN /\ (s6 => s6')
    BY <2>2 DEF MoveInv, MoveTyped
  <2> QED
    BY <1>1, <2>2, <2>3
<1>3. CASE Move!Exists
  BY <1>0, <1>1, <1>3 DEF Move!Exists, Move!NoMove, MoveCalls, MoveSteps, MoveInv, MoveTyped
<1>4. CASE Move!Fails
  BY <1>0, <1>1, <1>4 DEF Move!Fails, Move!NoMove, MoveInv, MoveTyped
<1>5. CASE Move!Pttl
  <2>1. /\ s2.pc = "pttl" /\ UNCHANGED <<s1, s3, s4, s5>>
        /\ s2' = [s2 EXCEPT !.pc = "dump", !.ttl = Move!RestoreTtl(s1[s2.from])]
        /\ s6' = (s6 \/ s1[s2.from].ttl = 0)
    BY <1>5 DEF Move!Pttl
  <2>2. s2.from \in KeyNames /\ s2 \in MoveCalls
    BY <2>1 DEF MoveInv, MoveTyped
  <2>3. /\ Move!RestoreTtl(s1[s2.from]) \in Move!Ttls
        /\ ~s6' => Move!RestoreTtl(s1[s2.from]) = s1[s2.from].ttl
    BY <2>1, <2>2, MoveKey DEF MoveInv, Move!RestoreTtl, Move!Ttls
  <2>4. /\ s2' \in MoveCalls /\ s2'.pc = "dump" /\ s2'.from = s2.from /\ s2'.to = s2.to
        /\ s2'.do = s2.do /\ s2'.ttl = Move!RestoreTtl(s1[s2.from])
    BY <2>1, <2>2, <2>3 DEF MoveCalls, MoveSteps
  <2>5. MoveTyped' /\ MoveRead'
    BY <2>1, <2>4 DEF MoveInv, MoveTyped, MoveRead
  <2>6. MoveTtl'
    BY <2>1, <2>2, <2>3, <2>4 DEF MoveInv, MoveTyped, MoveTtl, Move!ExpiryKept, Move!There
  <2> QED
    BY <2>1, <2>5, <2>6 DEF MoveInv, MoveTyped, Move!ValueKept, Move!ExpiryKept, Move!There
<1>6. CASE Move!Dump
  <2>1. /\ s2.pc = "dump" /\ UNCHANGED <<s1, s3, s4, s5, s6>>
        /\ s2' = [s2 EXCEPT !.pc = "restore", !.dump = s1[s2.from].val]
    BY <1>6 DEF Move!Dump
  <2>2. s2.from \in KeyNames /\ s2 \in MoveCalls
    BY <2>1 DEF MoveInv, MoveTyped
  <2>3. s1[s2.from].val \in Values \cup {None}
    BY <2>2, MoveKey DEF MoveInv
  <2>4. /\ s2' \in MoveCalls /\ s2'.pc = "restore" /\ s2'.from = s2.from /\ s2'.to = s2.to
        /\ s2'.do = s2.do /\ s2'.ttl = s2.ttl /\ s2'.dump = s1[s2.from].val
    BY <2>1, <2>2, <2>3 DEF MoveCalls, MoveSteps
  <2>5. MoveTyped' /\ MoveRead'
    BY <2>1, <2>4 DEF MoveInv, MoveTyped, MoveRead
  <2>6. MoveTtl'
    BY <2>1, <2>2, <2>4, MoveKey DEF MoveInv, MoveTtl
  <2> QED
    BY <2>1, <2>5, <2>6 DEF MoveInv, MoveTyped, Move!ValueKept, Move!ExpiryKept, Move!There
<1>7. CASE Move!Restore
  <2>1. /\ s2.pc = "restore" /\ Move!Accepts /\ UNCHANGED <<s3, s5, s6>>
        /\ s1' = [s1 EXCEPT ![s2.to] = [val |-> s2.dump, ttl |-> s2.ttl]]
        /\ s4' = IF s2.do = "rename" THEN s4 \cup (Move!Held(s2.to) \ {s2.dump}) ELSE s4
        /\ s2' = Move!AfterRestore
    BY <1>7 DEF Move!Restore
  <2>2. /\ s2.from \in KeyNames /\ s2.to \in KeyNames /\ s2 \in MoveCalls
        /\ s2.dump \in Values /\ s2.ttl \in Move!Ttls
        /\ s2.do # "rename" => ~Move!There(s2.to)
    BY <2>1 DEF MoveInv, MoveTyped, MoveCalls, Move!Accepts, Move!Replaces
  <2>3. /\ s1' \in MoveKeys /\ s1'[s2.to].val = s2.dump /\ s1'[s2.to].ttl = s2.ttl
        /\ \A n \in KeyNames \ {s2.to} : s1'[n] = s1[n]
    BY <2>1, <2>2 DEF MoveInv, MoveTyped, MoveKeys
  <2>4. /\ s2' \in MoveCalls /\ s2'.pc \in {"idle", "del"}
        /\ s2'.pc = "del" => /\ s2.do = "rename" /\ s2'.do = "rename" /\ s2'.from = s2.from
                             /\ s2'.to = s2.to /\ s2'.dump = s2.dump
    BY <1>0, <2>1, <2>2 DEF Move!AfterRestore, Move!NoMove, MoveCalls, MoveSteps
  <2>5. MoveTyped' /\ MoveTtl'
    BY <2>1, <2>2, <2>3, <2>4 DEF MoveInv, MoveTyped, MoveTtl
  <2>6. MoveRead'
    BY <2>1, <2>2, <2>3, <2>4 DEF MoveInv, MoveTyped, MoveRead
  <2>7. (Move!ValueKept)'
    BY <2>1, <2>2, <2>3, MoveKey DEF MoveInv, MoveTyped, Move!ValueKept, Move!Held
  <2>8. (Move!ExpiryKept)'
    BY <2>1, <2>2, <2>3 DEF MoveInv, MoveTtl, Move!ExpiryKept, Move!There
  <2> QED
    BY <2>5, <2>6, <2>7, <2>8 DEF MoveInv
<1>8. CASE Move!Del
  <2>1. /\ s2.pc = "del" /\ s1' = [s1 EXCEPT ![s2.from] = Move!Absent] /\ s2' = Move!NoMove
        /\ UNCHANGED <<s3, s4, s5, s6>>
    BY <1>8 DEF Move!Del
  <2>2. /\ s2.from \in KeyNames /\ s2.to \in KeyNames /\ s2.from # s2.to /\ s2.do = "rename"
    BY <2>1 DEF MoveInv, MoveTyped
  <2>3. /\ s1' \in MoveKeys /\ s1'[s2.from] = Move!Absent
        /\ \A n \in KeyNames \ {s2.from} : s1'[n] = s1[n]
    BY <2>1, <2>2 DEF MoveInv, MoveTyped, MoveKeys
  <2>4. MoveTyped' /\ MoveRead' /\ MoveTtl'
    BY <1>0, <2>1, <2>3 DEF MoveInv, MoveTyped, MoveRead, MoveTtl, Move!NoMove
  <2>5. (Move!ValueKept)'
    BY <2>1, <2>2, <2>3 DEF MoveInv, MoveTyped, MoveRead, Move!ValueKept
  <2>6. (Move!ExpiryKept)'
    BY <2>1, <2>3 DEF MoveInv, Move!ExpiryKept, Move!There
  <2> QED
    BY <2>4, <2>5, <2>6 DEF MoveInv
<1> QED
  BY <1>2, <1>3, <1>4, <1>5, <1>6, <1>7, <1>8 DEF Move!Call

LEMMA MoveStep ==
  ASSUME part = "move" => MoveInv, [Next]_vars
  PROVE  (part = "move" => MoveInv)'
<1> SUFFICES ASSUME part = "move", MoveInv PROVE MoveInv'
  BY DEF Next, vars
<1>1. CASE UNCHANGED vars
  BY <1>1 DEF vars, MoveInv, MoveTyped, MoveRead, MoveTtl, Move!ValueKept, Move!ExpiryKept,
              Move!There
<1>2. CASE Next
  BY <1>2, MoveOthers, MoveCall DEF Next, Move!Next
<1> QED
  BY <1>1, <1>2

\* Renaming and copying over slots lose no value and keep every time to live, for any keys and
\* values, whoever writes and wherever a call fails: me_cluster's rename, copy and restore_ttl.
THEOREM MovesKeepValues == Spec => []ValueKept
<1>1. (part = "move" => MoveInv) => ValueKept
  BY DEF MoveInv, ValueKept
<1>2. Spec => Init /\ [][Next]_vars
  BY DEF Spec
<1> QED
  BY <1>1, <1>2, MoveInit, MoveStep, PTL

\* A copy writes over nobody, for any keys and values: RESTORE without REPLACE.
THEOREM CopiesAdd == Spec => CopyAdds
<1>1. ASSUME part = "move" => MoveInv, [Next]_vars
      PROVE  [part = "move" /\ Move!Copying => Move!OthersKept]_vars
  <2> SUFFICES ASSUME part = "move", MoveInv, Next, Move!Copying PROVE Move!OthersKept
    BY <1>1
  <2>1. s2.do = "copy" /\ s2' # s2
    BY DEF Move!Copying
  <2>2. CASE Move!Restore
    <3>1. ~Move!There(s2.to) /\ s1' = [s1 EXCEPT ![s2.to] = [val |-> s2.dump, ttl |-> s2.ttl]]
      BY <2>1, <2>2 DEF Move!Restore, Move!Accepts, Move!Replaces
    <3> QED
      BY <3>1 DEF Move!OthersKept, MoveInv, MoveTyped, MoveKeys
  <2>3. ~Move!Del
    BY <2>1 DEF Move!Del, MoveInv, MoveTyped
  <2>4. Move!Restore \/ s1' = s1
    BY <2>1, <2>3 DEF Next, Move!Next, Move!Write, Move!Delete, Move!Tick, Move!Call, Move!Rename,
                      Move!Copy, Move!Exists, Move!Pttl, Move!Dump, Move!Fails
  <2> QED
    BY <2>2, <2>4 DEF Move!OthersKept
<1>2. Spec => Init /\ [][Next]_vars
  BY DEF Spec
<1> QED
  BY <1>1, <1>2, MoveInit, MoveStep, PTL DEF CopyAdds

-----------------------------------------------------------------------------
(* KeyCache.  What is remembered was asked for in this generation, and the pins of a
   key are the rows that would cancel it. *)

SizeRecords == [by : {"none", "batch", "detail"}, gen : 0..MaxGen]
RowRecords == [key : Keys \cup {None}, size : BOOLEAN, pin : Keys \cup {None},
               seen : (Keys \cup {None}) \X (0..MaxGen), gone : BOOLEAN]
\* The queue does not matter here, only that there is one.
Waits(w) == w = [queue |-> w.queue, pins |-> w.pins, timer |-> w.timer] /\ w.pins \in [Keys -> Nat]
SizesTyped ==
  /\ s1 \in [Keys -> SizeRecords] /\ s2 \in 0..MaxGen /\ Waits(s3)
  /\ s4.gen \in 0..MaxGen
  /\ s5 = [st |-> s5.st, key |-> s5.key, gen |-> s5.gen] /\ s5.gen \in 0..MaxGen
  /\ s5.st # "no" => s5.key \in Keys
  /\ s6 \in [SizeRows -> RowRecords] /\ s7 \in BOOLEAN
Pinned(rows, k) == {r \in SizeRows : rows[r].pin = k}
PinsCounted == \A k \in Keys : s3.pins[k] = Cardinality(Pinned(s6, k))
SizesInv == SizesTyped /\ Sizes!FreshSize /\ PinsCounted

LEMMA RowsFinite == IsFiniteSet(SizeRows)
BY PanelsAssumption DEF PanelsAssumption

\* One row's pin changes.
LEMMA PinMoves ==
  ASSUME NEW r \in SizeRows, NEW k, \A q \in SizeRows \ {r} : s6'[q].pin = s6[q].pin
  PROVE  /\ Cardinality(Pinned(s6, k)) \in Nat /\ Cardinality(Pinned(s6', k)) \in Nat
         /\ Cardinality(Pinned(s6', k)) + (IF s6[r].pin = k THEN 1 ELSE 0)
              = Cardinality(Pinned(s6, k)) + (IF s6'[r].pin = k THEN 1 ELSE 0)
<1>1. /\ IsFiniteSet(Pinned(s6, k)) /\ IsFiniteSet(Pinned(s6', k))
      /\ Cardinality(Pinned(s6, k)) \in Nat /\ Cardinality(Pinned(s6', k)) \in Nat
  BY RowsFinite, FS_Subset, FS_CardinalityType DEF Pinned
<1>2. CASE s6[r].pin = k <=> s6'[r].pin = k
  <2>1. Pinned(s6, k) = Pinned(s6', k)
    BY <1>2 DEF Pinned
  <2> QED
    BY <1>1, <1>2, <2>1
<1>3. CASE s6[r].pin # k /\ s6'[r].pin = k
  <2>1. Pinned(s6', k) = Pinned(s6, k) \cup {r} /\ r \notin Pinned(s6, k)
    BY <1>3 DEF Pinned
  <2>2. Cardinality(Pinned(s6', k)) = Cardinality(Pinned(s6, k)) + 1
    BY <1>1, <2>1, FS_AddElement
  <2> QED
    BY <1>1, <1>3, <2>2
<1>4. CASE s6[r].pin = k /\ s6'[r].pin # k
  <2>1. Pinned(s6, k) = Pinned(s6', k) \cup {r} /\ r \notin Pinned(s6', k)
    BY <1>4 DEF Pinned
  <2>2. Cardinality(Pinned(s6, k)) = Cardinality(Pinned(s6', k)) + 1
    BY <1>1, <2>1, FS_AddElement
  <2> QED
    BY <1>1, <1>4, <2>2
<1> QED
  BY <1>2, <1>3, <1>4

LEMMA EnqueuePins ==
  ASSUME NEW w, Waits(w), NEW k \in Keys
  PROVE  /\ Waits(Sizes!Enqueued(w, k))
         /\ \A j \in Keys : Sizes!Enqueued(w, k).pins[j] = IF j = k THEN w.pins[j] + 1 ELSE w.pins[j]
<1>1. PICK q, p, t : w = [queue |-> q, pins |-> p, timer |-> t] /\ p \in [Keys -> Nat]
  BY DEF Waits
<1> DEFINE queue == IF Sizes!Queued(q, k) THEN q ELSE Append(q, k)
           pins == [p EXCEPT ![k] = @ + 1]
<1>2. Sizes!Enqueued(w, k) = [queue |-> queue, pins |-> pins, timer |-> t \/ s4.st = "no"]
  <2> DEFINE v == [w EXCEPT !.pins[k] = @ + 1,
                            !.queue = IF Sizes!Queued(@, k) THEN @ ELSE Append(@, k)]
  <2>1. /\ w \in [queue : {q}, pins : [Keys -> Nat], timer : {t}]
        /\ w.queue = q /\ w.pins = p /\ w.timer = t
    BY <1>1
  <2>2. v = [queue |-> queue, pins |-> pins, timer |-> t]
    <3>1. v = [w EXCEPT !.pins = pins, !.queue = queue]
      BY <2>1, Zenon
    <3> HIDE DEF pins, queue, v
    <3> QED
      BY <2>1, <3>1
  <2>3. Sizes!Enqueued(w, k) = [v EXCEPT !.timer = v.timer \/ s4.st = "no"]
    BY DEF Sizes!Enqueued, Sizes!Scheduled
  <2> HIDE DEF v, queue, pins
  <2> QED
    BY <2>2, <2>3
<1>3. pins \in [Keys -> Nat] /\ \A j \in Keys : pins[j] = IF j = k THEN p[j] + 1 ELSE p[j]
  BY <1>1
<1> HIDE DEF queue, pins
<1> QED
  BY <1>1, <1>2, <1>3 DEF Waits

LEMMA CancelPins ==
  ASSUME NEW w, Waits(w), NEW k \in Keys, w.pins[k] >= 1
  PROVE  /\ Waits(Sizes!Cancelled(w, k))
         /\ \A j \in Keys : Sizes!Cancelled(w, k).pins[j] = IF j = k THEN w.pins[j] - 1 ELSE w.pins[j]
<1>1. PICK q, p, t : w = [queue |-> q, pins |-> p, timer |-> t] /\ p \in [Keys -> Nat]
  BY DEF Waits
<1> DEFINE pins == [p EXCEPT ![k] = @ - 1]
<1>2. p[k] >= 1 /\ p[k] \in Nat
  BY <1>1
<1>3. PICK u : Sizes!Cancelled(w, k) = [queue |-> u, pins |-> pins, timer |-> t]
  <2>1. /\ w \in [queue : {q}, pins : [Keys -> Nat], timer : {t}]
        /\ w.queue = q /\ w.pins = p /\ w.timer = t
    BY <1>1
  <2>2. CASE p[k] > 1
    <3>1. Sizes!Cancelled(w, k) = [w EXCEPT !.pins = pins]
      BY <2>1, <2>2 DEF Sizes!Cancelled
    <3> HIDE DEF pins
    <3> QED
      BY <2>1, <3>1
  <2>3. CASE p[k] = 1
    <3>1. pins = [p EXCEPT ![k] = 0]
      BY <2>3
    <3>2. Sizes!Cancelled(w, k) = [w EXCEPT !.pins = pins, !.queue = Sizes!Without(q, {k})]
      BY <2>1, <2>3, <3>1 DEF Sizes!Cancelled
    <3> HIDE DEF pins
    <3> QED
      BY <2>1, <3>2
  <2> QED
    BY <1>2, <2>2, <2>3
<1>4. pins \in [Keys -> Nat] /\ \A j \in Keys : pins[j] = IF j = k THEN p[j] - 1 ELSE p[j]
  BY <1>1, <1>2
<1> HIDE DEF pins
<1> QED
  BY <1>1, <1>3, <1>4 DEF Waits

\* A row takes its pin with it.
LEMMA StoppedPins ==
  ASSUME SizesInv, NEW r \in SizeRows
  PROVE  /\ Waits(Sizes!Stopped(r))
         /\ \A j \in Keys : Sizes!Stopped(r).pins[j] = IF j = s6[r].pin THEN s3.pins[j] - 1 ELSE s3.pins[j]
         /\ s6[r].pin \in Keys \cup {None}
         /\ s6[r].pin \in Keys => s3.pins[s6[r].pin] >= 1
<1>1. s6[r].pin \in Keys \cup {None} /\ None \notin Keys
  BY PanelsAssumption DEF PanelsAssumption, SizesInv, SizesTyped, RowRecords
<1>2. ASSUME s6[r].pin \in Keys PROVE s3.pins[s6[r].pin] >= 1
  <2>1. r \in Pinned(s6, s6[r].pin) /\ IsFiniteSet(Pinned(s6, s6[r].pin))
    BY RowsFinite, FS_Subset DEF Pinned
  <2>2. Cardinality(Pinned(s6, s6[r].pin)) \in Nat \ {0}
    BY <2>1, FS_EmptySet, FS_CardinalityType
  <2> QED
    BY <1>2, <2>2 DEF SizesInv, PinsCounted
<1>3. CASE s6[r].pin = None
  BY <1>1, <1>3 DEF Sizes!Stopped, SizesInv, SizesTyped
<1>4. CASE s6[r].pin \in Keys
  BY <1>1, <1>2, <1>4, CancelPins DEF Sizes!Stopped, SizesInv, SizesTyped
<1> QED
  BY <1>1, <1>2, <1>3, <1>4

LEMMA SizesInit == Init => (part = "sizes" => SizesInv)
<1> SUFFICES ASSUME Sizes!Init PROVE SizesInv
  BY DEF Init
<1>1. SizesTyped
  BY PanelsAssumption DEF PanelsAssumption, Sizes!Init, Sizes!NoSize, Sizes!NoBatch,
     Sizes!NoDetail, Sizes!Row0, SizesTyped, SizeRecords, RowRecords, Waits
<1>2. Sizes!FreshSize
  BY DEF Sizes!Init, Sizes!FreshSize, Sizes!Cached, Sizes!NoSize
<1>3. PinsCounted
  <2> SUFFICES ASSUME NEW k \in Keys PROVE s3.pins[k] = Cardinality(Pinned(s6, k))
    BY DEF PinsCounted
  <2>1. Pinned(s6, k) = {}
    BY PanelsAssumption DEF PanelsAssumption, Pinned, Sizes!Init, Sizes!Row0
  <2> QED
    BY <2>1, FS_EmptySet DEF Sizes!Init
<1> QED
  BY <1>1, <1>2, <1>3 DEF SizesInv

\* A step of one row, with what its pin becomes.
LEMMA RowSteps ==
  ASSUME SizesInv, NEW r \in SizeRows, NEW x \in RowRecords, s6' = [s6 EXCEPT ![r] = x],
         \/ x.pin = None /\ s3' = Sizes!Stopped(r)
         \/ x.pin \in Keys /\ s3' = Sizes!Enqueued(Sizes!Stopped(r), x.pin),
         UNCHANGED <<s1, s2, s4, s5, s7>>
  PROVE  SizesInv'
<1>1. s6' \in [SizeRows -> RowRecords] /\ s6'[r] = x /\ \A q \in SizeRows \ {r} : s6'[q].pin = s6[q].pin
  BY DEF SizesInv, SizesTyped
<1>2. /\ Waits(s3')
      /\ \A j \in Keys : s3'.pins[j] = (IF j = s6[r].pin THEN s3.pins[j] - 1 ELSE s3.pins[j])
                                         + IF j = x.pin THEN 1 ELSE 0
  <2>1. CASE x.pin = None /\ s3' = Sizes!Stopped(r)
    BY <2>1, StoppedPins, PanelsAssumption DEF PanelsAssumption, SizesInv, SizesTyped, Waits
  <2>2. CASE x.pin \in Keys /\ s3' = Sizes!Enqueued(Sizes!Stopped(r), x.pin)
    BY <2>2, StoppedPins, EnqueuePins DEF SizesInv, SizesTyped, Waits
  <2> QED
    BY <2>1, <2>2
<1>3. SizesTyped'
  BY <1>1, <1>2 DEF SizesInv, SizesTyped
<1>4. PinsCounted'
  <2> SUFFICES ASSUME NEW k \in Keys PROVE s3'.pins[k] = Cardinality(Pinned(s6', k))
    BY DEF PinsCounted, Pinned
  <2>1. s3.pins[k] = Cardinality(Pinned(s6, k)) /\ s3.pins[k] \in Nat
    BY DEF SizesInv, PinsCounted, SizesTyped, Waits
  <2>2. /\ Cardinality(Pinned(s6', k)) \in Nat
        /\ Cardinality(Pinned(s6', k)) + (IF s6[r].pin = k THEN 1 ELSE 0)
             = Cardinality(Pinned(s6, k)) + (IF s6'[r].pin = k THEN 1 ELSE 0)
    BY <1>1, PinMoves
  <2> QED
    BY <1>1, <1>2, <2>1, <2>2
<1> QED
  BY <1>3, <1>4 DEF SizesInv, Sizes!FreshSize, Sizes!Cached

\* A step that leaves all pins alone.
LEMMA PinsStay ==
  ASSUME SizesInv, SizesTyped', s3'.pins = s3.pins, \A r \in SizeRows : s6'[r].pin = s6[r].pin,
         (Sizes!FreshSize)'
  PROVE  SizesInv'
<1>1. ASSUME NEW k \in Keys PROVE Pinned(s6', k) = Pinned(s6, k)
  BY DEF Pinned
<1>2. \A k \in Keys : Pinned(s6, k)' = Pinned(s6', k)
  BY DEF Pinned
<1> QED
  BY <1>1, <1>2 DEF SizesInv, PinsCounted

\* What happens to the queue and the timer leaves the pins alone.
LEMMA QueueStays ==
  ASSUME NEW w, Waits(w), NEW q, NEW t
  PROVE  /\ Waits([w EXCEPT !.queue = q]) /\ [w EXCEPT !.queue = q].pins = w.pins
         /\ Waits([w EXCEPT !.timer = t]) /\ [w EXCEPT !.timer = t].pins = w.pins
         /\ Waits([w EXCEPT !.timer = t, !.queue = q])
         /\ [w EXCEPT !.timer = t, !.queue = q].pins = w.pins
<1>1. PICK q0, p0, t0 : w = [queue |-> q0, pins |-> p0, timer |-> t0] /\ p0 \in [Keys -> Nat]
  BY DEF Waits
<1>2. /\ w \in [queue : {q0}, pins : {p0}, timer : {t0}] /\ w.queue = q0 /\ w.pins = p0
      /\ w.timer = t0
  BY <1>1
<1>3. /\ [w EXCEPT !.queue = q] = [queue |-> q, pins |-> p0, timer |-> t0]
      /\ [w EXCEPT !.timer = t] = [queue |-> q0, pins |-> p0, timer |-> t]
      /\ [w EXCEPT !.timer = t, !.queue = q] = [queue |-> q, pins |-> p0, timer |-> t]
  <2>1. [w EXCEPT !.queue = q] = [queue |-> q, pins |-> p0, timer |-> t0]
    BY <1>2
  <2>2. [w EXCEPT !.timer = t] = [queue |-> q0, pins |-> p0, timer |-> t]
    BY <1>2
  <2>3. [w EXCEPT !.timer = t, !.queue = q] = [queue |-> q, pins |-> p0, timer |-> t]
    <3> DEFINE v == [w EXCEPT !.timer = t]
    <3>1. [w EXCEPT !.timer = t, !.queue = q] = [v EXCEPT !.queue = q]
      BY Zenon
    <3>2. v \in [queue : {q0}, pins : {p0}, timer : {t}] /\ v.pins = p0 /\ v.timer = t
      BY <2>2
    <3> HIDE DEF v
    <3> QED
      BY <3>1, <3>2
  <2> QED
    BY <2>1, <2>2, <2>3
<1> QED
  BY <1>1, <1>3 DEF Waits

\* A row that queues, or stops.
LEMMA RowsKeep ==
  ASSUME SizesInv, NEW r \in SizeRows,
         (\E k \in Keys : Sizes!Mount(r, k)) \/ Sizes!Unmount(r) \/ Sizes!Watch(r) \/ Sizes!HideSize(r)
  PROVE  SizesInv'
<1>0. s6[r] \in RowRecords /\ s7 \in BOOLEAN /\ s2 \in 0..MaxGen
  BY DEF SizesInv, SizesTyped
<1>1. ASSUME NEW k \in Keys, Sizes!Watched(r, k), UNCHANGED <<s1, s2, s4, s5, s7>>
      PROVE  SizesInv'
  <2> DEFINE x == [s6[r] EXCEPT !.key = k, !.size = s7, !.seen = <<k, s2>>,
                                !.pin = IF s7 /\ ~Sizes!Cached(k) THEN k ELSE None]
  <2>1. x \in RowRecords /\ x.pin = IF s7 /\ ~Sizes!Cached(k) THEN k ELSE None
    BY <1>0 DEF RowRecords
  <2>2. /\ s6' = [s6 EXCEPT ![r] = x]
        /\ s3' = IF s7 /\ ~Sizes!Cached(k) THEN Sizes!Enqueued(Sizes!Stopped(r), k) ELSE Sizes!Stopped(r)
    BY <1>1 DEF Sizes!Watched
  <2> HIDE DEF x
  <2> QED
    BY <1>1, <2>1, <2>2, RowSteps
<1>2. CASE \E k \in Keys : Sizes!Mount(r, k)
  BY <1>1, <1>2 DEF Sizes!Mount
<1>3. CASE Sizes!Watch(r)
  <2>1. s6[r].key \in Keys
    BY <1>0, <1>3 DEF Sizes!Watch, RowRecords
  <2> QED
    BY <1>1, <1>3, <2>1 DEF Sizes!Watch
<1>4. CASE Sizes!Unmount(r)
  <2>1. Sizes!Row0 \in RowRecords /\ Sizes!Row0.pin = None
    BY PanelsAssumption DEF PanelsAssumption, Sizes!Row0, RowRecords
  <2> QED
    BY <1>4, <2>1, RowSteps DEF Sizes!Unmount
<1>5. CASE Sizes!HideSize(r)
  <2> DEFINE x == [s6[r] EXCEPT !.size = FALSE, !.pin = None]
  <2>1. x \in RowRecords /\ x.pin = None
    BY <1>0 DEF RowRecords
  <2>2. s6' = [s6 EXCEPT ![r] = x]
    BY <1>0, <1>5 DEF Sizes!HideSize, SizesInv, SizesTyped
  <2> HIDE DEF x
  <2> QED
    BY <1>5, <2>1, <2>2, RowSteps DEF Sizes!HideSize
<1> QED
  BY <1>2, <1>3, <1>4, <1>5

\* Calls that come back, and what drops sizes.
LEMMA CallsKeep ==
  ASSUME SizesInv,
         \/ Sizes!Flush \/ Sizes!FlushAnswered \/ Sizes!FlushRefused
         \/ Sizes!DetailAnswered \/ Sizes!DetailFails \/ Sizes!Clear
         \/ \E k \in Keys : \/ Sizes!DetailAsk(k) \/ Sizes!Deleted(k)
                            \/ \E n \in Keys : Sizes!Renamed(k, n)
  PROVE  SizesInv'
<1> USE PanelsAssumption DEF PanelsAssumption
<1>0. /\ Waits(s3) /\ s1 \in [Keys -> SizeRecords] /\ s2 \in 0..MaxGen /\ s6 \in [SizeRows -> RowRecords]
      /\ Sizes!FreshSize /\ Sizes!NoBatch.gen = 0 /\ Sizes!NoDetail.gen = 0
      /\ Sizes!NoDetail = [st |-> "no", key |-> None, gen |-> 0]
      /\ 0 \in 0..MaxGen
  BY DEF SizesInv, SizesTyped, Sizes!NoBatch, Sizes!NoDetail
<1>1. CASE Sizes!Flush
  <2>1. /\ Waits(s3') /\ s3'.pins = s3.pins /\ s4'.gen \in 0..MaxGen
        /\ UNCHANGED <<s1, s2, s5, s6, s7>>
    BY <1>0, <1>1, QueueStays, ZenonT(30) DEF Sizes!Flush
  <2> QED
    BY <2>1, PinsStay DEF SizesInv, SizesTyped, Sizes!FreshSize, Sizes!Cached
<1>2. ASSUME Sizes!FlushEnds
      PROVE  /\ Waits(s3') /\ s3'.pins = s3.pins /\ s4'.gen \in 0..MaxGen
             /\ UNCHANGED <<s2, s5, s6>>
  BY <1>0, <1>2, QueueStays DEF Sizes!FlushEnds, Sizes!NextTurn
<1>3. CASE Sizes!FlushAnswered
  <2>1. \A k \in Keys : s1'[k] = IF Sizes!SameGen(s4.gen) /\ Sizes!Queued(s4.keys, k) /\ Sizes!OpenTo(k)
                                 THEN [by |-> "batch", gen |-> s4.gen] ELSE s1[k]
    BY <1>3 DEF Sizes!FlushAnswered
  <2>2. s1' \in [Keys -> SizeRecords]
    BY <1>0, <1>3 DEF Sizes!FlushAnswered, Sizes!SameGen, SizeRecords
  <2>3. Sizes!FlushEnds /\ s7' = s7
    BY <1>3 DEF Sizes!FlushAnswered
  <2>4. (Sizes!FreshSize)'
    BY <1>0, <1>2, <2>1, <2>3 DEF Sizes!FreshSize, Sizes!Cached, Sizes!SameGen
  <2> QED
    BY <1>2, <2>2, <2>3, <2>4, PinsStay DEF SizesInv, SizesTyped
<1>4. CASE Sizes!FlushRefused
  <2>1. Sizes!FlushEnds /\ s7' \in BOOLEAN /\ s1' = s1
    BY <1>4 DEF Sizes!FlushRefused, SizesInv, SizesTyped
  <2> QED
    BY <1>0, <1>2, <2>1, PinsStay DEF SizesInv, SizesTyped, Sizes!FreshSize, Sizes!Cached
<1>5. CASE \E k \in Keys : Sizes!DetailAsk(k)
  <2>1. PICK k \in Keys : s5' = [st |-> "asked", key |-> k, gen |-> s2] /\ UNCHANGED <<s1, s2, s3, s4, s6, s7>>
    BY <1>5 DEF Sizes!DetailAsk
  <2> QED
    BY <1>0, <2>1, PinsStay DEF SizesInv, SizesTyped, Sizes!FreshSize, Sizes!Cached
<1>6. CASE Sizes!DetailAnswered
  <2>1. s5.key \in Keys /\ s5' = Sizes!NoDetail /\ UNCHANGED <<s2, s3, s4, s6, s7>>
    BY <1>6 DEF Sizes!DetailAnswered, SizesInv, SizesTyped
  <2>2. /\ s1' \in [Keys -> SizeRecords]
        /\ \A k \in Keys : s1'[k] = s1[k] \/ s1'[k].gen = s2
    BY <1>0, <1>6, <2>1 DEF Sizes!DetailAnswered, Sizes!SameGen, SizeRecords
  <2>3. (Sizes!FreshSize)'
    BY <1>0, <2>1, <2>2 DEF Sizes!FreshSize, Sizes!Cached
  <2> QED
    BY <1>0, <2>1, <2>2, <2>3, PinsStay DEF SizesInv, SizesTyped
<1>7. CASE Sizes!DetailFails
  <2>1. s5' = Sizes!NoDetail /\ UNCHANGED <<s1, s2, s3, s4, s6, s7>>
    BY <1>7 DEF Sizes!DetailFails
  <2> QED
    BY <1>0, <2>1, PinsStay DEF SizesInv, SizesTyped, Sizes!FreshSize, Sizes!Cached
<1>8. ASSUME NEW ks, Sizes!Dropped(ks)
      PROVE  /\ Waits(s3') /\ s3'.pins = s3.pins /\ s1' \in [Keys -> SizeRecords]
             /\ \A k \in Keys : s1'[k] = IF k \in ks THEN Sizes!NoSize ELSE s1[k]
  BY <1>0, <1>8, QueueStays DEF Sizes!Dropped, Sizes!NoSize, SizeRecords
<1>9. CASE Sizes!Clear
  <2>1. s2' \in 0..MaxGen /\ Sizes!Dropped(Keys) /\ UNCHANGED <<s4, s5, s6, s7>>
    BY <1>0, <1>9 DEF Sizes!Clear
  <2>2. (Sizes!FreshSize)'
    BY <1>8, <2>1 DEF Sizes!FreshSize, Sizes!Cached, Sizes!NoSize
  <2> QED
    BY <1>8, <2>1, <2>2, PinsStay DEF SizesInv, SizesTyped
<1>10. CASE \E k \in Keys : Sizes!Deleted(k) \/ \E n \in Keys : Sizes!Renamed(k, n)
  <2>1. PICK k \in Keys : Sizes!Deleted(k) \/ \E n \in Keys : Sizes!Renamed(k, n)
    BY <1>10
  <2>2. Sizes!Dropped({k}) /\ UNCHANGED <<s2, s4, s5, s7>>
    BY <2>1 DEF Sizes!Deleted, Sizes!Renamed
  <2>3. s6' \in [SizeRows -> RowRecords] /\ \A r \in SizeRows : s6'[r].pin = s6[r].pin
    <3>1. ASSUME NEW r \in SizeRows
          PROVE  [s6[r] EXCEPT !.gone = TRUE] \in RowRecords /\ [s6[r] EXCEPT !.gone = TRUE].pin = s6[r].pin
      <4> s6[r] \in RowRecords
        BY <1>0
      <4> QED
        BY DEF RowRecords
    <3>2. ASSUME NEW r \in SizeRows, NEW n \in Keys
          PROVE  [s6[r] EXCEPT !.key = n] \in RowRecords /\ [s6[r] EXCEPT !.key = n].pin = s6[r].pin
      <4> s6[r] \in RowRecords
        BY <1>0
      <4> QED
        BY DEF RowRecords
    <3>3. CASE Sizes!Deleted(k)
      <4>1. s6' = [r \in SizeRows |-> IF s6[r].key = k THEN [s6[r] EXCEPT !.gone = TRUE] ELSE s6[r]]
        BY <3>3, Zenon DEF Sizes!Deleted
      <4> QED
        BY <1>0, <3>1, <4>1, Zenon
    <3>4. CASE \E n \in Keys : Sizes!Renamed(k, n)
      <4>1. PICK n \in Keys :
              s6' = [r \in SizeRows |-> IF s6[r].key = k THEN [s6[r] EXCEPT !.key = n] ELSE s6[r]]
        BY <3>4, Zenon DEF Sizes!Renamed
      <4> QED
        BY <1>0, <3>2, <4>1, Zenon
    <3> QED
      BY <2>1, <3>3, <3>4
  <2>4. (Sizes!FreshSize)'
    BY <1>0, <1>8, <2>2 DEF Sizes!FreshSize, Sizes!Cached, Sizes!NoSize
  <2> QED
    BY <1>8, <2>2, <2>3, <2>4, PinsStay DEF SizesInv, SizesTyped
<1> QED
  BY <1>1, <1>3, <1>4, <1>5, <1>6, <1>7, <1>9, <1>10

LEMMA SizesStep ==
  ASSUME part = "sizes" => SizesInv, [Next]_vars
  PROVE  (part = "sizes" => SizesInv)'
<1> SUFFICES ASSUME part = "sizes", SizesInv PROVE SizesInv'
  BY DEF Next, vars
<1>1. CASE UNCHANGED vars
  BY <1>1, PinsStay DEF vars, SizesInv, SizesTyped, Waits, Sizes!FreshSize, Sizes!Cached
<1>2. CASE Next
  BY <1>2, RowsKeep, CallsKeep DEF Next, Sizes!Next
<1> QED
  BY <1>1, <1>2

\* No size from before a clearing is shown after it, and a key's pins are the rows that wait for
\* it, for any keys, rows, batch size and number of clearings: key-memory-cache.
THEOREM SizesAreFresh == Spec => []FreshSize
<1>1. \A S : Sizes!Cardinality(S) = Cardinality(S)
  BY DEF Sizes!Cardinality, Cardinality
<1>2. PinsCounted => Sizes!PinsCount
  BY <1>1 DEF PinsCounted, Sizes!PinsCount, Pinned
<1>3. (part = "sizes" => SizesInv) => FreshSize
  BY <1>2 DEF SizesInv, FreshSize
<1>4. Spec => Init /\ [][Next]_vars
  BY DEF Spec
<1> QED
  BY <1>3, <1>4, SizesInit, SizesStep, PTL

\* A batch never writes over what the details wrote, however late it comes back: flush.
THEOREM DetailsWin == Spec => DetailWins
<1>1. ASSUME part = "sizes" => SizesInv, [Next]_vars
      PROVE  [part = "sizes" =>
                \A k \in Keys : Sizes!Written(k, "detail") => ~Sizes!Written(k, "batch")']_vars
  <2> SUFFICES ASSUME part = "sizes", SizesInv, Sizes!Next, NEW k \in Keys, s1[k].by = "detail"
               PROVE  s1'[k].by # "batch"
    BY <1>1 DEF Next, Sizes!Written
  <2>1. CASE Sizes!FlushAnswered
    BY <2>1 DEF Sizes!FlushAnswered, Sizes!OpenTo, Sizes!Cached
  <2>2. CASE Sizes!DetailAnswered
    BY <2>2 DEF Sizes!DetailAnswered, SizesInv, SizesTyped
  <2>3. CASE Sizes!Clear \/ \E j \in Keys : Sizes!Deleted(j) \/ \E n \in Keys : Sizes!Renamed(j, n)
    <3>1. PICK ks : Sizes!Dropped(ks)
      BY <2>3 DEF Sizes!Clear, Sizes!Deleted, Sizes!Renamed
    <3>2. s1' = [j \in Keys |-> IF j \in ks THEN Sizes!NoSize ELSE s1[j]]
      BY <3>1, Zenon DEF Sizes!Dropped
    <3> QED
      BY <3>2 DEF Sizes!NoSize
  <2>4. \/ Sizes!FlushAnswered \/ Sizes!DetailAnswered \/ s1' = s1
        \/ Sizes!Clear \/ \E j \in Keys : Sizes!Deleted(j) \/ \E n \in Keys : Sizes!Renamed(j, n)
    BY DEF Sizes!Next, Sizes!Mount, Sizes!Unmount, Sizes!Watch, Sizes!HideSize, Sizes!Flush,
           Sizes!FlushRefused, Sizes!DetailAsk, Sizes!DetailFails
  <2> QED
    BY <2>1, <2>2, <2>3, <2>4
<1>2. Spec => Init /\ [][Next]_vars
  BY DEF Spec
<1> QED
  BY <1>1, <1>2, SizesInit, SizesStep, PTL DEF DetailWins

-----------------------------------------------------------------------------
(* ConnSwitch: conn, shown, caps, run, reload, calls, clients and calm are s1 to s8.  While a
   choice is carried out, the call made for the latest comes after every other run's, or will;
   and whatever is open besides the chosen connection has a call under way that closes it. *)

SwitchBounds == None \notin Conns /\ "reload" \notin Runs

RunRecords == [at : {"no", "disconnect", "connect"}, old : Switch!Maybe, new : Switch!Maybe]
SwitchTyped ==
  /\ s1 \in Switch!Maybe /\ s2 \in BOOLEAN /\ s3 \in Switch!Maybe /\ s5 \in Switch!Maybe
  /\ s4 \in [Runs -> RunRecords] /\ s6 \in Seq(Switch!Call) /\ s7 \subseteq Conns
  /\ s8 \in [apart : BOOLEAN, ok : BOOLEAN]

\* Every run and the reload wait for one call, which is theirs.
OneEach == \A i, j \in DOMAIN s6 : s6[i].by = s6[j].by => i = j
CallFits == \A i \in DOMAIN s6 :
  /\ s6[i].by \in Runs =>
       /\ s4[s6[i].by].at = s6[i].what
       /\ s6[i].what = "connect" => s6[i].conn = s4[s6[i].by].new
  /\ s6[i].by = Switch!Reload => s6[i].what = "connect" /\ s6[i].conn = s5
EachAsks ==
  /\ \A r \in Runs : s4[r].at # "no" => \E i \in DOMAIN s6 : s6[i].by = r
  /\ s5 # None => \E i \in DOMAIN s6 : s6[i].by = Switch!Reload

\* The last choice's call comes after whatever else could change what is shown, or its
\* second call will: nobody disconnects behind it.
NoneFailed == s8.ok => \A i \in DOMAIN s6 : s6[i].st # "failed"
Latest(p) ==
  /\ s6[p].by \in Runs /\ s4[s6[p].by].new = s1
  /\ \A j \in DOMAIN s6 : j > p =>
       s6[j].what = "connect" /\ (s6[j].by = Switch!Reload => s6[j].conn = s1)
  /\ s6[p].what = "connect" =>
       /\ \A j \in DOMAIN s6 : s6[j].what = "connect" /\ (j > p => s6[j].by = Switch!Reload)
       /\ s6[p].st = "done" => s1 \in s7
Settled == s2 /\ s3 = s1 /\ s1 \in s7 /\ \A i \in DOMAIN s6 : s6[i].conn = s1
Chosen == s8.ok /\ s1 # None =>
  IF Switch!Loading THEN \E p \in DOMAIN s6 : Latest(p) ELSE Settled

\* Of choices that come one at a time, one is carried out; and what is connected besides the
\* chosen connection, or will be, will be disconnected.
OneChoice == s8.apart =>
  \A r, s \in Runs : s4[r].at # "no" => s4[r].new = s1 /\ (s4[s].at # "no" => r = s)
Closes(j, x) == s6[j].what = "disconnect" /\ s6[j].conn = x /\ s6[j].st = "asked"
Opens(i, x) == s6[i].what = "connect" /\ s6[i].conn = x /\ s6[i].st = "asked"
Shuts(x) ==
  /\ x \in s7 => \E j \in DOMAIN s6 : Closes(j, x)
  /\ \A i \in DOMAIN s6 : Opens(i, x) => \E j \in DOMAIN s6 : j > i /\ Closes(j, x)
ClosesLast == s8.apart => \A x \in Conns \ {s1} : Shuts(x)

SwitchInv == /\ SwitchTyped /\ OneEach /\ CallFits /\ EachAsks
             /\ NoneFailed /\ Chosen /\ OneChoice /\ ClosesLast

-----------------------------------------------------------------------------
\* A call that is asked for.
LEMMA AskedCall ==
  ASSUME NEW q \in Seq(Switch!Call), NEW r \in Runs \cup {Switch!Reload}, NEW c \in Conns,
         NEW what \in {"connect", "disconnect"}
  PROVE  \E d \in Switch!Call : /\ d.by = r /\ d.what = what /\ d.conn = c /\ d.st = "asked"
                                /\ Switch!Asked(q, r, what, c) = Append(q, d)
<1>1. PICK d : d = [by |-> r, what |-> what, conn |-> c, st |-> "asked"]
  OBVIOUS
<1>2. d \in Switch!Call /\ d.by = r /\ d.what = what /\ d.conn = c /\ d.st = "asked"
  BY <1>1 DEF Switch!Call
<1>3. Switch!Asked(q, r, what, c) = Append(q, d)
  BY <1>1 DEF Switch!Asked
<1> QED
  BY <1>2, <1>3

\* A call more, and the first one less.
LEMMA Pushed ==
  ASSUME NEW q \in Seq(Switch!Call), NEW d \in Switch!Call, NEW p, p = Append(q, d)
  PROVE  /\ p \in Seq(Switch!Call) /\ Len(q) \in Nat /\ DOMAIN q = 1..Len(q)
         /\ DOMAIN p = 1..Len(q) + 1 /\ Len(p) = Len(q) + 1
         /\ p[Len(q) + 1] = d /\ \A i \in 1..Len(q) : p[i] = q[i]
OBVIOUS

LEMMA Popped ==
  ASSUME NEW q \in Seq(Switch!Call), q # <<>>, NEW p, p = Tail(q)
  PROVE  /\ p \in Seq(Switch!Call) /\ Len(q) \in Nat \ {0} /\ DOMAIN q = 1..Len(q)
         /\ DOMAIN p = 1..Len(q) - 1 /\ Len(p) = Len(q) - 1
         /\ \A i \in 1..Len(q) - 1 : p[i] = q[i + 1]
         /\ q[1] \in Switch!Call
OBVIOUS

\* Whoever has a call under way waits for it; without a choice under way only the reload does.
LEMMA SwitchWaits ==
  ASSUME SwitchInv
  PROVE  /\ \A i \in DOMAIN s6 : s6[i] \in Switch!Call
         /\ \A i \in DOMAIN s6 : s6[i].by \in Runs => s4[s6[i].by].at # "no"
         /\ ~Switch!Loading => \A i \in DOMAIN s6 :
              s6[i].by = Switch!Reload /\ s6[i].what = "connect" /\ s6[i].conn = s5
<1>1. \A i \in DOMAIN s6 : s6[i] \in Switch!Call
  BY DEF SwitchInv, SwitchTyped
<1>2. \A i \in DOMAIN s6 : s6[i].what # "no" /\ s6[i].by \in Runs \cup {Switch!Reload}
  BY <1>1 DEF Switch!Call
<1> QED
  BY <1>1, <1>2 DEF SwitchInv, CallFits, Switch!Loading

LEMMA ChooseStep ==
  ASSUME SwitchBounds, SwitchInv, NEW c \in Switch!Maybe, Switch!Choose(c)
  PROVE  SwitchInv'
<1>1. PICK r \in Runs : s4[r].at = "no" /\ Switch!Started(r, s1, c, s6)
  BY DEF Switch!Choose
<1>2. /\ c # s1 /\ s1' = c /\ SwitchTyped /\ UNCHANGED <<s3, s5, s7>>
      /\ s8' = [apart |-> s8.apart /\ ~Switch!Loading, ok |-> s8.ok /\ ~(Switch!Loading /\ s1 = None)]
  BY DEF Switch!Choose, SwitchInv
<1>3. /\ s8' \in [apart : BOOLEAN, ok : BOOLEAN] /\ s8'.apart = (s8.apart /\ ~Switch!Loading)
      /\ s8'.ok = (s8.ok /\ ~(Switch!Loading /\ s1 = None))
  BY <1>2 DEF SwitchTyped, Switch!Loading
<1>4. PICK d \in Switch!Call : /\ d.by = r /\ d.st = "asked" /\ s6' = Append(s6, d)
                               /\ s1 # None => d.what = "disconnect" /\ d.conn = s1
                               /\ s1 = None => d.what = "connect" /\ d.conn = c
  <2>1. CASE s1 # None
    <3>1. s6' = Switch!Asked(s6, r, "disconnect", s1) /\ s1 \in Conns /\ s6 \in Seq(Switch!Call)
      BY <1>1, <1>2, <2>1 DEF Switch!Started, SwitchTyped, Switch!Maybe
    <3> QED
      BY <2>1, <3>1, AskedCall
  <2>2. CASE s1 = None
    <3>1. s6' = Switch!Asked(s6, r, "connect", c) /\ c \in Conns /\ s6 \in Seq(Switch!Call)
      BY <1>1, <1>2, <2>2 DEF Switch!Started, SwitchTyped, Switch!Maybe
    <3> QED
      BY <2>2, <3>1, AskedCall
  <2> QED
    BY <2>1, <2>2
<1>16. PICK n : n = Len(s6) + 1
  OBVIOUS
<1>5. /\ s6' \in Seq(Switch!Call) /\ n \in Nat \ {0} /\ DOMAIN s6 = 1..n - 1 /\ DOMAIN s6' = 1..n
      /\ s6'[n] = d /\ \A i \in 1..n - 1 : s6'[i] = s6[i]
  BY <1>2, <1>4, <1>16, Pushed DEF SwitchTyped
<1>6. /\ s4' \in [Runs -> RunRecords] /\ s4'[r].at = d.what /\ s4'[r].new = c
      /\ \A s \in Runs : s # r => s4'[s] = s4[s]
  <2>1. PICK new : new = [at |-> IF s1 # None THEN "disconnect" ELSE "connect",
                          old |-> s1, new |-> c]
    OBVIOUS
  <2>2. s4' = [s4 EXCEPT ![r] = new] /\ s2' = FALSE
    BY <1>1, <2>1 DEF Switch!Started
  <2>3. new \in RunRecords /\ new.at = d.what /\ new.new = c
    BY <1>2, <1>4, <2>1 DEF RunRecords, SwitchTyped
  <2> QED
    BY <1>2, <2>2, <2>3 DEF SwitchTyped
<1>7. SwitchTyped'
  BY <1>1, <1>2, <1>3, <1>5, <1>6 DEF SwitchTyped, Switch!Started
<1>8. \A i \in 1..n - 1 : s6[i].by # r
  BY <1>1, <1>5, SwitchWaits
<1>9. OneEach'
  BY <1>4, <1>5, <1>8 DEF SwitchInv, OneEach
<1>10. CallFits'
  <2>1. r # Switch!Reload
    BY DEF SwitchBounds, Switch!Reload
  <2>2. ASSUME NEW i \in 1..n - 1
        PROVE  /\ s6'[i].by \in Runs => /\ s4'[s6'[i].by].at = s6'[i].what
                                        /\ s6'[i].what = "connect" =>
                                             s6'[i].conn = s4'[s6'[i].by].new
               /\ s6'[i].by = Switch!Reload => s6'[i].what = "connect" /\ s6'[i].conn = s5
    BY <1>5, <1>6, <1>8 DEF SwitchInv, CallFits
  <2> QED
    BY <1>2, <1>4, <1>5, <1>6, <2>1, <2>2 DEF CallFits
<1>11. EachAsks'
  BY <1>2, <1>4, <1>5, <1>6 DEF SwitchInv, EachAsks
<1>12. NoneFailed'
  BY <1>3, <1>4, <1>5 DEF SwitchInv, NoneFailed
<1>13. Chosen'
  <2> SUFFICES ASSUME s8'.ok, s1' # None PROVE Switch!Loading' /\ Latest(n)' /\ n \in DOMAIN s6'
    BY DEF Chosen
  <2>1. Switch!Loading'
    BY <1>4, <1>6 DEF Switch!Loading, Switch!Call
  <2>2. d.what = "connect" => \A i \in 1..n - 1 : s6[i].what = "connect"
    <3>1. d.what = "connect" => ~Switch!Loading
      BY <1>3, <1>4
    <3> QED
      BY <1>5, <3>1, SwitchWaits
  <2>3. n \in DOMAIN s6' /\ \A j \in DOMAIN s6' : ~(j > n)
    BY <1>5
  <2>4. d.what = "connect" => \A j \in DOMAIN s6' : s6'[j].what = "connect"
    BY <1>5, <2>2
  <2>5. Latest(n)'
    BY <1>2, <1>4, <1>5, <1>6, <2>3, <2>4 DEF Latest
  <2> QED
    BY <2>1, <2>3, <2>5
<1>14. OneChoice'
  <2>1. s8'.apart => \A s \in Runs : s4[s].at = "no"
    BY <1>3 DEF Switch!Loading
  <2> QED
    BY <1>2, <1>6, <2>1 DEF OneChoice
<1>15. ClosesLast'
  <2> SUFFICES ASSUME s8'.apart, NEW x \in Conns, x # s1'
               PROVE  Shuts(x)'
    BY DEF ClosesLast
  <2>1. s8.apart
    BY <1>3
  <2>2. ASSUME NEW j \in DOMAIN s6, Closes(j, x) PROVE j \in DOMAIN s6' /\ Closes(j, x)'
    BY <1>5, <2>2 DEF Closes
  <2>3. x = s1 => n \in DOMAIN s6' /\ Closes(n, x)' /\ \A i \in DOMAIN s6 : n > i
    <3>1. x # None
      BY DEF SwitchBounds
    <3> QED
      BY <1>4, <1>5, <3>1 DEF Closes
  <2>4. ASSUME NEW i \in DOMAIN s6', Opens(i, x)' PROVE i \in DOMAIN s6 /\ Opens(i, x)
    BY <1>2, <1>4, <1>5, <2>4 DEF Opens
  <2>5. CASE x = s1
    BY <2>3, <2>4, <2>5 DEF Shuts
  <2>6. CASE x # s1
    <3>1. Shuts(x)
      BY <2>1, <2>6 DEF SwitchInv, ClosesLast
    <3> QED
      BY <1>2, <2>2, <2>4, <3>1 DEF Shuts
  <2> QED
    BY <2>5, <2>6
<1> QED
  BY <1>7, <1>9, <1>10, <1>11, <1>12, <1>13, <1>14, <1>15 DEF SwitchInv

-----------------------------------------------------------------------------
\* The calls but for the first k of them are still there, in that order.
Moved(k) == \A j \in DOMAIN s6 : j > k => j - k \in DOMAIN s6' /\ s6'[j - k] = s6[j]

LEMMA ShutsStays ==
  ASSUME NEW x, Shuts(x), NEW k \in {0, 1}, Moved(k), s7' \subseteq s7,
         s6 \in Seq(Switch!Call), s6' \in Seq(Switch!Call),
         \A j \in DOMAIN s6 : j <= k => s6[j].st # "asked",
         \A i \in DOMAIN s6' : i + k \in DOMAIN s6 \/ ~Opens(i, x)'
  PROVE  Shuts(x)'
<1>1. DOMAIN s6 \subseteq Nat /\ DOMAIN s6' \subseteq Nat
  OBVIOUS
<1>2. ASSUME NEW j \in DOMAIN s6, Closes(j, x)
      PROVE  j > k /\ j - k \in DOMAIN s6' /\ Closes(j - k, x)'
  <2>1. j > k
    BY <1>1, <1>2 DEF Closes
  <2> QED
    BY <1>2, <2>1 DEF Closes, Moved
<1>3. ASSUME NEW i \in DOMAIN s6', Opens(i, x)' PROVE i + k \in DOMAIN s6 /\ Opens(i + k, x)
  <2>1. i + k \in DOMAIN s6 /\ i + k > k /\ (i + k) - k = i
    BY <1>1, <1>3
  <2>2. s6'[i] = s6[i + k]
    BY <2>1 DEF Moved
  <2> QED
    BY <1>3, <2>1, <2>2 DEF Opens
<1>4. x \in s7' => \E j \in DOMAIN s6' : Closes(j, x)'
  BY <1>2 DEF Shuts
<1>5. ASSUME NEW i \in DOMAIN s6', Opens(i, x)'
      PROVE  \E j \in DOMAIN s6' : j > i /\ Closes(j, x)'
  <2>1. PICK j \in DOMAIN s6 : j > i + k /\ Closes(j, x)
    BY <1>3, <1>5 DEF Shuts
  <2>2. j - k \in DOMAIN s6' /\ Closes(j - k, x)' /\ j - k > i
    BY <1>1, <1>2, <2>1
  <2> QED
    BY <2>2
<1> QED
  BY <1>4, <1>5 DEF Shuts

LEMMA LatestMoves ==
  ASSUME NEW p \in DOMAIN s6, Latest(p), NEW k \in {0, 1}, p > k, Moved(k),
         s6 \in Seq(Switch!Call), s6' \in Seq(Switch!Call), s1' = s1, s7' = s7,
         s4'[s6[p].by].new = s4[s6[p].by].new,
         \A i \in DOMAIN s6' :
           i + k \in DOMAIN s6 \/ /\ i + k > p /\ s6'[i].what = "connect"
                                  /\ s6'[i].by = Switch!Reload => s6'[i].conn = s1
                                  /\ s6[p].what = "connect" => s6'[i].by = Switch!Reload
  PROVE  p - k \in DOMAIN s6' /\ Latest(p - k)'
<1>1. DOMAIN s6 \subseteq Nat /\ DOMAIN s6' \subseteq Nat
  OBVIOUS
<1>2. p - k \in DOMAIN s6' /\ s6'[p - k] = s6[p]
  BY DEF Moved
<1>3. ASSUME NEW i \in DOMAIN s6', i + k \in DOMAIN s6 PROVE s6'[i] = s6[i + k]
  <2>1. i + k > k /\ (i + k) - k = i
    BY <1>1
  <2> QED
    BY <1>3, <2>1 DEF Moved
<1>4. ASSUME NEW j \in DOMAIN s6', j > p - k
      PROVE  s6'[j].what = "connect" /\ (s6'[j].by = Switch!Reload => s6'[j].conn = s1)
  <2>1. CASE j + k \in DOMAIN s6
    <3>1. j + k > p
      BY <1>1, <1>4
    <3> QED
      BY <1>3, <2>1, <3>1 DEF Latest
  <2> QED
    BY <2>1
<1>5. ASSUME s6[p].what = "connect", NEW j \in DOMAIN s6'
      PROVE  s6'[j].what = "connect" /\ (j > p - k => s6'[j].by = Switch!Reload)
  <2>1. CASE j + k \in DOMAIN s6
    <3>1. j > p - k => j + k > p
      BY <1>1
    <3> QED
      BY <1>3, <1>5, <2>1, <3>1 DEF Latest
  <2> QED
    BY <1>5, <2>1
<1> QED
  BY <1>2, <1>4, <1>5 DEF Latest

\* A call that came back is taken from the front.
LEMMA Taken ==
  ASSUME SwitchTyped, s6 # <<>>, s6' = Tail(s6)
  PROVE  /\ s6' \in Seq(Switch!Call) /\ Moved(1) /\ 1 \in DOMAIN s6 /\ s6[1] \in Switch!Call
         /\ \A i \in DOMAIN s6' : i + 1 \in DOMAIN s6 /\ s6'[i] = s6[i + 1]
         /\ \A j \in DOMAIN s6 : j # 1 => j > 1
         /\ \A j \in DOMAIN s6 : j <= 1 => j = 1
<1>1. s6 \in Seq(Switch!Call)
  BY DEF SwitchTyped
<1>2. PICK n \in Nat \ {0} : /\ DOMAIN s6 = 1..n /\ DOMAIN s6' = 1..n - 1
                             /\ s6' \in Seq(Switch!Call) /\ s6[1] \in Switch!Call
                             /\ \A i \in 1..n - 1 : s6'[i] = s6[i + 1]
  BY <1>1, Popped
<1>3. Moved(1)
  <2>1. ASSUME NEW j \in 1..n, j > 1 PROVE j - 1 \in 1..n - 1 /\ (j - 1) + 1 = j
    BY <2>1
  <2> QED
    BY <1>2, <2>1 DEF Moved
<1>4. \A i \in 1..n - 1 : i + 1 \in 1..n
  OBVIOUS
<1>5. 1 \in 1..n /\ \A j \in 1..n : (j # 1 => j > 1) /\ (j <= 1 => j = 1)
  OBVIOUS
<1> QED
  BY <1>2, <1>3, <1>4, <1>5

\* A run of the watcher is over.
LEMMA RunEnds ==
  ASSUME SwitchBounds, SwitchInv, NEW r \in Runs, s6 # <<>>, s6[1].by = r,
         s6[1].st # "asked", s6' = Tail(s6), s4' = [s4 EXCEPT ![r] = Switch!NoRun],
         UNCHANGED <<s1, s5, s7, s8>>, s3' \in Switch!Maybe, s2' \in BOOLEAN,
         s6[1].what = "disconnect" => s4[r].new = None,
         s6[1].what = "connect" /\ s8.ok =>
           s6[1].st = "done" /\ s2' /\ s3' = s4[r].new
  PROVE  SwitchInv'
<1>1. SwitchTyped
  BY DEF SwitchInv
<1>2. /\ s6' \in Seq(Switch!Call) /\ Moved(1) /\ 1 \in DOMAIN s6 /\ s6[1] \in Switch!Call
      /\ \A i \in DOMAIN s6' : i + 1 \in DOMAIN s6 /\ s6'[i] = s6[i + 1]
      /\ \A j \in DOMAIN s6 : (j # 1 => j > 1) /\ (j <= 1 => j = 1)
  BY <1>1, Taken
<1>3. DOMAIN s6 \subseteq Nat /\ DOMAIN s6' \subseteq Nat
  BY <1>1, <1>2 DEF SwitchTyped
<1>4. /\ s4' \in [Runs -> RunRecords] /\ s4'[r].at = "no"
      /\ \A s \in Runs : s # r => s4'[s] = s4[s]
  <2>1. Switch!NoRun \in RunRecords /\ Switch!NoRun.at = "no"
    BY DEF Switch!NoRun, RunRecords, Switch!Maybe
  <2> QED
    BY <1>1, <2>1 DEF SwitchTyped
<1>5. r # Switch!Reload /\ \A i \in DOMAIN s6' : s6'[i].by # r
  <2>1. \A i \in DOMAIN s6' : i + 1 # 1
    BY <1>3
  <2> QED
    BY <1>2, <2>1 DEF SwitchInv, OneEach, SwitchBounds, Switch!Reload
<1>6. SwitchTyped'
  BY <1>1, <1>2, <1>4 DEF SwitchTyped
<1>7. OneEach'
  <2>1. \A i, j \in DOMAIN s6' : i + 1 = j + 1 => i = j
    BY <1>3
  <2> QED
    BY <1>2, <2>1 DEF SwitchInv, OneEach
<1>8. CallFits'
  BY <1>2, <1>4, <1>5 DEF SwitchInv, CallFits
<1>9. EachAsks'
  <2>1. ASSUME NEW i \in DOMAIN s6, s6[i].by # r
        PROVE  \E j \in DOMAIN s6' : s6'[j].by = s6[i].by
    <3>1. i - 1 \in DOMAIN s6' /\ s6'[i - 1] = s6[i]
      BY <1>2, <2>1 DEF Moved
    <3> QED
      BY <3>1
  <2>2. ASSUME NEW s \in Runs, s4'[s].at # "no" PROVE \E j \in DOMAIN s6' : s6'[j].by = s
    <3>1. s # r /\ s4[s].at # "no"
      BY <1>4, <2>2
    <3> QED
      BY <2>1, <3>1 DEF SwitchInv, EachAsks
  <2>3. s5' # None => \E j \in DOMAIN s6' : s6'[j].by = Switch!Reload
    BY <1>5, <2>1 DEF SwitchInv, EachAsks
  <2> QED
    BY <2>2, <2>3 DEF EachAsks
<1>10. NoneFailed'
  BY <1>2 DEF SwitchInv, NoneFailed
<1>11. Chosen'
  <2> SUFFICES ASSUME s8.ok, s1 # None
               PROVE  IF Switch!Loading' THEN \E p \in DOMAIN s6' : Latest(p)' ELSE Settled'
    BY DEF Chosen
  <2>1. Switch!Loading
    BY <1>2, SwitchWaits DEF Switch!Loading
  <2>2. PICK p \in DOMAIN s6 : Latest(p)
    BY <2>1 DEF SwitchInv, Chosen
  <2>3. CASE p = 1
    <3>1. s6[1].what = "connect" /\ s4[r].new = s1
      BY <1>2, <2>2, <2>3 DEF Latest, Switch!Call
    <3>2. s1 \in s7 /\ \A j \in DOMAIN s6 : j # 1 => s6[j].by = Switch!Reload /\ s6[j].conn = s1
      BY <1>2, <2>2, <2>3, <3>1 DEF Latest
    <3>3. \A i \in DOMAIN s6' : s6'[i].by = Switch!Reload /\ s6'[i].conn = s1
      <4>1. \A i \in DOMAIN s6' : i + 1 # 1
        BY <1>3
      <4> QED
        BY <1>2, <3>2, <4>1
    <3>4. ~Switch!Loading'
      <4>1. ASSUME NEW s \in Runs, s4'[s].at # "no" PROVE FALSE
        <5>1. PICK j \in DOMAIN s6' : s6'[j].by = s
          BY <1>9, <4>1 DEF EachAsks
        <5> QED
          BY <3>3, <5>1 DEF SwitchBounds, Switch!Reload
      <4> QED
        BY <4>1 DEF Switch!Loading
    <3>5. Settled'
      BY <3>1, <3>2, <3>3 DEF Settled
    <3> QED
      BY <3>4, <3>5
  <2>4. CASE p # 1
    <3>1. p > 1 /\ s6[p].by \in Runs /\ s6[p].by # r
      BY <1>2, <2>2, <2>4 DEF Latest, SwitchInv, OneEach
    <3>2. p - 1 \in DOMAIN s6' /\ Latest(p - 1)'
      <4>1. s4'[s6[p].by].new = s4[s6[p].by].new /\ s6 \in Seq(Switch!Call)
        BY <1>1, <1>4, <3>1 DEF SwitchTyped
      <4> QED
        BY <1>2, <2>2, <3>1, <4>1, LatestMoves
    <3>3. Switch!Loading'
      BY <1>4, <3>1, SwitchWaits DEF Switch!Loading
    <3> QED
      BY <3>2, <3>3
  <2> QED
    BY <2>3, <2>4
<1>12. OneChoice'
  BY <1>4 DEF SwitchInv, OneChoice
<1>13. ClosesLast'
  <2> SUFFICES ASSUME s8.apart, NEW x \in Conns, x # s1 PROVE Shuts(x)'
    BY DEF ClosesLast
  <2>1. Shuts(x) /\ s6 \in Seq(Switch!Call)
    BY <1>1 DEF SwitchInv, ClosesLast, SwitchTyped
  <2> QED
    BY <1>2, <2>1, ShutsStays
<1> QED
  BY <1>6, <1>7, <1>8, <1>9, <1>10, <1>11, <1>12, <1>13 DEF SwitchInv

LEMMA ConnectedStep ==
  ASSUME SwitchBounds, SwitchInv, NEW r \in Runs, Switch!Connected(r)
  PROVE  SwitchInv'
<1>1. /\ s6 # <<>> /\ s6[1].by = r /\ s6[1].what = "connect" /\ s6[1].st = "done"
      /\ s3' = s4[r].new /\ s2' = TRUE /\ s4' = [s4 EXCEPT ![r] = Switch!NoRun]
      /\ s6' = Tail(s6) /\ UNCHANGED <<s1, s5, s7, s8>>
  BY DEF Switch!Connected, Switch!Back, Switch!Learned
<1>2. s4[r].new \in Switch!Maybe
  BY DEF SwitchInv, SwitchTyped, RunRecords
<1> QED
  BY <1>1, <1>2, RunEnds

LEMMA ConnectFailsStep ==
  ASSUME SwitchBounds, SwitchInv, NEW r \in Runs, Switch!ConnectFails(r)
  PROVE  SwitchInv'
<1>1. /\ s6 # <<>> /\ s6[1].by = r /\ s6[1].what = "connect" /\ s6[1].st = "failed"
      /\ UNCHANGED <<s3, s5, s7, s8>> /\ SwitchTyped
  BY DEF Switch!ConnectFails, Switch!Back, SwitchInv
<1>2. ~s8.ok
  <2>1. 1 \in DOMAIN s6
    BY <1>1 DEF SwitchTyped
  <2> QED
    BY <1>1, <2>1 DEF SwitchInv, NoneFailed
<1>3. CASE ~(s4[r].old = None /\ s1 # None)
  <2>1. s4' = [s4 EXCEPT ![r] = Switch!NoRun] /\ s6' = Tail(s6) /\ UNCHANGED <<s1, s2>>
    BY <1>3 DEF Switch!ConnectFails
  <2>2. s3' \in Switch!Maybe /\ s2' \in BOOLEAN
    BY <1>1, <2>1 DEF SwitchTyped
  <2> QED
    BY <1>1, <1>2, <2>1, <2>2, RunEnds
<1>4. CASE s4[r].old = None /\ s1 # None
  <2>1. s1' = None /\ Switch!Started(r, s1, None, Tail(s6)) /\ s1 \in Conns
    BY <1>1, <1>4 DEF Switch!ConnectFails, SwitchTyped, Switch!Maybe
  <2>2. PICK q \in Seq(Switch!Call) : q = Tail(s6)
    BY <1>1, Popped DEF SwitchTyped
  <2>3. PICK d \in Switch!Call : /\ d.by = r /\ d.st = "asked" /\ s6' = Append(q, d)
                                 /\ d.what = "disconnect" /\ d.conn = s1
    <3>1. s6' = Switch!Asked(q, r, "disconnect", s1)
      BY <1>4, <2>1, <2>2 DEF Switch!Started
    <3> QED
      BY <2>1, <3>1, AskedCall
  <2>4. PICK n \in Nat \ {0} :
          /\ s6' \in Seq(Switch!Call) /\ DOMAIN s6 = 1..n /\ DOMAIN s6' = 1..n
          /\ s6'[n] = d /\ \A i \in 1..n - 1 : s6'[i] = s6[i + 1]
    <3>1. PICK n : n = Len(s6)
      OBVIOUS
    <3>2. /\ n \in Nat \ {0} /\ DOMAIN s6 = 1..n /\ Len(q) = n - 1
          /\ \A i \in 1..n - 1 : q[i] = s6[i + 1]
      BY <1>1, <2>2, <3>1, Popped DEF SwitchTyped
    <3>3. /\ s6' \in Seq(Switch!Call) /\ DOMAIN s6' = 1..Len(q) + 1
          /\ s6'[Len(q) + 1] = d /\ \A i \in 1..Len(q) : s6'[i] = q[i]
      BY <2>3, Pushed
    <3>4. Len(q) + 1 = n
      BY <3>2
    <3> QED
      BY <3>2, <3>3, <3>4
  <2>5. /\ s4' \in [Runs -> RunRecords] /\ s4'[r].at = "disconnect" /\ s4'[r].new = None
        /\ \A s \in Runs : s # r => s4'[s] = s4[s]
    <3>1. PICK new : new = [at |-> "disconnect", old |-> s1, new |-> None]
      OBVIOUS
    <3>2. s4' = [s4 EXCEPT ![r] = new]
      BY <1>4, <2>1, <3>1 DEF Switch!Started
    <3>3. new \in RunRecords /\ new.at = "disconnect" /\ new.new = None
      BY <2>1, <3>1 DEF RunRecords, Switch!Maybe
    <3> QED
      BY <1>1, <3>2, <3>3 DEF SwitchTyped
  <2>6. SwitchTyped'
    BY <1>1, <2>1, <2>4, <2>5 DEF SwitchTyped, Switch!Started, Switch!Maybe
  <2>7. ASSUME NEW i \in 1..n - 1
        PROVE  i + 1 \in DOMAIN s6 /\ s6'[i] = s6[i + 1] /\ s6'[i].by # r
    <3>1. PICK j \in 1..n : j = i + 1 /\ j # 1
      OBVIOUS
    <3>2. 1 \in 1..n
      OBVIOUS
    <3>3. j \in DOMAIN s6 /\ 1 \in DOMAIN s6 /\ s6'[i] = s6[j] /\ s6[1].by = r
      BY <1>1, <2>4, <3>1, <3>2
    <3>4. s6[j].by # r
      BY <3>1, <3>3 DEF SwitchInv, OneEach
    <3> QED
      BY <3>1, <3>3, <3>4
  <2>8. OneEach'
    <3>1. \A i \in 1..n : i \in 1..n - 1 \/ i = n
      OBVIOUS
    <3>2. ASSUME NEW i \in 1..n - 1, NEW j \in 1..n - 1, s6'[i].by = s6'[j].by PROVE i = j
      <4>1. i + 1 = j + 1
        BY <2>7, <3>2 DEF SwitchInv, OneEach
      <4> QED
        BY <4>1
    <3>3. s6'[n].by = r /\ \A i \in 1..n - 1 : s6'[i].by # r
      BY <2>3, <2>4, <2>7
    <3> QED
      BY <2>4, <3>1, <3>2, <3>3 DEF OneEach
  <2>9. CallFits'
    <3>1. \A i \in 1..n : i \in 1..n - 1 \/ i = n
      OBVIOUS
    <3>2. r # Switch!Reload
      BY DEF SwitchBounds, Switch!Reload
    <3>3. ASSUME NEW i \in 1..n - 1
          PROVE  /\ s6'[i].by \in Runs => /\ s4'[s6'[i].by].at = s6'[i].what
                                          /\ s6'[i].what = "connect" =>
                                               s6'[i].conn = s4'[s6'[i].by].new
                 /\ s6'[i].by = Switch!Reload => s6'[i].what = "connect" /\ s6'[i].conn = s5
      BY <2>5, <2>7 DEF SwitchInv, CallFits
    <3> QED
      BY <1>1, <2>3, <2>4, <2>5, <3>1, <3>2, <3>3 DEF CallFits
  <2>10. Moved(1)
    <3>1. \A j \in 1..n : j > 1 => j - 1 \in 1..n - 1 /\ j - 1 \in 1..n /\ (j - 1) + 1 = j
      OBVIOUS
    <3> QED
      BY <2>4, <3>1 DEF Moved
  <2>11. EachAsks'
    <3>1. n \in DOMAIN s6' /\ s6'[n].by = r
      BY <2>3, <2>4
    <3>2. ASSUME NEW i \in DOMAIN s6, s6[i].by # r
          PROVE  \E j \in DOMAIN s6' : s6'[j].by = s6[i].by
      <4>1. i > 1
        BY <1>1, <2>4, <3>2
      <4>2. i - 1 \in DOMAIN s6' /\ s6'[i - 1] = s6[i]
        BY <2>10, <4>1 DEF Moved
      <4> QED
        BY <4>2
    <3>3. r # Switch!Reload
      BY DEF SwitchBounds, Switch!Reload
    <3>4. \A s \in Runs : s # r /\ s4[s].at # "no" => \E j \in DOMAIN s6' : s6'[j].by = s
      BY <3>2 DEF SwitchInv, EachAsks
    <3>5. s5 # None => \E j \in DOMAIN s6' : s6'[j].by = Switch!Reload
      BY <3>2, <3>3 DEF SwitchInv, EachAsks
    <3> QED
      BY <1>1, <2>5, <3>1, <3>4, <3>5 DEF EachAsks
  <2>12. NoneFailed' /\ Chosen'
    BY <1>1, <1>2 DEF NoneFailed, Chosen
  <2>13. OneChoice'
    <3>1. s4[r].at # "no"
      <4>1. 1 \in DOMAIN s6
        BY <2>4
      <4> QED
        BY <1>1, <4>1, SwitchWaits
    <3> QED
      BY <1>1, <2>1, <2>5, <3>1 DEF SwitchInv, OneChoice
  <2>14. ClosesLast'
    <3> SUFFICES ASSUME s8.apart, NEW x \in Conns PROVE Shuts(x)'
      BY <1>1 DEF ClosesLast
    <3>1. \A i \in DOMAIN s6' : Opens(i, x)' => i \in 1..n - 1
      BY <2>3, <2>4 DEF Opens
    <3>2. CASE x = s1
      <4>1. n \in DOMAIN s6' /\ Closes(n, x)' /\ \A i \in 1..n - 1 : n > i
        BY <2>3, <2>4, <3>2 DEF Closes
      <4> QED
        BY <3>1, <4>1 DEF Shuts
    <3>3. CASE x # s1
      <4>1. Shuts(x) /\ s6 \in Seq(Switch!Call)
        BY <1>1, <3>3 DEF SwitchInv, ClosesLast, SwitchTyped
      <4>2. \A j \in DOMAIN s6 : j <= 1 => s6[j].st # "asked"
        BY <1>1, <2>4
      <4>3. \A i \in DOMAIN s6' : i + 1 \in DOMAIN s6 \/ ~Opens(i, x)'
        BY <2>4, <3>1
      <4>4. s6' \in Seq(Switch!Call) /\ s7' \subseteq s7
        BY <1>1, <2>4
      <4> QED
        BY <2>10, <4>1, <4>2, <4>3, <4>4, ShutsStays
    <3> QED
      BY <3>2, <3>3
  <2> QED
    BY <2>6, <2>8, <2>9, <2>11, <2>12, <2>13, <2>14 DEF SwitchInv
<1> QED
  BY <1>3, <1>4

LEMMA DisconnectedStep ==
  ASSUME SwitchBounds, SwitchInv, NEW r \in Runs, Switch!Disconnected(r)
  PROVE  SwitchInv'
<1>1. /\ s6 # <<>> /\ s6[1].by = r /\ s6[1].what = "disconnect" /\ s6[1].st = "done"
      /\ UNCHANGED <<s1, s2, s3, s5, s7, s8>> /\ SwitchTyped
  BY DEF Switch!Disconnected, Switch!Back, SwitchInv
<1>2. CASE s4[r].new = None
  <2>1. s4' = [s4 EXCEPT ![r] = Switch!NoRun] /\ s6' = Tail(s6)
    BY <1>2 DEF Switch!Disconnected
  <2>2. s3' \in Switch!Maybe /\ s2' \in BOOLEAN
    BY <1>1 DEF SwitchTyped
  <2> QED
    BY <1>1, <1>2, <2>1, <2>2, RunEnds
<1>3. CASE s4[r].new # None
  <2>1. PICK new : new = s4[r].new /\ new \in Conns
    BY <1>1, <1>3 DEF SwitchTyped, RunRecords, Switch!Maybe
  <2>2. PICK q \in Seq(Switch!Call) : q = Tail(s6)
    BY <1>1, Popped DEF SwitchTyped
  <2>3. PICK d \in Switch!Call : /\ d.by = r /\ d.st = "asked" /\ s6' = Append(q, d)
                                 /\ d.what = "connect" /\ d.conn = new
    <3>1. s6' = Switch!Asked(q, r, "connect", new)
      BY <1>3, <2>1, <2>2 DEF Switch!Disconnected
    <3> QED
      BY <2>1, <3>1, AskedCall
  <2>4. PICK n \in Nat \ {0} :
          /\ s6' \in Seq(Switch!Call) /\ DOMAIN s6 = 1..n /\ DOMAIN s6' = 1..n
          /\ s6'[n] = d /\ \A i \in 1..n - 1 : s6'[i] = s6[i + 1]
    <3>1. PICK n : n = Len(s6)
      OBVIOUS
    <3>2. /\ n \in Nat \ {0} /\ DOMAIN s6 = 1..n /\ Len(q) = n - 1
          /\ \A i \in 1..n - 1 : q[i] = s6[i + 1]
      BY <1>1, <2>2, <3>1, Popped DEF SwitchTyped
    <3>3. /\ s6' \in Seq(Switch!Call) /\ DOMAIN s6' = 1..Len(q) + 1
          /\ s6'[Len(q) + 1] = d /\ \A i \in 1..Len(q) : s6'[i] = q[i]
      BY <2>3, Pushed
    <3>4. Len(q) + 1 = n
      BY <3>2
    <3> QED
      BY <3>2, <3>3, <3>4
  <2>5. /\ s4' \in [Runs -> RunRecords] /\ s4'[r].at = "connect" /\ s4'[r].new = new
        /\ \A s \in Runs : s # r => s4'[s] = s4[s]
    <3>1. s4' = [s4 EXCEPT ![r].at = "connect"]
      BY <1>3 DEF Switch!Disconnected
    <3> QED
      BY <1>1, <2>1, <3>1 DEF SwitchTyped, RunRecords
  <2>6. SwitchTyped'
    BY <1>1, <2>4, <2>5 DEF SwitchTyped
  <2>7. ASSUME NEW i \in 1..n - 1
        PROVE  i + 1 \in DOMAIN s6 /\ s6'[i] = s6[i + 1] /\ s6'[i].by # r
    <3>1. i + 1 \in 1..n /\ i + 1 # 1 /\ 1 \in 1..n
      OBVIOUS
    <3> QED
      BY <1>1, <2>4, <3>1 DEF SwitchInv, OneEach
  <2>8. \A i \in 1..n : i \in 1..n - 1 \/ i = n
    OBVIOUS
  <2>9. OneEach'
    <3>1. \A i, j \in 1..n - 1 : i + 1 = j + 1 => i = j
      OBVIOUS
    <3>2. ASSUME NEW i \in 1..n - 1, NEW j \in 1..n - 1, s6'[i].by = s6'[j].by PROVE i = j
      BY <2>7, <3>1, <3>2 DEF SwitchInv, OneEach
    <3>3. \A i \in 1..n - 1 : s6'[i].by # s6'[n].by
      BY <2>3, <2>4, <2>7
    <3> QED
      BY <2>4, <2>8, <3>2, <3>3 DEF OneEach
  <2>10. CallFits'
    <3>1. r # Switch!Reload
      BY DEF SwitchBounds, Switch!Reload
    <3>2. ASSUME NEW i \in 1..n - 1
          PROVE  /\ s6'[i].by \in Runs => /\ s4'[s6'[i].by].at = s6'[i].what
                                          /\ s6'[i].what = "connect" =>
                                               s6'[i].conn = s4'[s6'[i].by].new
                 /\ s6'[i].by = Switch!Reload => s6'[i].what = "connect" /\ s6'[i].conn = s5
      BY <2>5, <2>7 DEF SwitchInv, CallFits
    <3> QED
      BY <1>1, <2>3, <2>4, <2>5, <2>8, <3>1, <3>2 DEF CallFits
  <2>11. Moved(1)
    <3>1. \A j \in 1..n : j > 1 => j - 1 \in 1..n - 1 /\ j - 1 \in 1..n /\ (j - 1) + 1 = j
      OBVIOUS
    <3> QED
      BY <2>4, <3>1 DEF Moved
  <2>12. EachAsks'
    <3>1. n \in DOMAIN s6' /\ s6'[n].by = r
      BY <2>3, <2>4
    <3>2. ASSUME NEW i \in DOMAIN s6, s6[i].by # r
          PROVE  \E j \in DOMAIN s6' : s6'[j].by = s6[i].by
      <4>1. i > 1
        BY <1>1, <2>4, <3>2
      <4>2. i - 1 \in DOMAIN s6' /\ s6'[i - 1] = s6[i]
        BY <2>11, <4>1 DEF Moved
      <4> QED
        BY <4>2
    <3>3. r # Switch!Reload
      BY DEF SwitchBounds, Switch!Reload
    <3>4. \A s \in Runs : s # r /\ s4[s].at # "no" => \E j \in DOMAIN s6' : s6'[j].by = s
      BY <3>2 DEF SwitchInv, EachAsks
    <3>5. s5 # None => \E j \in DOMAIN s6' : s6'[j].by = Switch!Reload
      BY <3>2, <3>3 DEF SwitchInv, EachAsks
    <3> QED
      BY <1>1, <2>5, <3>1, <3>4, <3>5 DEF EachAsks
  <2>13. NoneFailed'
    BY <1>1, <2>3, <2>4, <2>7, <2>8, ZenonT(30) DEF SwitchInv, NoneFailed
  <2>14. Chosen'
    <3> SUFFICES ASSUME s8.ok, s1 # None
                 PROVE  Switch!Loading' /\ \E p \in DOMAIN s6' : Latest(p)'
      BY <1>1 DEF Chosen
    <3>1. Switch!Loading' /\ Switch!Loading
      <4>1. 1 \in DOMAIN s6
        BY <2>4
      <4> QED
        BY <1>1, <2>5, <4>1, SwitchWaits DEF Switch!Loading
    <3>2. PICK p \in DOMAIN s6 : Latest(p)
      BY <3>1 DEF SwitchInv, Chosen
    <3>3. r # Switch!Reload
      BY DEF SwitchBounds, Switch!Reload
    <3>4. CASE p = 1
      <4>1. new = s1
        BY <1>1, <2>1, <3>2, <3>4 DEF Latest
      <4>2. \A j \in DOMAIN s6' : s6'[j].what = "connect"
        <5>1. ASSUME NEW j \in 1..n - 1 PROVE s6'[j].what = "connect"
          <6>1. j + 1 > 1 /\ j + 1 \in DOMAIN s6 /\ s6'[j] = s6[j + 1]
            BY <2>7
          <6> QED
            BY <3>2, <3>4, <6>1 DEF Latest
        <5> QED
          BY <2>3, <2>4, <2>8, <5>1
      <4>3. n \in DOMAIN s6' /\ \A j \in DOMAIN s6' : ~(j > n)
        BY <2>4
      <4>4. Latest(n)'
        BY <1>1, <2>3, <2>4, <2>5, <4>1, <4>2, <4>3 DEF Latest
      <4> QED
        BY <3>1, <4>3, <4>4
    <3>5. CASE p # 1
      <4>1. p > 1 /\ 1 \in DOMAIN s6 /\ s6[p].what # "connect"
        BY <1>1, <2>4, <3>2, <3>5 DEF Latest
      <4>2. s6[p].by \in Runs /\ s6[p].by # r
        BY <1>1, <3>2, <3>5, <4>1 DEF Latest, SwitchInv, OneEach
      <4>3. s4'[s6[p].by].new = s4[s6[p].by].new /\ s6 \in Seq(Switch!Call)
        BY <1>1, <2>5, <4>2 DEF SwitchTyped
      <4>4. n + 1 > p
        BY <2>4
      <4>5. ASSUME NEW i \in DOMAIN s6'
            PROVE  i + 1 \in DOMAIN s6 \/ /\ i + 1 > p /\ s6'[i].what = "connect"
                                          /\ s6'[i].by = Switch!Reload => s6'[i].conn = s1
                                          /\ s6[p].what = "connect" => s6'[i].by = Switch!Reload
        BY <2>3, <2>4, <2>7, <2>8, <3>3, <4>1, <4>4
      <4>6. p - 1 \in DOMAIN s6' /\ Latest(p - 1)'
        BY <1>1, <2>4, <2>11, <3>2, <4>1, <4>3, <4>5, LatestMoves
      <4> QED
        BY <3>1, <4>6
    <3> QED
      BY <3>4, <3>5
  <2>15. OneChoice'
    <3>1. s4[r].at # "no"
      <4>1. 1 \in DOMAIN s6
        BY <2>4
      <4> QED
        BY <1>1, <4>1, SwitchWaits
    <3> QED
      BY <1>1, <2>1, <2>5, <3>1 DEF SwitchInv, OneChoice
  <2>16. ClosesLast'
    <3> SUFFICES ASSUME s8.apart, NEW x \in Conns, x # s1 PROVE Shuts(x)'
      BY <1>1 DEF ClosesLast
    <3>1. new = s1
      <4>1. 1 \in DOMAIN s6
        BY <2>4
      <4> QED
        BY <1>1, <2>1, <4>1, SwitchWaits DEF SwitchInv, OneChoice
    <3>2. Shuts(x) /\ s6 \in Seq(Switch!Call)
      BY <1>1 DEF SwitchInv, ClosesLast, SwitchTyped
    <3>3. \A j \in DOMAIN s6 : j <= 1 => s6[j].st # "asked"
      BY <1>1, <2>4
    <3>4. \A i \in DOMAIN s6' : i + 1 \in DOMAIN s6 \/ ~Opens(i, x)'
      BY <2>3, <2>4, <2>7, <2>8, <3>1 DEF Opens
    <3>5. s6' \in Seq(Switch!Call) /\ s7' \subseteq s7
      BY <1>1, <2>4
    <3> QED
      BY <2>11, <3>2, <3>3, <3>4, <3>5, ShutsStays
  <2> QED
    BY <2>6, <2>9, <2>10, <2>12, <2>13, <2>14, <2>15, <2>16 DEF SwitchInv
<1> QED
  BY <1>2, <1>3

-----------------------------------------------------------------------------
LEMMA ReloadConnStep == ASSUME SwitchBounds, SwitchInv, Switch!ReloadConn PROVE SwitchInv'
<1>1. /\ s1 # None /\ s5 = None /\ s5' = s1 /\ SwitchTyped /\ s1 \in Conns
      /\ s6' = Switch!Asked(s6, Switch!Reload, "connect", s1)
      /\ UNCHANGED <<s1, s2, s3, s4, s7, s8>>
  BY DEF Switch!ReloadConn, SwitchInv, SwitchTyped, Switch!Maybe
<1>2. PICK d \in Switch!Call : /\ d.by = Switch!Reload /\ d.st = "asked" /\ d.what = "connect" /\ d.conn = s1
                               /\ s6' = Append(s6, d)
  <2>1. PICK r \in Runs \cup {Switch!Reload} : r = Switch!Reload
    OBVIOUS
  <2>2. /\ s6' = Switch!Asked(s6, r, "connect", s1) /\ s6 \in Seq(Switch!Call)
        /\ s1 \in Conns /\ "connect" \in {"connect", "disconnect"}
    BY <1>1, <2>1 DEF SwitchTyped
  <2>3. PICK c \in Conns, q \in Seq(Switch!Call) : c = s1 /\ q = s6
    BY <2>2
  <2>4. PICK e \in Switch!Call : /\ e.by = r /\ e.what = "connect" /\ e.conn = c /\ e.st = "asked"
                                 /\ Switch!Asked(q, r, "connect", c) = Append(q, e)
    BY AskedCall
  <2> QED
    BY <2>1, <2>2, <2>3, <2>4
<1>3. PICK n \in Nat \ {0} : /\ s6' \in Seq(Switch!Call) /\ DOMAIN s6 = 1..n - 1
                             /\ DOMAIN s6' = 1..n /\ s6'[n] = d
                             /\ \A i \in 1..n - 1 : s6'[i] = s6[i]
  <2>1. PICK n : n = Len(s6) + 1
    OBVIOUS
  <2>2. n \in Nat \ {0} /\ n - 1 = Len(s6)
    BY <1>1, <2>1 DEF SwitchTyped
  <2> QED
    BY <1>1, <1>2, <2>1, <2>2, Pushed DEF SwitchTyped
<1>4. \A i \in 1..n : i \in 1..n - 1 \/ i = n
  OBVIOUS
<1>5. \A i \in 1..n - 1 : s6[i].by # Switch!Reload
  BY <1>1, <1>3, SwitchWaits DEF SwitchInv, CallFits, Switch!Call, SwitchBounds
<1>6. Switch!Reload \notin Runs
  BY DEF SwitchBounds, Switch!Reload
<1>7. SwitchTyped'
  BY <1>1, <1>3 DEF SwitchTyped
<1>8. OneEach'
  <2>1. \A i, j \in 1..n - 1 : s6'[i].by = s6'[j].by => i = j
    BY <1>3 DEF SwitchInv, OneEach
  <2>2. \A i \in 1..n - 1 : s6'[i].by # s6'[n].by
    BY <1>2, <1>3, <1>5
  <2> QED
    BY <1>3, <1>4, <2>1, <2>2 DEF OneEach
<1>9. CallFits'
  <2>1. ASSUME NEW i \in 1..n - 1
        PROVE  s6'[i].by \in Runs =>
                 /\ s4'[s6'[i].by].at = s6'[i].what
                 /\ s6'[i].what = "connect" => s6'[i].conn = s4'[s6'[i].by].new
    BY <1>1, <1>3 DEF SwitchInv, CallFits
  <2> QED
    BY <1>1, <1>2, <1>3, <1>4, <1>5, <1>6, <2>1 DEF CallFits
<1>10. EachAsks' /\ NoneFailed'
  <2>1. n \in DOMAIN s6' /\ \A i \in DOMAIN s6 : i \in DOMAIN s6' /\ s6'[i] = s6[i]
    BY <1>3
  <2>2. EachAsks'
    BY <1>1, <1>2, <1>3, <2>1 DEF SwitchInv, EachAsks
  <2>3. NoneFailed'
    BY <1>1, <1>2, <1>3, <1>4 DEF SwitchInv, NoneFailed
  <2> QED
    BY <2>2, <2>3
<1>11. Moved(0) /\ s6 \in Seq(Switch!Call) /\ \A i \in DOMAIN s6' : i + 0 \in DOMAIN s6 \/ i = n
  BY <1>1, <1>3 DEF Moved, SwitchTyped
<1>12. Chosen'
  <2> SUFFICES ASSUME s8.ok
               PROVE  IF Switch!Loading' THEN \E p \in DOMAIN s6' : Latest(p)' ELSE Settled'
    BY <1>1 DEF Chosen
  <2>1. Switch!Loading' = Switch!Loading
    BY <1>1 DEF Switch!Loading
  <2>2. CASE Switch!Loading
    <3>1. PICK p \in DOMAIN s6 : Latest(p)
      BY <1>1, <2>2 DEF SwitchInv, Chosen
    <3>2. p > 0 /\ n + 0 > p
      BY <1>3
    <3>3. s4'[s6[p].by].new = s4[s6[p].by].new
      BY <1>1
    <3>4. p - 0 \in DOMAIN s6' /\ Latest(p - 0)'
      BY <1>1, <1>2, <1>3, <1>11, <3>1, <3>2, <3>3, LatestMoves
    <3> QED
      BY <2>1, <2>2, <3>4
  <2>3. CASE ~Switch!Loading
    BY <1>1, <1>2, <1>3, <1>4, <2>1, <2>3 DEF SwitchInv, Chosen, Settled
  <2> QED
    BY <2>2, <2>3
<1>13. OneChoice'
  BY <1>1 DEF SwitchInv, OneChoice
<1>14. ClosesLast'
  <2> SUFFICES ASSUME s8.apart, NEW x \in Conns, x # s1 PROVE Shuts(x)'
    BY <1>1 DEF ClosesLast
  <2>1. Shuts(x) /\ ~Opens(n, x)'
    BY <1>2, <1>3 DEF SwitchInv, ClosesLast, Opens
  <2>2. \A j \in DOMAIN s6 : ~(j <= 0)
    BY <1>3
  <2> QED
    BY <1>1, <1>3, <1>11, <2>1, <2>2, ShutsStays
<1> QED
  BY <1>7, <1>8, <1>9, <1>10, <1>12, <1>13, <1>14 DEF SwitchInv

\* The reload is over.
LEMMA ReloadEnds ==
  ASSUME SwitchBounds, SwitchInv, s6 # <<>>, s6[1].by = Switch!Reload, s6[1].st # "asked",
         s6' = Tail(s6), s5' = None, UNCHANGED <<s1, s4, s7, s8>>,
         s3' \in Switch!Maybe, s2' \in BOOLEAN, s8.ok => s3' = s5 /\ s2'
  PROVE  SwitchInv'
<1>1. SwitchTyped /\ s6 \in Seq(Switch!Call) /\ Switch!Reload \notin Runs
  BY DEF SwitchInv, SwitchTyped, SwitchBounds, Switch!Reload
<1>2. /\ s6' \in Seq(Switch!Call) /\ Moved(1) /\ 1 \in DOMAIN s6 /\ s6[1] \in Switch!Call
      /\ \A i \in DOMAIN s6' : i + 1 \in DOMAIN s6 /\ s6'[i] = s6[i + 1]
      /\ \A j \in DOMAIN s6 : (j # 1 => j > 1) /\ (j <= 1 => j = 1)
  BY <1>1, Taken
<1>3. DOMAIN s6 \subseteq Nat /\ DOMAIN s6' \subseteq Nat
  BY <1>1, <1>2
<1>4. \A i \in DOMAIN s6' : s6'[i].by # Switch!Reload
  <2>1. \A i \in DOMAIN s6' : i + 1 # 1
    BY <1>3
  <2> QED
    BY <1>2, <2>1 DEF SwitchInv, OneEach
<1>5. SwitchTyped'
  BY <1>1, <1>2 DEF SwitchTyped, Switch!Maybe
<1>6. OneEach'
  <2>1. \A i, j \in DOMAIN s6' : i + 1 = j + 1 => i = j
    BY <1>3
  <2> QED
    BY <1>2, <2>1 DEF SwitchInv, OneEach
<1>7. CallFits'
  BY <1>2, <1>4 DEF SwitchInv, CallFits
<1>8. EachAsks'
  <2>1. ASSUME NEW i \in DOMAIN s6, s6[i].by # Switch!Reload
        PROVE  \E j \in DOMAIN s6' : s6'[j].by = s6[i].by
    <3>1. i - 1 \in DOMAIN s6' /\ s6'[i - 1] = s6[i]
      BY <1>2, <2>1 DEF Moved
    <3> QED
      BY <3>1
  <2> QED
    BY <1>1, <2>1 DEF SwitchInv, EachAsks
<1>9. NoneFailed'
  BY <1>2 DEF SwitchInv, NoneFailed
<1>10. Chosen'
  <2> SUFFICES ASSUME s8.ok, s1 # None
               PROVE  IF Switch!Loading' THEN \E p \in DOMAIN s6' : Latest(p)' ELSE Settled'
    BY DEF Chosen
  <2>1. Switch!Loading' = Switch!Loading
    BY DEF Switch!Loading
  <2>2. CASE Switch!Loading
    <3>1. PICK p \in DOMAIN s6 : Latest(p)
      BY <2>2 DEF SwitchInv, Chosen
    <3>2. p > 1 /\ s4'[s6[p].by].new = s4[s6[p].by].new
      BY <1>1, <1>2, <3>1 DEF Latest
    <3>3. p - 1 \in DOMAIN s6' /\ Latest(p - 1)'
      BY <1>1, <1>2, <3>1, <3>2, LatestMoves
    <3> QED
      BY <2>1, <2>2, <3>3
  <2>3. CASE ~Switch!Loading
    <3>1. Settled /\ s6[1].conn = s5
      BY <1>2, <2>3 DEF SwitchInv, Chosen, CallFits
    <3> QED
      BY <1>2, <2>1, <2>3, <3>1 DEF Settled
  <2> QED
    BY <2>2, <2>3
<1>11. OneChoice'
  BY DEF SwitchInv, OneChoice
<1>12. ClosesLast'
  <2> SUFFICES ASSUME s8.apart, NEW x \in Conns, x # s1 PROVE Shuts(x)'
    BY DEF ClosesLast
  <2>1. Shuts(x)
    BY DEF SwitchInv, ClosesLast
  <2> QED
    BY <1>1, <1>2, <2>1, ShutsStays
<1> QED
  BY <1>5, <1>6, <1>7, <1>8, <1>9, <1>10, <1>11, <1>12 DEF SwitchInv

LEMMA ReloadBackStep ==
  ASSUME SwitchBounds, SwitchInv, Switch!Reloaded \/ Switch!ReloadFails
  PROVE  SwitchInv'
<1>1. CASE Switch!Reloaded
  <2>1. /\ s6 # <<>> /\ s6[1].by = Switch!Reload /\ s6[1].st = "done" /\ s6' = Tail(s6)
        /\ s3' = s5 /\ s2' = TRUE /\ s5' = None /\ UNCHANGED <<s1, s4, s7, s8>>
    BY <1>1 DEF Switch!Reloaded, Switch!Back
  <2>2. s3' \in Switch!Maybe
    BY <2>1 DEF SwitchInv, SwitchTyped
  <2> QED
    BY <2>1, <2>2, ReloadEnds
<1>2. CASE Switch!ReloadFails
  <2>1. /\ s6 # <<>> /\ s6[1].by = Switch!Reload /\ s6[1].st = "failed" /\ s6' = Tail(s6)
        /\ s5' = None /\ UNCHANGED <<s1, s2, s3, s4, s7, s8>>
    BY <1>2 DEF Switch!ReloadFails, Switch!Back
  <2>2. s3' \in Switch!Maybe /\ s2' \in BOOLEAN /\ 1 \in DOMAIN s6
    BY <2>1 DEF SwitchInv, SwitchTyped
  <2>3. ~s8.ok
    BY <2>1, <2>2 DEF SwitchInv, NoneFailed
  <2> QED
    BY <2>1, <2>2, <2>3, ReloadEnds
<1> QED
  BY <1>1, <1>2

LEMMA RunCallStep ==
  ASSUME SwitchBounds, SwitchInv, NEW i \in DOMAIN s6, Switch!RunCall(i)
  PROVE  SwitchInv'
<1>1. /\ s6[i].st = "asked" /\ SwitchTyped /\ s6 \in Seq(Switch!Call) /\ s6[i] \in Switch!Call
      /\ \A j \in 1..i - 1 : s6[j].st # "asked"
      /\ UNCHANGED <<s1, s2, s3, s4, s5>>
  BY DEF Switch!RunCall, SwitchInv, SwitchTyped
<1>2. PICK st \in {"done", "failed"} :
        /\ s6' = [s6 EXCEPT ![i].st = st]
        /\ \/ /\ s6[i].what = "disconnect" /\ st = "done" /\ s7' = s7 \ {s6[i].conn}
              /\ s8' = s8
           \/ /\ s6[i].what = "connect" /\ st = "done" /\ s7' = s7 \cup {s6[i].conn}
              /\ s8' = s8
           \/ /\ s6[i].what = "connect" /\ st = "failed" /\ s7' = s7
              /\ s8' = [s8 EXCEPT !.ok = FALSE]
  BY DEF Switch!RunCall, Switch!Without
<1>3. /\ s6' \in Seq(Switch!Call) /\ DOMAIN s6' = DOMAIN s6 /\ s6'[i].st = st
      /\ \A j \in DOMAIN s6 : /\ j # i => s6'[j] = s6[j]
                             /\ s6'[j].by = s6[j].by /\ s6'[j].what = s6[j].what
                             /\ s6'[j].conn = s6[j].conn
  <2>1. PICK c : c = [s6[i] EXCEPT !.st = st]
    OBVIOUS
  <2>2. /\ c \in Switch!Call /\ c.st = st /\ c.by = s6[i].by /\ c.what = s6[i].what
        /\ c.conn = s6[i].conn
    BY <1>1, <2>1 DEF Switch!Call
  <2>3. s6' = [s6 EXCEPT ![i] = c]
    BY <1>2, <2>1
  <2> QED
    BY <1>1, <2>2, <2>3
<1>4. /\ s8' \in [apart : BOOLEAN, ok : BOOLEAN] /\ s8'.apart = s8.apart
      /\ s8'.ok => s8.ok /\ st = "done"
  BY <1>1, <1>2 DEF SwitchTyped
<1>5. SwitchTyped' /\ OneEach' /\ CallFits' /\ EachAsks' /\ NoneFailed' /\ OneChoice'
  <2>1. s7' \subseteq Conns
    BY <1>1, <1>2 DEF SwitchTyped, Switch!Call
  <2>2. SwitchTyped'
    BY <1>1, <1>3, <1>4, <2>1 DEF SwitchTyped
  <2>3. OneEach' /\ EachAsks'
    BY <1>1, <1>3 DEF SwitchInv, OneEach, EachAsks
  <2>4. CallFits'
    BY <1>1, <1>3 DEF SwitchInv, CallFits
  <2>5. NoneFailed' /\ OneChoice'
    BY <1>1, <1>3, <1>4 DEF SwitchInv, NoneFailed, OneChoice
  <2> QED
    BY <2>2, <2>3, <2>4, <2>5
<1>6. Chosen'
  <2> SUFFICES ASSUME s8.ok, st = "done", s1 # None
               PROVE  IF Switch!Loading' THEN \E p \in DOMAIN s6' : Latest(p)' ELSE Settled'
    BY <1>1, <1>4 DEF Chosen
  <2>1. Switch!Loading' = Switch!Loading
    BY <1>1 DEF Switch!Loading
  <2>2. \/ s6[i].what = "disconnect" /\ s7' = s7 \ {s6[i].conn}
        \/ s6[i].what = "connect" /\ s7' = s7 \cup {s6[i].conn}
    BY <1>2
  <2>3. CASE Switch!Loading
    <3>1. PICK p \in DOMAIN s6 : Latest(p)
      BY <2>3 DEF SwitchInv, Chosen
    <3>2. s6[p].by \in Runs /\ s4[s6[p].by].new = s1
      BY <3>1 DEF Latest
    <3>3. ASSUME s6'[p].what = "connect"
          PROVE  /\ \A j \in DOMAIN s6 : s6[j].what = "connect" /\ (j > p => s6[j].by = Switch!Reload)
                 /\ s6'[p].st = "done" => s1 \in s7'
      <4>1. /\ \A j \in DOMAIN s6 : s6[j].what = "connect" /\ (j > p => s6[j].by = Switch!Reload)
            /\ s6[p].st = "done" => s1 \in s7
        BY <1>3, <3>1, <3>3 DEF Latest
      <4>2. s7' = s7 \cup {s6[i].conn}
        BY <2>2, <4>1
      <4>3. p = i => s6[i].conn = s1
        BY <1>3, <3>2, <3>3 DEF SwitchInv, CallFits
      <4> QED
        BY <1>3, <4>1, <4>2, <4>3
    <3>4. \A j \in DOMAIN s6 : j > p =>
            s6[j].what = "connect" /\ (s6[j].by = Switch!Reload => s6[j].conn = s1)
      BY <3>1 DEF Latest
    <3>5. Latest(p)'
      BY <1>1, <1>3, <3>2, <3>3, <3>4 DEF Latest
    <3> QED
      BY <1>3, <2>1, <2>3, <3>5
  <2>4. CASE ~Switch!Loading
    <3>1. Settled /\ s6[i].what = "connect"
      BY <2>4, SwitchWaits DEF SwitchInv, Chosen
    <3> QED
      BY <1>1, <1>3, <2>1, <2>2, <2>4, <3>1 DEF Settled
  <2> QED
    BY <2>3, <2>4
<1>7. ClosesLast'
  <2> SUFFICES ASSUME s8.apart, NEW x \in Conns, x # s1 PROVE Shuts(x)'
    BY <1>1, <1>4 DEF ClosesLast
  <2>1. Shuts(x) /\ DOMAIN s6 \subseteq Nat /\ i \in Nat
    BY <1>1 DEF SwitchInv, ClosesLast
  <2>2. \A j \in DOMAIN s6 : Closes(j, x) /\ j # i => Closes(j, x)'
    BY <1>3 DEF Closes
  <2>3. \A j \in DOMAIN s6 : Opens(j, x)' => j # i /\ j > i /\ Opens(j, x)
    <3>1. \A j \in DOMAIN s6 : Opens(j, x)' => j # i /\ Opens(j, x)
      BY <1>3 DEF Opens
    <3>2. \A j \in DOMAIN s6 : j < i => j \in 1..i - 1
      BY <1>1
    <3>3. \A j \in DOMAIN s6 : Opens(j, x) => ~(j < i)
      BY <1>1, <3>2 DEF Opens
    <3> QED
      BY <2>1, <3>1, <3>3
  <2>4. \A j \in DOMAIN s6' : Opens(j, x)' => \E k \in DOMAIN s6' : k > j /\ Closes(k, x)'
    <3> SUFFICES ASSUME NEW j \in DOMAIN s6, Opens(j, x)'
                 PROVE  \E k \in DOMAIN s6 : k > j /\ Closes(k, x)'
      BY <1>3
    <3>1. j > i /\ Opens(j, x)
      BY <2>3
    <3>2. PICK k \in DOMAIN s6 : k > j /\ Closes(k, x)
      BY <2>1, <3>1 DEF Shuts
    <3>3. k # i
      BY <2>1, <3>1, <3>2
    <3> QED
      BY <2>2, <3>2, <3>3
  <2>5. ASSUME x \in s7' PROVE \E j \in DOMAIN s6' : Closes(j, x)'
    <3>1. CASE x \in s7
      <4>1. PICK j \in DOMAIN s6 : Closes(j, x)
        BY <2>1, <3>1 DEF Shuts
      <4>2. j # i
        BY <1>2, <2>5, <4>1 DEF Closes
      <4> QED
        BY <1>3, <2>2, <4>1, <4>2
    <3>2. CASE x \notin s7
      <4>1. Opens(i, x)
        BY <1>1, <1>2, <2>5, <3>2 DEF Opens
      <4>2. PICK j \in DOMAIN s6 : j > i /\ Closes(j, x)
        BY <2>1, <4>1 DEF Shuts
      <4> QED
        BY <1>3, <2>1, <2>2, <4>2
    <3> QED
      BY <3>1, <3>2
  <2> QED
    BY <2>4, <2>5 DEF Shuts
<1> QED
  BY <1>5, <1>6, <1>7 DEF SwitchInv

-----------------------------------------------------------------------------
LEMMA SwitchInvInit == ASSUME SwitchBounds, Switch!Init PROVE SwitchInv
<1>1. /\ s1 = None /\ s2 = FALSE /\ s3 = None /\ s4 = [r \in Runs |-> Switch!NoRun]
      /\ s5 = None /\ s6 = <<>> /\ s7 = {} /\ s8 = [apart |-> TRUE, ok |-> TRUE]
  BY DEF Switch!Init
<1>2. Switch!NoRun \in RunRecords /\ Switch!NoRun.at = "no"
  BY DEF Switch!NoRun, RunRecords, Switch!Maybe
<1>3. DOMAIN s6 = {} /\ \A r \in Runs : s4[r].at = "no"
  BY <1>1, <1>2
<1>4. SwitchTyped
  <2>1. s1 \in Switch!Maybe /\ s2 \in BOOLEAN /\ s3 \in Switch!Maybe /\ s5 \in Switch!Maybe
    BY <1>1 DEF Switch!Maybe
  <2>2. s4 \in [Runs -> RunRecords] /\ s6 \in Seq(Switch!Call) /\ s7 \subseteq Conns
    BY <1>1, <1>2
  <2>3. s8 \in [apart : BOOLEAN, ok : BOOLEAN]
    BY <1>1
  <2> QED
    BY <2>1, <2>2, <2>3 DEF SwitchTyped
<1> QED
  BY <1>1, <1>3, <1>4 DEF SwitchInv, OneEach, CallFits, EachAsks, NoneFailed, Chosen, OneChoice,
     ClosesLast, Shuts

LEMMA SwitchInvStep ==
  ASSUME SwitchBounds, SwitchInv, Switch!Next \/ UNCHANGED Switch!vars
  PROVE  SwitchInv'
<1>1. CASE Switch!Next
  <2>1. ASSUME NEW r \in Runs, Switch!Disconnected(r) \/ Switch!Connected(r) \/ Switch!ConnectFails(r) PROVE SwitchInv'
    BY <2>1, DisconnectedStep, ConnectedStep, ConnectFailsStep
  <2>2. ASSUME NEW i \in DOMAIN s6, Switch!RunCall(i) PROVE SwitchInv'
    BY <2>2, RunCallStep
  <2>3. ASSUME NEW c \in Switch!Maybe, Switch!Choose(c) PROVE SwitchInv'
    BY <2>3, ChooseStep
  <2> QED
    BY <1>1, <2>1, <2>2, <2>3, ReloadConnStep, ReloadBackStep DEF Switch!Next
<1>2. CASE UNCHANGED Switch!vars
  <2>1. UNCHANGED <<s1, s2, s3, s4, s5, s6, s7, s8>>
    BY <1>2 DEF Switch!vars
  <2>2. Chosen'
    BY <2>1 DEF SwitchInv, Chosen, Switch!Loading, Latest, Settled
  <2>3. ClosesLast'
    BY <2>1 DEF SwitchInv, ClosesLast, Shuts, Closes, Opens
  <2> QED
    BY <2>1, <2>2, <2>3
       DEF SwitchInv, SwitchTyped, OneEach, CallFits, EachAsks, NoneFailed, OneChoice
<1> QED
  BY <1>1, <1>2

LEMMA SwitchSafe == ASSUME SwitchBounds, SwitchInv PROVE Switch!ShowsConnected /\ Switch!OneOpen
<1> SUFFICES ASSUME s6 = <<>> PROVE Switch!ShowsConnected /\ Switch!OneOpen
  BY DEF Switch!ShowsConnected, Switch!OneOpen, Switch!AtRest
<1>1. DOMAIN s6 = {} /\ ~Switch!Loading
  <2>1. DOMAIN s6 = {}
    OBVIOUS
  <2> QED
    BY <2>1 DEF SwitchInv, EachAsks, Switch!Loading
<1>2. Switch!ShowsConnected
  BY <1>1 DEF SwitchInv, Chosen, Settled, Switch!ShowsConnected
<1>3. Switch!OneOpen
  BY <1>1 DEF SwitchInv, SwitchTyped, ClosesLast, Shuts, Switch!OneOpen
<1> QED
  BY <1>2, <1>3

LEMMA SwitchInit == Init => (part = "switch" => SwitchInv)
BY PanelsAssumption, SwitchInvInit DEF PanelsAssumption, SwitchBounds, Init

LEMMA SwitchStep ==
  ASSUME part = "switch" => SwitchInv, [Next]_vars
  PROVE  (part = "switch" => SwitchInv)'
<1> SUFFICES ASSUME part = "switch", SwitchInv PROVE SwitchInv'
  BY DEF Next, vars
<1>1. SwitchBounds
  BY PanelsAssumption DEF PanelsAssumption, SwitchBounds
<1>2. Switch!Next \/ UNCHANGED Switch!vars
  BY DEF Next, vars, Switch!vars
<1> QED
  BY <1>1, <1>2, SwitchInvStep

\* Once everything asked for is done a window shows the connection it was left with, has a
\* client for it and knows that server's abilities, if no connecting failed and no close was
\* overtaken; and nothing else is open, if choices came one at a time.  For any connections,
\* any number of runs of the watcher and calls under way: AppMain's watcher of share.conn.
THEOREM ChosenIsShown == Spec => []ShowsConnected
<1>1. (part = "switch" => SwitchInv) => ShowsConnected
  BY PanelsAssumption, SwitchSafe DEF PanelsAssumption, SwitchBounds, ShowsConnected
<1>2. Spec => Init /\ [][Next]_vars
  BY DEF Spec
<1> QED
  BY <1>1, <1>2, SwitchInit, SwitchStep, PTL
=============================================================================
