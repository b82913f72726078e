------------------------------ MODULE KeyTypes ------------------------------
(***************************************************************************)
(* The types of keys that a window of RedisME remembers: key-type-cache    *)
(* with the tags that show them and what drops them.                       *)
(*                                                                         *)
(* A type that is asked for is waited for by all who want it.  Deleting,   *)
(* renaming and flushing drop types once the server has done its part; a   *)
(* TYPE that is under way then is stored when it comes back, and answers   *)
(* of different calls come in any order.                                   *)
(*                                                                         *)
(* One connection and one database.  A type is not a name here but the     *)
(* life of the key it was read in: a key that is deleted, flushed, renamed *)
(* or overwritten begins another, as what is stored there next may be of   *)
(* another type.  Rescans of the list leave types alone.                   *)
(***************************************************************************)
EXTENDS Naturals, FiniteSets

CONSTANTS
  Keys, Tags, None,
  MaxLife    \* bound: lives of a key

VARIABLES
  life,      \* the keys on the server
  type,      \* cache: the life in which each type was read
  call,      \* pending: the TYPE under way for each key
  tag,       \* the key of each tag, what it waits for, and what it shows
  edit,      \* the delete, rename or flush that is under way
  late       \* history, see TypeFollows

vars == <<life, type, call, tag, edit, late>>

Unread == MaxLife + 1
Types == 0..Unread
NoCall == [st |-> "no", life |-> 0]
NoTag == [key |-> None, waits |-> {}, shows |-> Unread, of |-> None]
NoEdit == [st |-> "no", kind |-> "flush", key |-> None, new |-> None]

TypeOK ==
  /\ life \in [Keys -> 0..MaxLife] /\ type \in [Keys -> Types]
  /\ call \in [Keys -> [st : {"no", "asked", "answered"}, life : 0..MaxLife]]
  /\ tag \in [Tags -> [key : Keys \cup {None}, waits : SUBSET Keys, shows : Types, of : Keys \cup {None}]]
  /\ edit \in [st : {"no", "asked", "answered"}, kind : {"delete", "rename", "flush"},
               key : Keys \cup {None}, new : Keys \cup {None}]
  /\ late \subseteq Keys
  \* Whoever waits is going to be answered.
  /\ \A t \in Tags : \A k \in tag[t].waits : call[k].st # "no"

Init ==
  /\ life = [k \in Keys |-> 0] /\ type = [k \in Keys |-> Unread]
  /\ call = [k \in Keys |-> NoCall] /\ tag = [t \in Tags |-> NoTag]
  /\ edit = NoEdit /\ late = {}

-----------------------------------------------------------------------------
(* Asking. *)

\* resolveKeyType: one call for all who ask, none if the type is known.
Ask(k) == IF type[k] = Unread /\ call[k].st = "no" THEN [call EXCEPT ![k].st = "asked"] ELSE call

\* A tag's watcher, for its first key or its next: what it showed stays until it
\* knows better, and it goes on waiting for what it asked before.
Resolved(r, k) ==
  IF type[k] # Unread THEN [r EXCEPT !.key = k, !.shows = type[k], !.of = k]
  ELSE [r EXCEPT !.key = k, !.waits = @ \cup {k}]

Mount(t, k) ==
  /\ tag[t].key = None
  /\ tag' = [tag EXCEPT ![t] = Resolved(@, k)] /\ call' = Ask(k)
  /\ UNCHANGED <<life, type, edit, late>>

Unmount(t) ==
  /\ tag[t].key # None
  /\ tag' = [tag EXCEPT ![t] = NoTag] /\ UNCHANGED <<life, type, call, edit, late>>

Served(k) ==
  /\ call[k].st = "asked"
  /\ call' = [call EXCEPT ![k] = [st |-> "answered", life |-> life[k]]]
  /\ UNCHANGED <<life, type, tag, edit, late>>

\* The answer is stored and given to all who wait; an error answers without a type.
Answered(k) ==
  /\ call[k].st = "answered"
  /\ \E got \in {call[k].life, Unread} :
       /\ type' = [type EXCEPT ![k] = IF got = Unread THEN @ ELSE got]
       /\ tag' = [t \in Tags |-> IF k \in tag[t].waits
                                 THEN [tag[t] EXCEPT !.waits = @ \ {k}, !.shows = got, !.of = k]
                                 ELSE tag[t]]
  /\ call' = [call EXCEPT ![k] = NoCall]
  /\ UNCHANGED <<life, edit, late>>

-----------------------------------------------------------------------------
(* Dropping. *)

\* bound: one at a time.
Confirm(kind, k, n) ==
  /\ edit.st = "no"
  /\ edit' = [st |-> "asked", kind |-> kind, key |-> k, new |-> n]
  /\ UNCHANGED <<life, type, call, tag, late>>

Hit == CASE edit.kind = "flush" -> Keys
         [] edit.kind = "delete" -> {edit.key}
         [] edit.kind = "rename" -> {edit.key, edit.new}

\* The server; RENAME overwrites the key that has the new name.
EditServed ==
  /\ edit.st = "asked" /\ \A k \in Hit : life[k] < MaxLife
  /\ life' = [k \in Keys |-> IF k \in Hit THEN life[k] + 1 ELSE life[k]]
  /\ late' = late \cup {k \in Hit : call[k].st # "no"}
                  \cup (IF edit.kind = "rename" THEN {edit.new} ELSE {})
  /\ edit' = [edit EXCEPT !.st = "answered"]
  /\ UNCHANGED <<type, call, tag>>

EditFails ==
  /\ edit.st = "asked" /\ edit' = NoEdit /\ UNCHANGED <<life, type, call, tag, late>>

\* invalidateKeyType and clearKeyTypeCacheForConn.  They drop from `pending` what is
\* in the cache, where nobody asks.
DroppedNot(ks) == UNCHANGED type
Dropped(ks) == type' = [k \in Keys |-> IF k \in ks THEN Unread ELSE type[k]]

\* Rows that leave the list: a deleted key's, and all when it is mounted anew.
Gone == IF edit.kind = "rename" THEN {} ELSE Hit

Edited ==
  /\ edit.st = "answered"
  /\ Dropped(IF edit.kind = "flush" THEN Keys ELSE {edit.key})
  /\ tag' = [t \in Tags |->
       IF tag[t].key \in Gone THEN NoTag
       ELSE IF edit.kind = "rename" /\ tag[t].key = edit.key
       THEN Resolved(tag[t], edit.new) ELSE tag[t]]
  /\ call' = IF edit.kind = "rename" /\ \E t \in Tags : tag[t].key = edit.key
             THEN Ask(edit.new) ELSE call
  /\ edit' = NoEdit
  /\ UNCHANGED <<life, late>>

-----------------------------------------------------------------------------
Next ==
  \/ \E t \in Tags : Unmount(t) \/ \E k \in Keys : Mount(t, k)
  \/ \E k \in Keys : Served(k) \/ Answered(k)
  \/ EditServed \/ EditFails \/ Edited
  \/ Confirm("flush", None, None)
  \/ \E k \in Keys : Confirm("delete", k, None) \/ \E n \in Keys \ {k} : Confirm("rename", k, n)

Spec == Init /\ [][Next]_vars

-----------------------------------------------------------------------------
(* Properties. *)

\* A remembered type is that of the key as it is now, once nothing of this window's own
\* doing is under way; a key whose type was asked for while it was deleted, and one that
\* a renamed key has overwritten, are set aside.
TypeFollows == \A k \in Keys :
  type[k] # Unread /\ k \notin late /\ ~(edit.st = "answered" /\ k \in Hit) => type[k] = life[k]

\* So is what a tag shows of its key, however many tags asked and whenever they came.
TagFollows == \A t \in Tags :
  LET k == tag[t].key IN
  /\ k # None /\ tag[t].of = k /\ tag[t].shows # Unread
  /\ k \notin late /\ ~(edit.st = "answered" /\ k \in Hit)
  => tag[t].shows = life[k]
=============================================================================
