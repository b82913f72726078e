----------------------------- MODULE SearchPage -----------------------------
(***************************************************************************)
(* RedisME's page for full-text search: the list of indexes, the query     *)
(* page, and the dialogs for tag values and synonyms.                      *)
(*                                                                         *)
(* Everything is about the selected index, which rows, dialogs and each    *)
(* reload of the list set.  Calls of the page run side by side and come    *)
(* back in any order.  The dialogs for tags and synonyms drop the answers  *)
(* that they do not wait for any more; the others do not.                  *)
(*                                                                         *)
(* Tag values, synonyms and hits do not change here: what matters is whose *)
(* they are.  What a closed dialog or the left query page holds is left    *)
(* out, as each clears it when it opens.  The dialogs for an index that    *)
(* make no call are one, and so are two calls that are alike.              *)
(***************************************************************************)
EXTENDS Naturals, FiniteSets

CONSTANTS
  Indexes, Fields, Queries, None,
  UnderWay   \* bound: calls under way

VARIABLES
  exist,     \* the indexes on the server
  rows,      \* indexes
  sel,       \* selected
  page,      \* pageMode and queryText
  dialogs,   \* which are open
  tags,      \* tagField, and whose the tagValues are
  syn,       \* whose the synGroups are
  hits,      \* which index and query the hits are of
  loading,   \* loadingList
  calls,     \* what is under way; `fresh` is whether its number is still tagSeq or synSeq
  off        \* history: answers that the page mistakes, see the properties

vars == <<exist, rows, sel, page, dialogs, tags, syn, hits, loading, calls, off>>

Maybe == Indexes \cup {None}
NoValues == <<None, None>>
NoTags == [field |-> None, of |-> NoValues]
Changes == {"create", "alter", "sample", "drop"}
Call == [what : Changes \cup {"list", "query", "again", "tags", "syn", "add"},
         index : Maybe, arg : Queries \cup Fields \cup {None}, fresh : BOOLEAN,
         served : BOOLEAN, got : SUBSET Indexes]

TypeOK ==
  /\ exist \subseteq Indexes /\ rows \subseteq Indexes /\ sel \in Maybe /\ loading \in BOOLEAN
  /\ page \in [query : BOOLEAN, text : Queries]
  /\ dialogs \subseteq {"detail", "alter", "create", "sample", "tags", "syn", "synAdd"}
  /\ tags \in [field : Fields \cup {None}, of : Maybe \X (Fields \cup {None})]
  /\ syn \in Maybe /\ hits \in Maybe \X (Queries \cup {None})
  /\ calls \subseteq Call
  /\ off \in [steered : BOOLEAN, queries : BOOLEAN, lists : BOOLEAN]
  \* The query page and the dialogs for an index always have one.
  /\ page.query \/ dialogs \cap {"detail", "alter", "tags", "syn"} # {} => sel \in rows

Init ==
  /\ exist \in SUBSET Indexes /\ rows = {} /\ sel = None /\ dialogs = {}
  /\ page \in [query : {FALSE}, text : Queries]
  /\ tags = NoTags /\ syn = None /\ hits = NoValues
  /\ loading = FALSE /\ calls = {}
  /\ off = [steered |-> FALSE, queries |-> FALSE, lists |-> FALSE]

-----------------------------------------------------------------------------
Waiting(whats) == \E c \in calls : c.what \in whats

New(what, i, a) ==
  [what |-> what, index |-> i, arg |-> a, fresh |-> TRUE, served |-> FALSE, got |-> {}]

\* A call more, and those of its kind that are not waited for any more.
Ask(q, c) == Cardinality(q) < UnderWay /\ calls' = q \cup {c}
Dropped(q, whats) == {IF c.what \in whats THEN [c EXCEPT !.fresh = FALSE] ELSE c : c \in q}

-----------------------------------------------------------------------------
(* Opening and closing.  A dialog covers what is behind it. *)

Behind == dialogs = {} /\ ~page.query

\* The list has a mask while it is loaded.
Row(i) == i \in rows /\ Behind /\ ~loading /\ sel' = i

\* openIndex and openAlter
OpenIndex(i, d) ==
  /\ Row(i) /\ dialogs' = {d} /\ off' = [off EXCEPT !.steered = FALSE]
  /\ UNCHANGED <<exist, rows, page, tags, syn, hits, loading, calls>>

LoadTags(i, f) == Ask(Dropped(calls, {"tags"}), New("tags", i, f))

\* openTagVals: an index may have no TAG field, and then nothing is asked.
TagsShown(i) ==
  \/ \E f \in Fields : LoadTags(i, f) /\ tags' = [field |-> f, of |-> NoValues]
  \/ calls' = Dropped(calls, {"tags"}) /\ tags' = NoTags

OpenTags(i) ==
  /\ Row(i) /\ dialogs' = {"tags"} /\ off' = [off EXCEPT !.steered = FALSE] /\ TagsShown(i)
  /\ UNCHANGED <<exist, rows, page, syn, hits, loading>>

\* openTagField: the dialog for the fields stays.
OpenTagField ==
  /\ dialogs = {"detail"} /\ dialogs' = {"detail", "tags"} /\ TagsShown(sel)
  /\ UNCHANGED <<exist, rows, sel, page, syn, hits, loading, off>>

\* onTagFieldChange; the button of the dialog keeps the values.
TagField(f) ==
  /\ "tags" \in dialogs /\ tags.field # None /\ LoadTags(sel, f)
  /\ tags' = IF f = tags.field THEN tags ELSE [field |-> f, of |-> NoValues]
  /\ UNCHANGED <<exist, rows, sel, page, dialogs, syn, hits, loading, off>>

LoadSyn(q, i) == Ask(Dropped(q, {"syn"}), New("syn", i, None))

\* openSynDump, and the button of the dialog.
OpenSyn(i) ==
  /\ Row(i) /\ dialogs' = {"syn"} /\ off' = [off EXCEPT !.steered = FALSE]
  /\ syn' = None /\ LoadSyn(calls, i)
  /\ UNCHANGED <<exist, rows, page, tags, hits, loading>>

SynAgain ==
  /\ dialogs = {"syn"} /\ LoadSyn(calls, sel)
  /\ UNCHANGED <<exist, rows, sel, page, dialogs, tags, syn, hits, loading, off>>

\* openSynAdd and openSynEdit; saveSynGroup up to its call.
OpenSynAdd ==
  /\ dialogs = {"syn"} /\ dialogs' = {"syn", "synAdd"}
  /\ UNCHANGED <<exist, rows, sel, page, tags, syn, hits, loading, calls, off>>

SaveSyn ==
  /\ "synAdd" \in dialogs /\ ~Waiting({"add"}) /\ Ask(calls, New("add", sel, None))
  /\ UNCHANGED <<exist, rows, sel, page, dialogs, tags, syn, hits, loading, off>>

\* openCreate and openSample; a creation may come from the page of a key.
OpenCreate(d) ==
  /\ dialogs = {} /\ (page.query => d = "create")
  /\ page' = [page EXCEPT !.query = FALSE] /\ hits' = NoValues /\ dialogs' = {d}
  /\ UNCHANGED <<exist, rows, sel, tags, syn, loading, calls, off>>

\* The dialog in front.
Close(d) ==
  /\ d \in dialogs /\ ({d} = dialogs \/ d \in {"tags", "synAdd"}) /\ dialogs' = dialogs \ {d}
  /\ tags' = IF d = "tags" THEN NoTags ELSE tags
  /\ syn' = IF d = "syn" THEN None ELSE syn
  /\ off' = [off EXCEPT !.steered = @ /\ dialogs' # {}]
  /\ UNCHANGED <<exist, rows, sel, page, hits, loading, calls>>

-----------------------------------------------------------------------------
(* The query page. *)

\* runSearch up to its call; "again" is the one that loadIndexes waits for.
Search(q, what, i, t) ==
  /\ Ask(q, New(what, i, t))
  /\ off' = [off EXCEPT !.steered = FALSE, !.queries = Waiting({"query", "again"})]

OpenQuery(i, t) ==
  /\ Row(i) /\ page' = [query |-> TRUE, text |-> t] /\ hits' = NoValues
  /\ Search(calls, "query", i, t)
  /\ UNCHANGED <<exist, rows, dialogs, tags, syn, loading>>

\* submitQuery
Submit(t) ==
  /\ page.query /\ dialogs = {} /\ page' = [page EXCEPT !.text = t]
  /\ Search(calls, "query", sel, t)
  /\ UNCHANGED <<exist, rows, sel, dialogs, tags, syn, hits, loading>>

Back ==
  /\ page.query /\ dialogs = {} /\ page' = [page EXCEPT !.query = FALSE] /\ hits' = NoValues
  /\ UNCHANGED <<exist, rows, sel, dialogs, tags, syn, loading, calls, off>>

\* Hits are not compared with what is asked for by then.
GotHits(c) ==
  /\ c.what \in {"query", "again"} /\ calls' = calls \ {c}
  /\ hits' = IF page.query THEN <<c.index, c.arg>> ELSE hits
  /\ loading' = (loading /\ c.what # "again")
  /\ UNCHANGED <<exist, rows, sel, page, dialogs, tags, syn, off>>

-----------------------------------------------------------------------------
(* The list and what changes it. *)

\* loadIndexes up to its call: `keep` is to stay.
List(q, keep) ==
  /\ Ask(q, New("list", keep, None)) /\ loading' = TRUE
  /\ off' = [off EXCEPT !.lists = Waiting({"list"})]

\* The button, and the page when it is mounted.
Reload ==
  /\ Behind /\ ~loading /\ List(calls, sel)
  /\ UNCHANGED <<exist, rows, sel, page, dialogs, tags, syn, hits>>

LeaveInQuery == UNCHANGED page
LeavePage == page' = [page EXCEPT !.query = FALSE]

\* leaveIndex
Leave ==
  /\ sel' = None /\ LeavePage /\ hits' = NoValues
  /\ dialogs' = dialogs \cap {"create", "sample"} /\ tags' = NoTags /\ syn' = None

Listed(c) ==
  /\ c.what = "list" /\ c.served /\ rows' = c.got
  /\ IF c.index \in rows'
     THEN /\ sel' = c.index /\ UNCHANGED <<page, dialogs, tags, syn, hits>>
          /\ IF page.query
             THEN Search(calls \ {c}, "again", c.index, page.text) /\ UNCHANGED loading
             ELSE /\ calls' = calls \ {c} /\ loading' = FALSE
                  /\ off' = [off EXCEPT !.steered = dialogs # {} /\ (@ \/ c.index # sel)]
     ELSE /\ Leave /\ calls' = Dropped(calls \ {c}, {"tags", "syn"})
          /\ loading' = FALSE /\ off' = [off EXCEPT !.steered = FALSE]
  /\ UNCHANGED exist

\* runCreate, runAlter, loadSample and dropIndex up to their call; a command that is
\* edited may be about any index.
Change(what, i) ==
  /\ ~Waiting({what}) /\ Ask(calls, New(what, i, None))
  /\ IF what = "drop" THEN Behind /\ ~loading /\ i \in rows
     ELSE what \in dialogs /\ (what = "alter" => i = sel)
  /\ UNCHANGED <<exist, rows, sel, page, dialogs, tags, syn, hits, loading, off>>

Serve(c) ==
  /\ c.what \in Changes \cup {"list"} /\ ~c.served
  /\ calls' = (calls \ {c}) \cup {[c EXCEPT !.served = TRUE, !.got = IF c.what = "list" THEN exist ELSE {}]}
  /\ exist' = CASE c.what \in {"create", "sample"} -> exist \cup {c.index}
                [] c.what = "drop" -> exist \ {c.index}
                [] OTHER -> exist
  /\ UNCHANGED <<rows, sel, page, dialogs, tags, syn, hits, loading, off>>

\* The dialog is closed and the list reloaded; what is to stay is the index altered or
\* made as a sample and, after a creation, the one selected by then.

Changed(c) ==
  /\ c.what \in Changes \ {"drop"} /\ c.served
  /\ dialogs' = dialogs \ {c.what}
  /\ List(calls \ {c}, IF c.what = "create" THEN sel ELSE c.index)
  /\ UNCHANGED <<exist, rows, sel, page, tags, syn, hits>>

Erased(c) ==
  /\ c.what = "drop" /\ c.served
  /\ IF sel = c.index
     THEN Leave /\ List(Dropped(calls \ {c}, {"tags", "syn"}), None)
     ELSE List(calls \ {c}, sel) /\ UNCHANGED <<sel, page, dialogs, tags, syn, hits>>
  /\ UNCHANGED <<exist, rows>>

-----------------------------------------------------------------------------
(* The answers for the dialogs. *)

Any(c) == TRUE
\* The number that a call was given is compared with the present one.
Fresh(c) == c.fresh

GotTags(c) ==
  /\ c.what = "tags" /\ calls' = calls \ {c}
  /\ tags' = IF "tags" \in dialogs /\ Fresh(c) THEN [tags EXCEPT !.of = <<c.index, c.arg>>] ELSE tags
  /\ UNCHANGED <<exist, rows, sel, page, dialogs, syn, hits, loading, off>>

GotSyn(c) ==
  /\ c.what = "syn" /\ calls' = calls \ {c}
  /\ syn' = IF "syn" \in dialogs /\ Fresh(c) THEN c.index ELSE syn
  /\ UNCHANGED <<exist, rows, sel, page, dialogs, tags, hits, loading, off>>

\* saveSynGroup goes on with the index that is selected by then.
Saved(c) ==
  /\ c.what = "add" /\ dialogs' = dialogs \ {"synAdd"}
  /\ IF sel # None THEN LoadSyn(calls \ {c}, sel) /\ UNCHANGED syn
     ELSE calls' = Dropped(calls \ {c}, {"syn"}) /\ syn' = None
  /\ UNCHANGED <<exist, rows, sel, page, tags, hits, loading, off>>

\* A call that fails leaves all as it is, but for the mask of the list.
Fails(c) ==
  /\ calls' = calls \ {c} /\ loading' = (loading /\ c.what \notin {"list", "again"})
  /\ off' = [off EXCEPT !.queries = @ \/ (page.query /\ c.what \in {"query", "again"}),
                        !.lists = @ \/ c.what \in Changes \cup {"list"}]
  /\ UNCHANGED <<exist, rows, sel, page, dialogs, tags, syn, hits>>

-----------------------------------------------------------------------------
Answer(c) ==
  Listed(c) \/ Serve(c) \/ Changed(c) \/ Erased(c) \/ Saved(c) \/ GotTags(c) \/ GotSyn(c) \/ GotHits(c) \/ Fails(c)

Next ==
  \/ Reload \/ SynAgain \/ SaveSyn \/ OpenTagField \/ OpenSynAdd \/ Back
  \/ \E c \in calls : Answer(c)
  \/ \E f \in Fields : TagField(f)
  \/ \E i \in Indexes : \/ OpenTags(i) \/ OpenSyn(i)
                        \/ \E d \in {"detail", "alter"} : OpenIndex(i, d)
                        \/ \E w \in Changes : Change(w, i)
                        \/ \E t \in Queries : OpenQuery(i, t)
  \/ \E t \in Queries : Submit(t)
  \/ \E d \in {"create", "sample"} : OpenCreate(d)
  \/ \E d \in {"detail", "alter", "create", "sample", "tags", "syn", "synAdd"} : Close(d)

Spec == Init /\ [][Next]_vars

-----------------------------------------------------------------------------
(* Properties. *)

\* The values in the dialog for tags are those of the index and field that it names,
\* however often it was closed and opened for others, changed and reloaded with calls
\* under way, as long as no reload of the list has moved the selection under it.
TagsOfField == "tags" \in dialogs /\ ~off.steered => tags.of \in {NoValues, <<sel, tags.field>>}

\* So are the groups in the dialog for synonyms those of the index it names.
SynOfIndex == "syn" \in dialogs /\ ~off.steered => syn \in {None, sel}

\* The query page shows hits of its index and of the query sent last, whatever the list
\* was reloaded for, once nothing is under way, if queries did not overlap or fail.
HitsOfQuery == page.query /\ ~Waiting({"query", "again"}) /\ ~off.queries => hits = <<sel, page.text>>

\* Every change of the indexes made here is seen in the list once nothing is under way,
\* if no reload overlapped another and none failed.
RowsFollow == ~off.lists /\ calls = {} /\ rows # {} => rows = exist
=============================================================================
