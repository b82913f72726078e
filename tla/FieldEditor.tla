---------------------------- MODULE FieldEditor ----------------------------
(***************************************************************************)
(* The panel that edits one row of a list or an array: FieldSet.vue and    *)
(* what RedisValue does for it.                                            *)
(*                                                                         *)
(* A view turns the row's bytes into the editor's text, and its text into  *)
(* bytes.  Built-in views are done at once; a codec of the user's own is a *)
(* program to wait for, and where nothing built in fits the view "auto"    *)
(* tries the codecs.  Another row may be opened meanwhile, for the panel   *)
(* stays as it is and only gets other contents.                            *)
(*                                                                         *)
(* A value is one that the row `of` had or was given, in version n; a text *)
(* is a value seen through a view.  Views that cannot be written back,     *)
(* read-only panels, sorting, and the loading of rows (see ValueView) are  *)
(* left out.                                                               *)
(***************************************************************************)
EXTENDS Integers, Sequences, FiniteSets, SequencesExt

CONSTANTS
  N,          \* the rows are 0..N-1
  Odd,        \* the rows whose values no built-in view fits
  MaxActs,    \* bound: what the user does
  MaxJobs     \* bound: codecs that run and calls that are under way at a time

VARIABLES
  server,  \* the key's elements
  rows,    \* the table's
  edit,    \* RedisValue's part of the panel: fieldEditIndex, fieldSetRow
  form,    \* FieldSet's: the row it is for, srcFieldWire, the view that is chosen, whether a
           \* codec was found for "auto", the editor's text and whether the user changed it
  jobs,    \* codecs that run
  calls,   \* field_get and field_set, in the order in which they are served
  acts,    \* what the user did so far
  calm     \* history: nothing was opened, nor a row refreshed, while a codec that was
           \* chosen or a call was under way, and no value came back while one ran

vars == <<server, rows, edit, form, jobs, calls, acts, calm>>

Rows == 0..N - 1
Value == [of : Rows \cup {-1}, n : 0..2]
Own(r) == [of |-> r, n |-> 0]
Typed(r) == [of |-> r, n |-> 1]
Others(r) == [of |-> r, n |-> 2]
Junk == [of |-> -1, n |-> 0]

NoText == [val |-> Junk, view |-> "plain"]
NoEdit == [index |-> -1, row |-> -1]
NoForm == [open |-> FALSE, row |-> -1, src |-> Junk, view |-> "auto", hit |-> FALSE, text |-> NoText,
           typed |-> FALSE, loading |-> FALSE, failed |-> FALSE, job |-> 0, refreshing |-> FALSE,
           saving |-> FALSE]
Views == {"auto", "plain", "codec"}
Text == [val : Value, view : {"plain", "hex", "codec"}]
Ids == 1..MaxJobs

\* got: the value that refreshField goes on with after the codec.
Job == [id : Ids, what : {"probe", "decode", "encode"}, row : Rows, text : Text, got : Value]
Call == [what : {"set", "panel", "row", "saved"}, row : Rows \cup {-1}, val : Value,
         st : {"asked", "done", "failed"}]

TypeOK ==
  /\ server \in [Rows -> Value] /\ rows \in [Rows -> Value]
  /\ edit \in [index : Rows \cup {-1}, row : Rows \cup {-1}]
  /\ form.row \in Rows \cup {-1} /\ form.src \in Value /\ form.view \in Views /\ form.text \in Text
  /\ form.job \in Ids \cup {0} /\ (form.job # 0) = form.loading
  /\ jobs \subseteq Job /\ Cardinality({j.id : j \in jobs}) = Cardinality(jobs)
  /\ calls \in Seq(Call) /\ acts \in 0..MaxActs /\ calm \in BOOLEAN

Init ==
  /\ server = [r \in Rows |-> Own(r)] /\ rows = server
  /\ edit = NoEdit /\ form = NoForm /\ jobs = {} /\ calls = <<>> /\ acts = 0 /\ calm = TRUE

-----------------------------------------------------------------------------
(* What the editor shows. *)

Fits(v) == v.of \notin Odd
BuiltIn(v) == IF Fits(v) THEN "plain" ELSE "hex"
Effective(f) ==
  IF f.view # "auto" THEN f.view ELSE IF f.hit THEN "codec" ELSE BuiltIn(f.src)

FreeIds == Ids \ {j.id : j \in jobs}
\* A new job; `got` is what is to be done with its end.
NewJob(what, f, got) ==
  [id |-> CHOOSE i \in FreeIds : TRUE, what |-> what, row |-> f.row,
   text |-> [val |-> f.src, view |-> "codec"], got |-> got]

Waits(f) == f.view = "codec" \/ (f.view = "auto" /\ ~Fits(f.src))
\* syncFieldEditor of the form f: at once, or with a codec that has to run.  What runs
\* already is out of date from now on.
Sync(f, got) ==
  IF Waits(f)
  THEN LET j == NewJob(IF f.view = "auto" THEN "probe" ELSE "decode", f, got) IN
       /\ FreeIds # {} /\ jobs' = jobs \cup {j}
       /\ form' = [f EXCEPT !.hit = FALSE, !.typed = FALSE, !.loading = TRUE, !.job = j.id,
                            !.text = IF f.view = "auto" THEN NoText ELSE @]
  ELSE /\ UNCHANGED jobs
       /\ form' = [f EXCEPT !.hit = FALSE, !.typed = FALSE, !.loading = FALSE, !.job = 0,
                            !.failed = FALSE,
                            !.text = [val |-> f.src, view |-> IF f.view = "auto" THEN BuiltIn(f.src) ELSE f.view]]

CurrentAlways(j) == TRUE
Current(j) == form.job = j.id

Done(f) == [f EXCEPT !.loading = FALSE, !.job = 0]
\* The row that an answer is written to is the one that the panel is for by then.
RowNow(r) == IF edit.index >= 0 THEN edit.index ELSE r
Applied(got, r) == IF r = -1 THEN rows ELSE [rows EXCEPT ![RowNow(r)] = got]
Refreshed(f, got) == [f EXCEPT !.refreshing = @ /\ got = Junk]
\* What refreshField does in the end.
GoOn(got) == rows' = IF got = Junk THEN rows ELSE Applied(got, edit.row)

\* A probe that is out of date changes nothing.
Probed(j, hit) ==
  /\ j \in jobs /\ j.what = "probe" /\ jobs' = jobs \ {j} /\ GoOn(j.got)
  /\ LET f == Refreshed(form, j.got) IN
     form' = IF ~Current(j) THEN f
             ELSE [Done(f) EXCEPT !.hit = hit, !.typed = FALSE, !.failed = FALSE,
                     !.text = [j.text EXCEPT !.view = IF hit THEN @ ELSE BuiltIn(j.text.val)]]
  /\ UNCHANGED <<server, edit, calls, acts, calm>>

\* A codec that was chosen writes what it has whether or not it is out of date.
Decoded(j, ok) ==
  /\ j \in jobs /\ j.what = "decode" /\ jobs' = jobs \ {j} /\ GoOn(j.got)
  /\ LET f == [Refreshed(form, j.got) EXCEPT !.text = IF ok THEN j.text ELSE NoText,
                 !.typed = FALSE, !.failed = ~ok]
     IN form' = IF Current(j) THEN Done(f) ELSE f
  /\ UNCHANGED <<server, edit, calls, acts, calm>>

-----------------------------------------------------------------------------
(* The user. *)

Act == acts < MaxActs /\ acts' = acts + 1
Quiet == calls = <<>> /\ \A j \in jobs : j.what = "probe" /\ j.got = Junk

\* openFieldPanel and open, of a row of the table.
Open(r) ==
  /\ Act /\ edit' = [index |-> r, row |-> r]
  /\ Sync([form EXCEPT !.open = TRUE, !.row = r, !.src = rows[r], !.view = "auto"], Junk)
  /\ calm' = (calm /\ Quiet)
  /\ UNCHANGED <<server, rows, calls>>

\* Another view is chosen, when the text is there.
ChooseView(v) ==
  /\ Act /\ form.open /\ ~form.loading /\ v # form.view /\ Sync([form EXCEPT !.view = v], Junk)
  /\ UNCHANGED <<server, rows, edit, calls, calm>>

\* The list of codecs is edited: "auto" looks again, a codec that is gone becomes "auto".
\* togglePretty looks again as well.
CodecsChange ==
  /\ Act /\ form.open /\ form.view # "plain" /\ Sync([form EXCEPT !.view = "auto"], Junk)
  /\ calm' = (calm /\ Quiet)
  /\ UNCHANGED <<server, rows, edit, calls>>

\* onFieldValueUpdate
Type ==
  /\ Act /\ form.open /\ ~form.loading /\ ~form.failed
  /\ form' = [form EXCEPT !.typed = TRUE, !.text = [val |-> Typed(form.row), view |-> Effective(form)]]
  /\ UNCHANGED <<server, rows, edit, jobs, calls, calm>>

\* fieldSetInit: cancelled, or clicked beside.
Closed(f) == [f EXCEPT !.open = FALSE]
Close ==
  /\ Act /\ edit.row # -1 /\ edit' = NoEdit /\ form' = Closed(form)
  /\ UNCHANGED <<server, rows, jobs, calls, calm>>

Ask(what, r, v) ==
  /\ Len(calls) < MaxJobs
  /\ calls' = Append(calls, [what |-> what, row |-> r, val |-> v, st |-> "asked"])

\* refreshField, the panel's own.
RefreshField ==
  /\ Act /\ form.open /\ ~form.refreshing /\ Ask("panel", form.row, Junk)
  /\ form' = [form EXCEPT !.refreshing = TRUE]
  /\ UNCHANGED <<server, rows, edit, jobs, calm>>

\* refreshFieldRow, from a row's menu: the panel's index becomes the row's.
RefreshRow(r) ==
  /\ Act /\ edit' = [edit EXCEPT !.index = r] /\ Ask("row", r, Junk)
  /\ calm' = (calm /\ Quiet /\ ~form.open)
  /\ UNCHANGED <<server, rows, form, jobs>>

\* What a text is as bytes, through the view that it is taken to be in.
Bytes(text, view) == IF text.view = view THEN text.val ELSE Junk

\* The row and the text are those of the panel at this moment; the button is off only
\* from the call on.
Submit ==
  /\ Act /\ form.open /\ ~form.loading /\ ~form.failed /\ ~form.saving
  /\ IF Effective(form) = "codec"
     THEN /\ FreeIds # {} /\ UNCHANGED <<form, calls>>
          /\ jobs' = jobs \cup {[NewJob("encode", form, Junk) EXCEPT !.text = form.text]}
     ELSE /\ Ask("set", form.row, Bytes(form.text, Effective(form)))
          /\ form' = [form EXCEPT !.saving = TRUE] /\ UNCHANGED jobs
  /\ UNCHANGED <<server, rows, edit, calm>>

Encoded(j, ok) ==
  /\ j \in jobs /\ j.what = "encode" /\ jobs' = jobs \ {j}
  /\ IF ok THEN Ask("set", j.row, Bytes(j.text, "codec")) /\ form' = [form EXCEPT !.saving = TRUE]
     ELSE UNCHANGED <<form, calls>>
  /\ UNCHANGED <<server, rows, edit, acts, calm>>

-----------------------------------------------------------------------------
(* The calls. *)

\* -1 is the last element.
Place(i) == IF i = -1 THEN N - 1 ELSE i

Served(i) ==
  /\ calls[i].st = "asked" /\ \A k \in 1..i - 1 : calls[k].st # "asked"
  /\ LET q == calls[i] IN
     \/ calls' = [calls EXCEPT ![i].st = "failed"] /\ UNCHANGED server
     \/ /\ q.what = "set" /\ server' = [server EXCEPT ![q.row] = q.val]
        /\ calls' = [calls EXCEPT ![i].st = "done"]
     \/ /\ q.what # "set" /\ UNCHANGED server
        /\ calls' = [calls EXCEPT ![i].st = "done", ![i].val = server[Place(q.row)]]
  /\ UNCHANGED <<rows, edit, form, jobs, acts, calm>>

Back(i, what, st) == calls[i].what = what /\ calls[i].st = st /\ calls' = RemoveAt(calls, i)

\* refreshField: the value becomes that of whatever the panel shows.
PanelBack(i) ==
  \/ /\ Back(i, "panel", "done")
     /\ LET f == [form EXCEPT !.src = calls[i].val] IN
        IF Waits(f) THEN Sync(f, calls[i].val) /\ UNCHANGED rows
        ELSE /\ Sync([f EXCEPT !.refreshing = FALSE], Junk)
             /\ rows' = Applied(calls[i].val, edit.row)
     /\ calm' = (calm /\ \A j \in jobs : j.what # "decode")
     /\ UNCHANGED <<server, edit, acts>>
  \/ /\ Back(i, "panel", "failed") /\ form' = [form EXCEPT !.refreshing = FALSE]
     /\ UNCHANGED <<server, rows, edit, jobs, acts, calm>>

\* Where one row cannot be had, all are loaded, which closes the panel.
Reload == rows' = server /\ edit' = NoEdit /\ form' = Closed(form)

RowBack(i) ==
  /\ \/ Back(i, "row", "done") /\ rows' = Applied(calls[i].val, calls[i].row) /\ UNCHANGED <<edit, form>>
     \/ Back(i, "row", "failed") /\ Reload
  /\ UNCHANGED <<server, jobs, acts, calm>>

\* submit's end and onFieldSetSuccess: the panel closes, and the row that it is for by
\* then is fetched.
SetBack(i) ==
  \/ /\ calls[i].what = "set" /\ calls[i].st = "done"
     /\ calls' = Append(RemoveAt(calls, i), [what |-> "saved", row |-> edit.index, val |-> Junk, st |-> "asked"])
     /\ form' = [Closed(form) EXCEPT !.saving = FALSE]
     /\ UNCHANGED <<server, rows, edit, jobs, acts, calm>>
  \/ /\ Back(i, "set", "failed") /\ form' = [form EXCEPT !.saving = FALSE]
     /\ UNCHANGED <<server, rows, edit, jobs, acts, calm>>

SavedBack(i) ==
  /\ \/ /\ Back(i, "saved", "done") /\ rows' = Applied(calls[i].val, edit.row)
        /\ edit' = NoEdit /\ form' = Closed(form)
     \/ Back(i, "saved", "failed") /\ Reload
  /\ UNCHANGED <<server, jobs, acts, calm>>

OtherWrites(r) ==
  /\ server[r] # Others(r) /\ server' = [server EXCEPT ![r] = Others(r)]
  /\ UNCHANGED <<rows, edit, form, jobs, calls, acts, calm>>

Next ==
  \/ \E r \in Rows : Open(r) \/ RefreshRow(r) \/ OtherWrites(r)
  \/ \E v \in Views : ChooseView(v)
  \/ CodecsChange \/ Type \/ Close \/ RefreshField \/ Submit
  \/ \E j \in jobs, ok \in BOOLEAN : Probed(j, ok) \/ Decoded(j, ok) \/ Encoded(j, ok)
  \/ \E i \in DOMAIN calls : Served(i) \/ PanelBack(i) \/ RowBack(i) \/ SetBack(i) \/ SavedBack(i)

Spec == Init /\ [][Next]_vars

-----------------------------------------------------------------------------
(* Properties. *)

\* The editor's text is its view of the bytes that the panel has, unless the user changed
\* it: whatever was decoded before is dropped.
EditorShows ==
  form.open /\ ~form.loading /\ ~form.failed /\ ~form.typed =>
    form.text = [val |-> form.src, view |-> Effective(form)]

OfRows(f) == \A r \in Rows : f[r].of = r

\* While probes run, rows are opened and saved, others write and calls come back, the panel
\* shows the row that it names, and no row of the table or of the server gets what was shown
\* or typed for another one, or text of another view.
EditsItsOwn ==
  calm => EditorShows /\ (form.open => form.src.of = form.row) /\ OfRows(rows) /\ OfRows(server)
=============================================================================
