------------------------------- MODULE AdminPage -------------------------------
(***************************************************************************)
(* src/src/admin-ui/app.js: the page on which an administrator edits the   *)
(* bindings, over the admin service and beside other tabs and other        *)
(* administrators.  Every operation awaits the service; the view, the list *)
(* and its paging, and the edit dialog live outside it and change while it *)
(* waits.                                                                  *)
(*                                                                         *)
(* A call of api() is sent, served and handled in three steps, in any      *)
(* order with those of other calls.  The service does its part in one step *)
(* (Bindings tells what happens inside), or answers 401 whenever it likes: *)
(* sessions and CSRF tokens are AdminLogin's.  A handler or a continuation *)
(* with all it calls is one action.  Notices, wording (of either language) *)
(* and styling are left out; that a change of the language draws the list  *)
(* again is not.                                                           *)
(***************************************************************************)
EXTENDS Integers, Sequences, FiniteSets

CONSTANTS Texts,      \* values of a field: external id, note
          Sought,     \* those the administrator searches for
          NoSearch,   \* ""
          PageSize,   \* pageSize
          MaxRows,    \* bound on the ids
          MaxOffset,  \* bound on how far the next button is pressed
          Slots,      \* calls under way are told apart by their slot; one is kept
                      \* for the load of the list (a bound on the others)
          MaxWrites   \* bound on the writes to the table

ASSUME AdminPageAssumption ==
  /\ Texts # {} /\ Sought \subseteq Texts /\ NoSearch \notin Texts
  /\ PageSize \in Nat \ {0}
  /\ MaxRows \in Nat /\ MaxOffset \in Nat /\ MaxWrites \in Nat
  /\ IsFiniteSet(Slots)

VARIABLES
  view,       \* "start", "login" or "admin"
  list,       \* the rows on screen: state.bindings
  search,     \* state.search
  offset,     \* state.offset
  total,      \* state.total, Unknown for null
  loading,    \* state.loading
  prevOn,     \* the previous button is enabled
  nextOn,     \* the next button is enabled
  dialog,     \* the row the edit dialog was opened for, or NoRow
  calls,      \* the calls of api()
  rows,       \* the table bindings, by id
  writes      \* how often it was written (bound)

page == <<view, list, search, offset, total, loading, prevOn, nextOn, dialog>>
vars == <<view, list, search, offset, total, loading, prevOn, nextOn, dialog,
          calls, rows, writes>>

Ids == 1 .. MaxRows
Unknown == -1
NoRow == [id |-> 0]

\* A row as the list shows it.  born is history: it tells a row from a later one
\* that was given its id.
Row == [id : Ids, born : 0 .. MaxWrites, version : 1 .. MaxWrites + 1,
        external : Texts, note : Texts]
Form == [external : Texts, note : Texts]

RowKinds == {"credential", "delete"}   \* credential: test or replace
Kinds == {"session", "login", "logout", "create", "load", "save"} \cup RowKinds
NoCall == [stage |-> "none"]

\* What a row holds at first: one text stands for all.
Typed == CHOOSE t \in Texts : TRUE

Stage(i) == calls[i].stage
Pending(kind) == \E i \in Slots : Stage(i) # "none" /\ calls[i].kind = kind

TypeOK ==
  /\ view \in {"start", "login", "admin"}
  /\ list \in Seq(Row) /\ Len(list) <= PageSize
  /\ search \in Sought \cup {NoSearch}
  /\ offset \in 0 .. MaxOffset
  /\ total \in 0 .. MaxRows \cup {Unknown}
  /\ loading \in BOOLEAN /\ prevOn \in BOOLEAN /\ nextOn \in BOOLEAN
  /\ dialog \in Row \cup {NoRow}
  /\ \A i \in Slots : Stage(i) \in {"none", "sent", "answered", "reloading"}
  /\ rows \in [Ids -> Row \cup {NoRow}]
  /\ writes \in 0 .. MaxWrites

-------------------------------------------------------------------------------
(* The service, and those who write beside this page. *)

Used == {i \in Ids : rows[i] # NoRow}

Found(text) == {i \in Used : text = NoSearch \/ rows[i].note = text}

\* ORDER BY id DESC LIMIT PageSize OFFSET from
IsPage(items, text, from) ==
  /\ \A n \in DOMAIN items :
       Cardinality({i \in Found(text) : i > items[n].id}) = from + n - 1
  /\ Len(items) < PageSize => from + Len(items) >= Cardinality(Found(text))

Write(id, row) ==
  /\ writes < MaxWrites
  /\ writes' = writes + 1
  /\ rows' = [rows EXCEPT ![id] = row]

NextId == IF Used = {} THEN 1 ELSE 1 + CHOOSE i \in Used : \A k \in Used : k <= i

Insert ==
  /\ NextId \in Ids
  /\ Write(NextId, [id |-> NextId, born |-> writes + 1, version |-> 1,
                    external |-> Typed, note |-> Typed])

\* Of a request that names a row and the version of it that was shown.
Matches(row) == rows[row.id] # NoRow /\ rows[row.id].version = row.version

\* An UPDATE: whatever it sets, the version goes up.
Update(id, external, note) ==
  Write(id, [rows[id] EXCEPT !.external = external, !.note = note, !.version = @ + 1])

Served(i, status, data) ==
  calls' = [calls EXCEPT ![i] =
              [stage |-> "answered", kind |-> @.kind, status |-> status, data |-> data]]

Sent(i, kinds) == Stage(i) = "sent" /\ calls[i].kind \in kinds

\* bootstrap(), login() and logout() change nothing the page shows.
ServeSession(i) ==
  /\ Sent(i, {"session", "login", "logout"})
  /\ Served(i, "ok", 0)
  /\ UNCHANGED <<page, rows, writes>>

ServeLoad(i) ==
  /\ Sent(i, {"load"})
  /\ LET text == calls[i].search IN
     \E n \in 0 .. PageSize : \E items \in [1 .. n -> {rows[k] : k \in Found(text)}] :
       /\ IsPage(items, text, calls[i].offset)
       /\ Served(i, "ok", [items |-> items, total |-> Cardinality(Found(text))])
  /\ UNCHANGED <<page, rows, writes>>

ServeCreate(i) ==
  /\ Sent(i, {"create"})
  /\ Insert
  /\ Served(i, "ok", 0)
  /\ UNCHANGED page

\* A field that the body does not name keeps its value.
ServeSave(i) ==
  LET c == calls[i] IN
  /\ Sent(i, {"save"})
  /\ Matches(c.row)
  /\ Update(c.row.id,
            IF "external" \in c.named THEN c.form.external ELSE rows[c.row.id].external,
            IF "note" \in c.named THEN c.form.note ELSE rows[c.row.id].note)
  /\ Served(i, "ok", 0)
  /\ UNCHANGED page

\* A test writes its verdict, which raises the version, whether or not it passes.
ServeCredential(i) ==
  LET row == calls[i].row IN
  /\ Sent(i, {"credential"})
  /\ Matches(row)
  /\ Update(row.id, rows[row.id].external, rows[row.id].note)
  /\ \E status \in {"ok", "error"} : Served(i, status, 0)
  /\ UNCHANGED page

ServeDelete(i) ==
  /\ Sent(i, {"delete"})
  /\ Matches(calls[i].row)
  /\ Write(calls[i].row.id, NoRow)
  /\ Served(i, "ok", 0)
  /\ UNCHANGED page

\* AuthenticationError: the session is over.
Unauthenticated(i) ==
  /\ Sent(i, Kinds \ {"login"})
  /\ Served(i, "401", 0)
  /\ UNCHANGED <<page, rows, writes>>

\* The service refuses a call for another reason (wrong password, 403, 409, 422, 429,
\* 5xx) and does nothing, or the connection breaks before or after it did its part.
Fails(i) ==
  /\ Stage(i) \in {"sent", "answered"}
  /\ Served(i, "error", 0)
  /\ UNCHANGED <<page, rows, writes>>

\* Another administrator, or another tab of this one, writes.
WrittenElsewhere ==
  /\ \/ Insert
     \/ \E id \in Used :
          \/ Write(id, NoRow)
          \/ \E t \in Texts : Update(id, t, rows[id].note) \/ Update(id, rows[id].external, t)
  /\ UNCHANGED <<page, calls>>

-------------------------------------------------------------------------------
(* The page. *)

FreeSlots == {i \in Slots : Stage(i) = "none"}

\* A bound: one slot is kept for the load of the list.
Room == Cardinality({i \in Slots : Stage(i) # "none" /\ calls[i].kind # "load"}) + 1 < Cardinality(Slots)

Request(kind) == [stage |-> "sent", kind |-> kind]

Send(request) ==
  /\ Room
  /\ \E i \in FreeSlots : calls' = [calls EXCEPT ![i] = request]

\* showLogin
ShowLogin ==
  /\ view' = "login"
  /\ list' = <<>>
  /\ search' = NoSearch
  /\ offset' = 0
  /\ total' = Unknown
  /\ dialog' = NoRow
  /\ UNCHANGED nextOn

\* Mutant: a second load may be sent.
LoadBindingsUnguarded(caller) ==
  /\ \E i \in FreeSlots :
       calls' = [k \in Slots |->
                   IF k \in caller THEN [stage |-> "reloading", kind |-> calls[k].kind]
                   ELSE IF k = i
                   THEN [stage |-> "sent", kind |-> "load", search |-> search', offset |-> offset']
                   ELSE calls[k]]
  /\ loading' = TRUE
  /\ prevOn' = FALSE
  /\ nextOn' = FALSE

\* loadBindings up to its await, at the end of the step: for the caller whose call
\* is in the slot and who awaits it (none: a handler, which does not).  A load that is
\* under way makes it return at once.
LoadBindings(caller) ==
  IF loading
  THEN /\ calls' = [k \in Slots |-> IF k \in caller THEN NoCall ELSE calls[k]]
       /\ UNCHANGED <<loading, prevOn, nextOn>>
  ELSE /\ \E i \in FreeSlots :
            calls' = [k \in Slots |->
                        IF k \in caller THEN [stage |-> "reloading", kind |-> calls[k].kind]
                        ELSE IF k = i
                        THEN [stage |-> "sent", kind |-> "load",
                              search |-> search', offset |-> offset']
                        ELSE calls[k]]
       /\ loading' = TRUE
       /\ prevOn' = FALSE
       /\ nextOn' = FALSE

\* Mutant: the flag is reset when the load went well.
FinishOnSuccess(i) ==
  /\ calls' = [k \in Slots |->
                 IF k = i \/ (calls[i].kind = "load" /\ Stage(k) = "reloading")
                 THEN NoCall ELSE calls[k]]
  /\ loading' = (loading /\ ~(calls[i].kind = "load" /\ calls[i].status = "ok"))
  /\ prevOn' = IF calls[i].kind = "load" THEN offset' > 0 ELSE prevOn

\* A call ends; with the load, those that awaited it, and the list is not busy any
\* more (setListBusy goes by the offset of that moment for the previous button and
\* leaves the next one as it is).
Finish(i) ==
  /\ calls' = [k \in Slots |->
                 IF k = i \/ (calls[i].kind = "load" /\ Stage(k) = "reloading")
                 THEN NoCall ELSE calls[k]]
  /\ loading' = (loading /\ calls[i].kind # "load")
  /\ prevOn' = IF calls[i].kind = "load" THEN offset' > 0 ELSE prevOn

\* renderBindings: whether the next button is enabled beside these rows.
More(items, count) ==
  IF count = Unknown THEN Len(items) >= PageSize ELSE offset + Len(items) < count

-------------------------------------------------------------------------------

Bootstrapping(first) == [i \in Slots |-> IF i = first THEN Request("session") ELSE NoCall]

Init ==
  /\ view = "start"
  /\ list = <<>>
  /\ search = NoSearch
  /\ offset = 0
  /\ total = Unknown
  /\ loading = FALSE
  /\ prevOn = FALSE
  /\ nextOn = FALSE
  /\ dialog = NoRow
  /\ rows = [i \in Ids |-> [id |-> i, born |-> 0, version |-> 1,
                            external |-> Typed, note |-> Typed]]
  /\ writes = 0
  /\ \E first \in Slots : calls = Bootstrapping(first)

\* A reload of the page: what was awaited is gone (what its calls still do at the
\* service is done elsewhere), and bootstrap() asks for the session.
Reload ==
  /\ view # "start"
  /\ view' = "start"
  /\ list' = <<>>
  /\ search' = NoSearch
  /\ offset' = 0
  /\ total' = Unknown
  /\ loading' = FALSE
  /\ prevOn' = FALSE
  /\ nextOn' = FALSE
  /\ dialog' = NoRow
  /\ \E first \in Slots : calls' = Bootstrapping(first)
  /\ UNCHANGED <<rows, writes>>

Login ==
  /\ view = "login"
  /\ ~Pending("login")
  /\ Send(Request("login"))
  /\ UNCHANGED <<page, rows, writes>>

Logout ==
  /\ view = "admin" /\ dialog = NoRow
  /\ ~Pending("logout")
  /\ Send(Request("logout"))
  /\ UNCHANGED <<page, rows, writes>>

CreateBinding ==
  /\ view = "admin" /\ dialog = NoRow
  /\ ~Pending("create")
  /\ Send(Request("create"))
  /\ UNCHANGED <<page, rows, writes>>

\* setLanguage draws the list that is there again, whether or not a load is under way,
\* and with it the paging buttons, by the offset and the total of the moment.
SetLanguage ==
  /\ view = "admin" /\ dialog = NoRow
  /\ prevOn' = (offset > 0)
  /\ nextOn' = More(list, total)
  /\ UNCHANGED <<view, list, search, offset, total, loading, dialog, calls, rows, writes>>

\* The handlers that show another part of the list.  None asks whether a load is under
\* way: the search and its clearing are never disabled, the reload button is meanwhile,
\* and so are the paging buttons until a change of the language draws them again.
ShowPart(text, from) ==
  /\ view = "admin" /\ dialog = NoRow
  /\ search' = text
  /\ offset' = from
  /\ UNCHANGED <<view, list, total, dialog, rows, writes>>
  /\ LoadBindings({})

Search == \E text \in Sought \cup {NoSearch} : ShowPart(text, 0)
PreviousPage == prevOn /\ ShowPart(search, IF offset > PageSize THEN offset - PageSize ELSE 0)
NextPage == nextOn /\ offset + PageSize <= MaxOffset /\ ShowPart(search, offset + PageSize)
ReloadList == ~loading /\ ShowPart(search, offset)

Shown(id) == {list[n] : n \in {k \in DOMAIN list : list[k].id = id}}

\* openEditDialog: a modal dialog, filled with the row as the list shows it.
OpenEditDialog ==
  /\ view = "admin" /\ dialog = NoRow
  /\ \E n \in DOMAIN list : dialog' = list[n]
  /\ UNCHANGED <<view, list, search, offset, total, loading, prevOn, nextOn,
                 calls, rows, writes>>

CloseEditDialog ==
  /\ dialog # NoRow
  /\ dialog' = NoRow
  /\ UNCHANGED <<view, list, search, offset, total, loading, prevOn, nextOn,
                 calls, rows, writes>>

\* Mutant: the version is taken from the list.
SaveBindingAtListedVersion ==
  /\ dialog # NoRow
  /\ ~Pending("save")
  /\ \E base \in Shown(dialog.id), form \in Form :
       Send([stage |-> "sent", kind |-> "save",
             row |-> [dialog EXCEPT !.version = base.version], form |-> form,
             named |-> {f \in {"external", "note"} : form[f] # base[f]}])
  /\ UNCHANGED <<page, rows, writes>>

\* saveBinding up to its await.  The body names the fields in which the form differs
\* from the row that is listed now, and the version the dialog was opened with.  With
\* nothing to name there is a call only if a new JWT was typed, and else the dialog
\* closes (CloseEditDialog).
SaveBinding ==
  /\ dialog # NoRow
  /\ ~Pending("save")
  /\ \E base \in Shown(dialog.id), form \in Form :
       Send([stage |-> "sent", kind |-> "save", row |-> dialog, form |-> form,
             named |-> {f \in {"external", "note"} : form[f] # base[f]}])
  /\ UNCHANGED <<page, rows, writes>>

\* testBinding, replaceCredential and deleteBinding up to their await.  The button that
\* was pressed is disabled meanwhile, but not the one a new drawing of the list puts in
\* its place: the same row may be acted on twice.
RowAction(kind) ==
  /\ view = "admin" /\ dialog = NoRow
  /\ \E n \in DOMAIN list : Send([stage |-> "sent", kind |-> kind, row |-> list[n]])
  /\ UNCHANGED <<page, rows, writes>>

-------------------------------------------------------------------------------
(* What follows an answer. *)

Answered(i, kinds, status) ==
  Stage(i) = "answered" /\ calls[i].kind \in kinds /\ calls[i].status = status

\* bootstrap() and login(): the view opens with an empty list and loads it.
SignedIn(i) ==
  /\ Answered(i, {"session", "login"}, "ok")
  /\ view' = "admin"
  /\ UNCHANGED <<list, search, offset, total, dialog, rows, writes>>
  /\ LoadBindings({i})

SignedOut(i) ==
  /\ Answered(i, {"logout"}, "ok")
  /\ ShowLogin
  /\ Finish(i)
  /\ UNCHANGED <<rows, writes>>

Created(i) ==
  /\ Answered(i, {"create"}, "ok")
  /\ offset' = 0
  /\ UNCHANGED <<view, list, search, total, dialog, rows, writes>>
  /\ LoadBindings({i})

\* Whichever dialog is open by now is closed.
Saved(i) ==
  /\ Answered(i, {"save"}, "ok")
  /\ dialog' = NoRow
  /\ UNCHANGED <<view, list, search, offset, total, rows, writes>>
  /\ LoadBindings({i})

\* Mutant: deleteBinding goes back a page from the first one, too.
RowActionDoneGoingBack(i) ==
  /\ Answered(i, RowKinds, "ok")
  /\ offset' = IF calls[i].kind = "delete" /\ Len(list) = 1 THEN offset - PageSize ELSE offset
  /\ UNCHANGED <<view, list, search, total, dialog, rows, writes>>
  /\ LoadBindings({i})

\* deleteBinding goes back a page when the row was the only one on screen.
RowActionDone(i) ==
  /\ Answered(i, RowKinds, "ok")
  /\ offset' = IF calls[i].kind = "delete" /\ offset > 0 /\ Len(list) = 1
               THEN IF offset > PageSize THEN offset - PageSize ELSE 0
               ELSE offset
  /\ UNCHANGED <<view, list, search, total, dialog, rows, writes>>
  /\ LoadBindings({i})

\* renderBindings, with the offset as it is now; a body that breaks off has no rows
\* and no total.
Loaded(i) ==
  /\ Answered(i, {"load"}, "ok")
  /\ \E data \in {calls[i].data, [items |-> <<>>, total |-> Unknown]} :
       /\ list' = data.items
       /\ total' = data.total
       /\ nextOn' = More(data.items, data.total)
  /\ UNCHANGED <<view, search, offset, dialog, rows, writes>>
  /\ Finish(i)

\* api() closes the view on any 401.
LoggedOut(i) ==
  /\ Answered(i, Kinds, "401")
  /\ ShowLogin
  /\ Finish(i)
  /\ UNCHANGED <<rows, writes>>

\* A notice, and the buttons come back; bootstrap() shows the login.
ErrorShown(i) ==
  /\ Answered(i, Kinds, "error")
  /\ IF calls[i].kind = "session" THEN ShowLogin
     ELSE UNCHANGED <<view, list, search, offset, total, nextOn, dialog>>
  /\ Finish(i)
  /\ UNCHANGED <<rows, writes>>

Serve(i) ==
  \/ ServeSession(i) \/ ServeLoad(i) \/ ServeCreate(i)
  \/ ServeSave(i) \/ ServeCredential(i) \/ ServeDelete(i)
  \/ Unauthenticated(i) \/ Fails(i)

Handle(i) ==
  \/ SignedIn(i) \/ SignedOut(i) \/ Created(i) \/ Saved(i) \/ RowActionDone(i)
  \/ Loaded(i) \/ LoggedOut(i) \/ ErrorShown(i)

Next ==
  \/ Reload \/ Login \/ Logout \/ CreateBinding
  \/ SetLanguage \/ Search \/ PreviousPage \/ NextPage \/ ReloadList
  \/ OpenEditDialog \/ CloseEditDialog \/ SaveBinding
  \/ \E kind \in RowKinds : RowAction(kind)
  \/ \E i \in Slots : Serve(i) \/ Handle(i)
  \/ WrittenElsewhere

Spec == Init /\ [][Next]_vars

-------------------------------------------------------------------------------

Content(row) == [external |-> row.external, note |-> row.note]

\* A call for a row that the service accepts finds the row as the administrator saw it:
\* a save was typed over what the row holds and leaves it as the form shows it, although
\* the list may have been reloaded, the dialog opened again and the row written by others
\* meanwhile.  This is said of a row that is still the one that was shown (its born):
\* where it was deleted and its id given to another one, such a call may well be accepted
\* (the run bindings_reuse).
ActsOnWhatWasShown ==
  [][\A i \in Slots :
       LET c == calls[i] IN
       /\ Sent(i, {"save"} \cup RowKinds)
       /\ rows' # rows /\ calls'[i] # c
       /\ rows[c.row.id].born = c.row.born
       => /\ Content(rows[c.row.id]) = Content(c.row)
          /\ c.kind = "save" => Content(rows'[c.row.id]) = c.form]_vars

\* The list never goes back behind what was shown before: the row behind the open dialog
\* is listed as it was when it was opened or as it is after later writes.  saveBinding
\* rests on it when it compares the form with the listed row.
DialogNeverAhead ==
  dialog # NoRow =>
    \A row \in Shown(dialog.id) :
      row.born = dialog.born =>
        row = dialog \/ row.version > dialog.version

\* new is the row old, or a later state of it or of a row that got its id later.
NotBehind(old, new) ==
  \/ old.born < new.born
  \/ old.born = new.born /\ (new = old \/ old.version < new.version)

\* No load, however late its answer, takes a row on screen back to a state from before
\* the one that is listed: a row that stays listed stays as it is or becomes newer,
\* whatever was clicked, saved, written elsewhere or signed out of while it was under way.
ListNeverGoesBack ==
  [][\A m \in DOMAIN list, n \in DOMAIN list' :
       list[m].id = list'[n].id => NotBehind(list[m], list'[n])]_vars

\* The list is busy exactly while a load is under way, whatever becomes of it, and
\* only then does a caller wait for it with its button disabled: no late answer, no
\* 401 and no logout leaves the list busy for good.
BusyOnlyWhileLoading ==
  /\ loading <=> Pending("load")
  /\ \A i \in Slots : Stage(i) = "reloading" => loading
===============================================================================
