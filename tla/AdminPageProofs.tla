---------------------------- MODULE AdminPageProofs ----------------------------
(* TLAPS proofs about AdminPage, for any texts, page size, calls and writes.     *)
EXTENDS AdminPage, FiniteSetTheorems, TLAPS

-------------------------------------------------------------------------------
(* First the calls and the flag of the list.                                     *)

NotLoads == Kinds \ {"load"}

\* calls is a table of calls; at most one is a load, and those that await it are none.
OneLoad ==
  /\ calls = [i \in Slots |-> calls[i]]
  /\ \A i \in Slots : Stage(i) \in {"none", "sent", "answered", "reloading"}
  /\ \A i \in Slots : Stage(i) \in {"sent", "answered"} => calls[i].kind \in Kinds
  /\ \A i \in Slots : Stage(i) = "reloading" => calls[i].kind \in NotLoads
  /\ \A i, j \in Slots :
       Stage(i) # "none" /\ calls[i].kind = "load" /\ Stage(j) # "none" /\ calls[j].kind = "load"
       => i = j

CallsInv == OneLoad /\ BusyOnlyWhileLoading

\* The shapes of a step, as far as they concern the calls.
Sends ==
  /\ \E i \in FreeSlots : \E request :
       /\ calls' = [calls EXCEPT ![i] = request]
       /\ request.stage = "sent" /\ request.kind \in NotLoads
  /\ UNCHANGED loading

Serves ==
  /\ \E i \in Slots : \E status, data :
       Serve(i) /\ Stage(i) \in {"sent", "answered"} /\ Served(i, status, data)
  /\ UNCHANGED loading

Reloads ==
  \E caller \in SUBSET Slots :
    /\ \A i \in caller : Stage(i) = "answered" /\ calls[i].kind \in NotLoads
    /\ LoadBindings(caller)

Finishes == \E i \in Slots : Stage(i) = "answered" /\ Finish(i)

Restarts == loading' = FALSE /\ \E first \in Slots : calls' = Bootstrapping(first)

LEMMA SendSends ==
  ASSUME NEW request, request.stage = "sent", request.kind \in NotLoads,
         Send(request), UNCHANGED loading
  PROVE  Sends
BY DEF Send, Sends

LEMMA ServedServes ==
  ASSUME NEW i \in Slots, NEW status, NEW data, Serve(i), Stage(i) \in {"sent", "answered"},
         Served(i, status, data), UNCHANGED loading
  PROVE  Serves
BY DEF Serves

LEMMA Shapes ==
  ASSUME Next
  PROVE  Sends \/ Serves \/ Reloads \/ Finishes \/ Restarts \/ UNCHANGED <<calls, loading>>
<1> USE DEF Kinds, RowKinds, NotLoads
<1>1. CASE Reload
  BY <1>1 DEF Reload, Restarts
<1>2. CASE Login \/ Logout \/ CreateBinding
  <2>1. PICK kind \in {"login", "logout", "create"} : Send(Request(kind))
    BY <1>2 DEF Login, Logout, CreateBinding
  <2>2. UNCHANGED loading
    BY <1>2 DEF Login, Logout, CreateBinding, page
  <2>3. Request(kind).stage = "sent" /\ Request(kind).kind \in NotLoads
    BY DEF Request
  <2> QED  BY <2>1, <2>2, <2>3, SendSends
<1>3. CASE Search \/ PreviousPage \/ NextPage \/ ReloadList
  <2>1. LoadBindings({})
    BY <1>3 DEF Search, PreviousPage, NextPage, ReloadList, ShowPart
  <2> QED  BY <2>1 DEF Reloads
<1>4. CASE SetLanguage \/ OpenEditDialog \/ CloseEditDialog
  BY <1>4 DEF SetLanguage, OpenEditDialog, CloseEditDialog
<1>5. CASE SaveBinding
  <2>1. PICK base \in Shown(dialog.id), form \in Form :
          Send([stage |-> "sent", kind |-> "save", row |-> dialog, form |-> form,
                named |-> {f \in {"external", "note"} : form[f] # base[f]}])
    BY <1>5 DEF SaveBinding
  <2>2. UNCHANGED loading
    BY <1>5 DEF SaveBinding, page
  <2> DEFINE request == [stage |-> "sent", kind |-> "save", row |-> dialog, form |-> form,
                         named |-> {f \in {"external", "note"} : form[f] # base[f]}]
  <2>3. request.stage = "sent" /\ request.kind \in NotLoads
    OBVIOUS
  <2>4. Send(request)
    BY <2>1
  <2> HIDE DEF request
  <2> QED  BY <2>2, <2>3, <2>4, SendSends
<1>6. ASSUME NEW kind \in RowKinds, RowAction(kind) PROVE Sends
  <2>1. PICK n \in DOMAIN list : Send([stage |-> "sent", kind |-> kind, row |-> list[n]])
    BY <1>6 DEF RowAction
  <2>2. UNCHANGED loading
    BY <1>6 DEF RowAction, page
  <2> DEFINE request == [stage |-> "sent", kind |-> kind, row |-> list[n]]
  <2>3. request.stage = "sent" /\ request.kind \in NotLoads
    OBVIOUS
  <2>4. Send(request)
    BY <2>1
  <2> HIDE DEF request
  <2> QED  BY <2>2, <2>3, <2>4, SendSends
<1>7. ASSUME NEW i \in Slots, Serve(i) PROVE Serves
  <2>1. UNCHANGED loading /\ Stage(i) \in {"sent", "answered"}
    BY <1>7 DEF Serve, ServeSession, ServeLoad, ServeCreate, ServeSave, ServeCredential,
                ServeDelete, Unauthenticated, Fails, Sent, page
  <2>2. \E status, data : Served(i, status, data)
    <3>1. CASE ServeLoad(i)
      BY <3>1 DEF ServeLoad
    <3>2. CASE ServeCredential(i)
      BY <3>2 DEF ServeCredential
    <3>3. CASE ServeSession(i) \/ ServeCreate(i) \/ ServeSave(i) \/ ServeDelete(i)
      BY <3>3 DEF ServeSession, ServeCreate, ServeSave, ServeDelete
    <3>4. CASE Unauthenticated(i) \/ Fails(i)
      BY <3>4 DEF Unauthenticated, Fails
    <3> QED  BY <1>7, <3>1, <3>2, <3>3, <3>4 DEF Serve
  <2> QED  BY <1>7, <2>1, <2>2, ServedServes
<1>8. ASSUME NEW i \in Slots, Handle(i) PROVE Reloads \/ Finishes
  <2>1. CASE SignedIn(i) \/ Created(i) \/ Saved(i) \/ RowActionDone(i)
    <3>1. Stage(i) = "answered" /\ calls[i].kind \in NotLoads /\ LoadBindings({i})
      BY <2>1 DEF SignedIn, Created, Saved, RowActionDone, Answered
    <3> QED  BY <3>1 DEF Reloads
  <2>2. CASE SignedOut(i) \/ Loaded(i) \/ LoggedOut(i) \/ ErrorShown(i)
    BY <2>2 DEF SignedOut, Loaded, LoggedOut, ErrorShown, Answered, Finishes
  <2> QED  BY <1>8, <2>1, <2>2 DEF Handle
<1>9. CASE WrittenElsewhere
  BY <1>9 DEF WrittenElsewhere, page
<1> QED
  BY <1>1, <1>2, <1>3, <1>4, <1>5, <1>6, <1>7, <1>8, <1>9 DEF Next

LEMMA CallsInitially == Init => CallsInv
BY DEF Init, CallsInv, OneLoad, BusyOnlyWhileLoading, Pending, Stage, Bootstrapping, Request,
       NoCall, Kinds

LEMMA CallsKept == CallsInv /\ [Next]_vars => CallsInv'
<1> SUFFICES ASSUME CallsInv, [Next]_vars PROVE CallsInv'
  OBVIOUS
<1> USE DEF CallsInv, OneLoad, BusyOnlyWhileLoading, Pending, Stage, Kinds, RowKinds, NotLoads
<1>1. CASE Sends
  BY <1>1 DEF Sends, FreeSlots
<1>2. CASE Serves
  BY <1>2 DEF Serves, Served
<1>3. CASE Reloads
  <2>1. PICK caller \in SUBSET Slots :
          /\ \A i \in caller : Stage(i) = "answered" /\ calls[i].kind \in NotLoads
          /\ LoadBindings(caller)
    BY <1>3 DEF Reloads
  <2>2. CASE loading
    <3>1. calls' = [k \in Slots |-> IF k \in caller THEN NoCall ELSE calls[k]] /\ loading' = loading
      BY <2>1, <2>2 DEF LoadBindings
    <3> QED  BY <2>1, <2>2, <3>1 DEF NoCall
  <2>3. CASE ~loading
    <3>1. PICK i \in FreeSlots :
            calls' = [k \in Slots |->
                        IF k \in caller THEN [stage |-> "reloading", kind |-> calls[k].kind]
                        ELSE IF k = i
                        THEN [stage |-> "sent", kind |-> "load", search |-> search', offset |-> offset']
                        ELSE calls[k]]
      BY <2>1, <2>3 DEF LoadBindings
    <3>2. loading' = TRUE
      BY <2>1, <2>3 DEF LoadBindings
    <3>3. i \in Slots /\ i \notin caller /\ \A k \in Slots : ~(Stage(k) # "none" /\ calls[k].kind = "load")
      BY <2>1, <2>3 DEF FreeSlots
    <3>4. OneLoad'
      BY <2>1, <3>1, <3>3
    <3>5. BusyOnlyWhileLoading'
      BY <2>1, <3>1, <3>2, <3>3
    <3> QED  BY <3>4, <3>5
  <2> QED  BY <2>2, <2>3
<1>4. CASE Finishes
  <2>1. PICK i \in Slots : Stage(i) = "answered" /\ Finish(i)
    BY <1>4 DEF Finishes
  <2>2. CASE calls[i].kind = "load"
    <3>1. calls' = [k \in Slots |-> IF k = i \/ Stage(k) = "reloading" THEN NoCall ELSE calls[k]]
      BY <2>1, <2>2 DEF Finish
    <3>2. loading' = FALSE
      BY <2>1, <2>2 DEF Finish
    <3> QED  BY <2>1, <2>2, <3>1, <3>2 DEF NoCall
  <2>3. CASE calls[i].kind # "load"
    <3>1. calls' = [k \in Slots |-> IF k = i THEN NoCall ELSE calls[k]]
      BY <2>1, <2>3 DEF Finish
    <3>2. loading' <=> loading
      BY <2>1, <2>3 DEF Finish
    <3> QED  BY <2>1, <2>3, <3>1, <3>2 DEF NoCall
  <2> QED  BY <2>2, <2>3
<1>5. CASE Restarts
  BY <1>5 DEF Restarts, Bootstrapping, Request, NoCall
<1>6. CASE UNCHANGED <<calls, loading>>
  BY <1>6
<1> QED  BY <1>1, <1>2, <1>3, <1>4, <1>5, <1>6, Shapes DEF vars

-------------------------------------------------------------------------------
(* Then what the page knows of the table.                                        *)

AnyRow == [id : Ids, born : Nat, version : Nat, external : Texts, note : Texts]

\* A row that was read from the table once.
Known(r, table, count) ==
  /\ r \in AnyRow /\ r.born <= count /\ r.version \in 1 .. count + 1
  /\ table[r.id] # NoRow => NotBehind(r, table[r.id])

\* What is listed, and shown in the dialog, is not behind a row that is to be listed.
Behind(s, theList, theDialog) ==
  /\ theDialog # NoRow /\ theDialog.id = s.id => NotBehind(theDialog, s)
  /\ \A n \in DOMAIN theList : theList[n].id = s.id => NotBehind(theList[n], s)

\* The answer to a load lists an id once, as far as it matters: never two rows under it.
Uniform(items) == \A m, n \in DOMAIN items : items[m].id = items[n].id => items[m] = items[n]

\* A save names every field in which the form differs from the row it was typed over,
\* if that row is still current.
Typing(c, table) ==
  /\ c.form \in Form
  /\ table[c.row.id] = c.row =>
       /\ "external" \in c.named \/ c.form.external = c.row.external
       /\ "note" \in c.named \/ c.form.note = c.row.note

CallKnows(c, table, count, theList, theDialog) ==
  /\ c.stage = "sent" /\ c.kind \in {"save"} \cup RowKinds => Known(c.row, table, count)
  /\ c.stage = "sent" /\ c.kind = "save" => Typing(c, table)
  /\ c.stage = "answered" /\ c.kind = "load" /\ c.status = "ok" =>
       /\ c.data.items \in Seq(AnyRow) /\ Uniform(c.data.items)
       /\ \A n \in DOMAIN c.data.items :
            Known(c.data.items[n], table, count) /\ Behind(c.data.items[n], theList, theDialog)

TableInv ==
  /\ writes \in 0 .. MaxWrites
  /\ rows \in [Ids -> AnyRow \cup {NoRow}]
  /\ \A i \in Ids : rows[i] # NoRow =>
       rows[i].id = i /\ rows[i].born <= writes /\ rows[i].version \in 1 .. writes + 1

PageKnows ==
  /\ list \in Seq(AnyRow) /\ Uniform(list)
  /\ \A n \in DOMAIN list : Known(list[n], rows, writes)
  /\ dialog # NoRow => Known(dialog, rows, writes)
  /\ \A n \in DOMAIN list : dialog # NoRow /\ list[n].id = dialog.id => NotBehind(dialog, list[n])

CallsKnow == \A i \in Slots : CallKnows(calls[i], rows, writes, list, dialog)

KnowledgeInv == TableInv /\ PageKnows /\ CallsKnow

LEMMA KnowledgeInitially == Init => KnowledgeInv
<1> SUFFICES ASSUME Init PROVE KnowledgeInv
  OBVIOUS
<1>1. TableInv
  <2>1. Typed \in Texts
    BY AdminPageAssumption DEF Typed
  <2> QED  BY <2>1, AdminPageAssumption DEF Init, TableInv, AnyRow
<1>2. PageKnows
  BY DEF Init, PageKnows, Uniform, NoRow
<1>3. CallsKnow
  BY DEF Init, CallsKnow, CallKnows, Bootstrapping, Request, NoCall, RowKinds
<1> QED  BY <1>1, <1>2, <1>3 DEF KnowledgeInv

\* A write to the table.
Written(id, r) ==
  /\ writes < MaxWrites /\ writes' = writes + 1
  /\ rows' = [rows EXCEPT ![id] = r]
  /\ \/ r = NoRow
     \/ /\ r \in AnyRow /\ r.id = id
        /\ \/ r.born = writes + 1 /\ r.version = 1
           \/ rows[id] # NoRow /\ r.born = rows[id].born /\ r.version = rows[id].version + 1

TableStep == UNCHANGED <<rows, writes>> \/ \E id \in Ids : \E r : Written(id, r)

LEMMA TableKept == ASSUME TableInv, TableStep PROVE TableInv'
<1> USE DEF TableInv, AnyRow, NoRow, Ids
<1>1. CASE UNCHANGED <<rows, writes>>
  BY <1>1
<1>2. ASSUME NEW id \in Ids, NEW r, Written(id, r) PROVE TableInv'
  <2>1. writes' \in 0 .. MaxWrites /\ writes' = writes + 1
    BY <1>2, AdminPageAssumption DEF Written
  <2>2. rows' \in [Ids -> AnyRow \cup {NoRow}]
    BY <1>2 DEF Written
  <2>3. ASSUME NEW i \in Ids, rows'[i] # NoRow
        PROVE  rows'[i].id = i /\ rows'[i].born <= writes' /\ rows'[i].version \in 1 .. writes' + 1
    <3>1. CASE i # id
      BY <1>2, <2>1, <2>3, <3>1 DEF Written
    <3>2. CASE i = id
      BY <1>2, <2>1, <2>3, <3>2 DEF Written
    <3> QED  BY <3>1, <3>2
  <2> QED  BY <2>1, <2>2, <2>3
<1> QED  BY <1>1, <1>2 DEF TableStep

\* A row that was read stays read, and does not become current again.
LEMMA KnownStays ==
  ASSUME TableInv, TableStep, NEW r, Known(r, rows, writes)
  PROVE  /\ Known(r, rows', writes')
         /\ rows'[r.id] = r => rows[r.id] = r
<1> USE DEF TableInv, Known, NotBehind, AnyRow, NoRow, Ids
<1>1. CASE UNCHANGED <<rows, writes>>
  BY <1>1
<1>2. ASSUME NEW id \in Ids, NEW s, Written(id, s)
      PROVE  Known(r, rows', writes') /\ (rows'[r.id] = r => rows[r.id] = r)
  <2>1. CASE id # r.id
    BY <1>2, <2>1 DEF Written
  <2>2. CASE id = r.id /\ s = NoRow
    BY <1>2, <2>2 DEF Written
  <2>3. CASE id = r.id /\ s # NoRow /\ s.born = writes + 1 /\ s.version = 1
    BY <1>2, <2>3 DEF Written
  <2>4. CASE id = r.id /\ s # NoRow /\ rows[id] # NoRow /\ s.born = rows[id].born
             /\ s.version = rows[id].version + 1
    BY <1>2, <2>4 DEF Written
  <2> QED  BY <1>2, <2>1, <2>2, <2>3, <2>4 DEF Written
<1> QED  BY <1>1, <1>2 DEF TableStep

LEMMA CallStillKnows ==
  ASSUME TableInv, TableStep, NEW c, NEW l, NEW d, CallKnows(c, rows, writes, l, d)
  PROVE  CallKnows(c, rows', writes', l, d)
<1>1. \A r : Known(r, rows, writes) =>
        Known(r, rows', writes') /\ (rows'[r.id] = r => rows[r.id] = r)
  BY KnownStays
<1> QED  BY <1>1 DEF CallKnows, Typing

\* Two rows of which each is not behind the other are one.
LEMMA Antisymmetric ==
  ASSUME NEW r \in AnyRow, NEW s \in AnyRow, NotBehind(r, s), NotBehind(s, r) PROVE r = s
BY DEF NotBehind, AnyRow

LEMMA InsertWrites ==
  ASSUME TableInv, Insert PROVE TableStep
<1> DEFINE row == [id |-> NextId, born |-> writes + 1, version |-> 1,
                   external |-> Typed, note |-> Typed]
<1>1. Typed \in Texts
  BY AdminPageAssumption DEF Typed
<1>2. NextId \in Ids /\ Write(NextId, row)
  BY DEF Insert
<1>3. row \in AnyRow /\ row.id = NextId /\ row.born = writes + 1 /\ row.version = 1
  BY <1>1, <1>2 DEF AnyRow, TableInv
<1> HIDE DEF row
<1>4. Written(NextId, row)
  BY <1>2, <1>3 DEF Write, Written
<1> QED  BY <1>2, <1>4 DEF TableStep

LEMMA UpdateWrites ==
  ASSUME TableInv, NEW id \in Ids, rows[id] # NoRow, NEW external \in Texts, NEW note \in Texts,
         Update(id, external, note)
  PROVE  TableStep
<1> DEFINE row == [rows[id] EXCEPT !.external = external, !.note = note, !.version = @ + 1]
<1>1. rows[id] \in AnyRow /\ rows[id].id = id
  BY DEF TableInv
<1>2. ASSUME NEW old \in AnyRow,
             NEW new, new = [old EXCEPT !.external = external, !.note = note, !.version = @ + 1]
      PROVE  new \in AnyRow /\ new.id = old.id /\ new.born = old.born /\ new.version = old.version + 1
  <2>1. new = [id |-> old.id, born |-> old.born, version |-> old.version + 1,
               external |-> external, note |-> note]
    BY <1>2 DEF AnyRow
  <2> QED  BY <2>1 DEF AnyRow
<1>3. Write(id, row)
  BY DEF Update
<1>4. /\ row \in AnyRow /\ row.id = id /\ row.born = rows[id].born
      /\ row.version = rows[id].version + 1
  BY <1>1, <1>2
<1> HIDE DEF row
<1>5. Written(id, row)
  BY <1>3, <1>4 DEF Write, Written
<1> QED  BY <1>5 DEF TableStep

LEMMA DeleteWrites ==
  ASSUME NEW id \in Ids, Write(id, NoRow) PROVE TableStep
BY DEF Write, Written, TableStep

LEMMA StepsWrite == KnowledgeInv /\ Next => TableStep
<1> SUFFICES ASSUME KnowledgeInv, Next PROVE TableStep
  OBVIOUS
<1>1. ASSUME NEW i \in Slots, Serve(i) PROVE TableStep
  <2>1. CASE ServeSession(i) \/ ServeLoad(i) \/ Unauthenticated(i) \/ Fails(i)
    BY <2>1 DEF ServeSession, ServeLoad, Unauthenticated, Fails, TableStep
  <2>2. CASE ServeCreate(i)
    BY <2>2, InsertWrites DEF ServeCreate, KnowledgeInv
  <2> SUFFICES ASSUME ServeSave(i) \/ ServeCredential(i) \/ ServeDelete(i) PROVE TableStep
    BY <1>1, <2>1, <2>2 DEF Serve
  <2> DEFINE c == calls[i]
  <2>3. Known(c.row, rows, writes) /\ rows[c.row.id] # NoRow
    BY DEF ServeSave, ServeCredential, ServeDelete, Sent, Stage, Matches, KnowledgeInv, CallsKnow,
           CallKnows, RowKinds
  <2>4. c.row.id \in Ids
    BY <2>3 DEF Known, AnyRow
  <2>5. rows[c.row.id].external \in Texts /\ rows[c.row.id].note \in Texts
    BY <2>3, <2>4 DEF KnowledgeInv, TableInv, AnyRow
  <2>6. CASE ServeSave(i)
    <3>1. c.form \in Form
      BY <2>6 DEF ServeSave, Sent, Stage, KnowledgeInv, CallsKnow, CallKnows, Typing
    <3>2. PICK e \in Texts, n \in Texts : Update(c.row.id, e, n)
      BY <2>5, <2>6, <3>1 DEF ServeSave, Form
    <3> QED  BY <2>3, <2>4, <3>2, UpdateWrites DEF KnowledgeInv
  <2>7. CASE ServeCredential(i)
    BY <2>3, <2>4, <2>5, <2>7, UpdateWrites DEF ServeCredential, KnowledgeInv
  <2>8. CASE ServeDelete(i)
    BY <2>4, <2>8, DeleteWrites DEF ServeDelete
  <2> QED  BY <2>6, <2>7, <2>8
<1>2. CASE WrittenElsewhere
  <2>1. CASE Insert
    BY <2>1, InsertWrites DEF KnowledgeInv
  <2>2. ASSUME NEW id \in Used,
               \/ Write(id, NoRow)
               \/ \E t \in Texts : Update(id, t, rows[id].note) \/ Update(id, rows[id].external, t)
        PROVE  TableStep
    <3>1. id \in Ids /\ rows[id] # NoRow
      BY DEF Used
    <3>2. rows[id].external \in Texts /\ rows[id].note \in Texts
      BY <3>1 DEF KnowledgeInv, TableInv, AnyRow
    <3> QED  BY <2>2, <3>1, <3>2, UpdateWrites, DeleteWrites DEF KnowledgeInv
  <2> QED  BY <1>2, <2>1, <2>2 DEF WrittenElsewhere
<1>3. ASSUME NEW i \in Slots, Handle(i) PROVE TableStep
  BY <1>3 DEF Handle, SignedIn, SignedOut, Created, Saved, RowActionDone, Loaded, LoggedOut,
              ErrorShown, TableStep
<1>4. CASE \/ Reload \/ Login \/ Logout \/ CreateBinding \/ OpenEditDialog \/ CloseEditDialog
           \/ SaveBinding \/ \E kind \in RowKinds : RowAction(kind)
  BY <1>4 DEF Reload, Login, Logout, CreateBinding, OpenEditDialog, CloseEditDialog, SaveBinding,
              RowAction, TableStep
<1>5. CASE SetLanguage \/ Search \/ PreviousPage \/ NextPage \/ ReloadList
  BY <1>5 DEF SetLanguage, Search, PreviousPage, NextPage, ReloadList, ShowPart, TableStep
<1> QED  BY <1>1, <1>2, <1>3, <1>4, <1>5 DEF Next

\* The steps that show nothing new: what is left on screen was there, and every call
\* knows what it should of what is on screen before the step.
LEMMA ShowingNothingNew ==
  ASSUME KnowledgeInv, TableStep,
         list' \in {list, <<>>}, dialog' \in {dialog, NoRow},
         \A i \in Slots : CallKnows(calls'[i], rows, writes, list, dialog)
  PROVE  KnowledgeInv'
<1>1. TableInv'
  BY TableKept DEF KnowledgeInv
<1>2. \A r : Known(r, rows, writes) => Known(r, rows', writes')
  BY KnownStays DEF KnowledgeInv
<1>3. PageKnows'
  <2> USE DEF KnowledgeInv, PageKnows
  <2>1. list' \in Seq(AnyRow)
    <3>1. <<>> \in Seq(AnyRow)
      OBVIOUS
    <3> QED  BY <3>1
  <2>2. Uniform(list)'
    BY DEF Uniform
  <2>3. \A n \in DOMAIN list' : Known(list'[n], rows', writes')
    BY <1>2
  <2>4. dialog' # NoRow => Known(dialog', rows', writes')
    BY <1>2
  <2>5. \A n \in DOMAIN list' :
          dialog' # NoRow /\ list'[n].id = dialog'.id => NotBehind(dialog', list'[n])
    OBVIOUS
  <2> QED  BY <2>1, <2>2, <2>3, <2>4, <2>5
<1>4. \A i \in Slots : CallKnows(calls'[i], rows', writes', list, dialog)
  BY CallStillKnows DEF KnowledgeInv
<1>5. CallsKnow'
  BY <1>4 DEF CallsKnow, CallKnows, Behind
<1> QED  BY <1>1, <1>3, <1>5 DEF KnowledgeInv

\* A call that knows nothing of a row.
LEMMA NothingToKnow ==
  ASSUME NEW c, NEW table, NEW count, NEW l, NEW d,
         \/ c.stage \in {"none", "reloading"}
         \/ c.stage = "sent" /\ c.kind \notin {"save"} \cup RowKinds
         \/ c.stage = "answered" /\ ~(c.kind = "load" /\ c.status = "ok")
  PROVE  CallKnows(c, table, count, l, d)
BY DEF CallKnows

\* What a load is served.
LEMMA ServedItemsAreKnown ==
  ASSUME KnowledgeInv, NEW text, NEW n \in Nat, NEW items \in [1 .. n -> {rows[k] : k \in Found(text)}]
  PROVE  /\ items \in Seq(AnyRow) /\ Uniform(items)
         /\ \A m \in DOMAIN items : Known(items[m], rows, writes) /\ Behind(items[m], list, dialog)
<1>1. \A m \in 1 .. n : /\ items[m].id \in Ids /\ rows[items[m].id] = items[m]
                       /\ items[m] \in AnyRow /\ items[m].born <= writes /\ items[m] # NoRow
                       /\ items[m].version \in 1 .. writes + 1
  BY DEF Found, Used, KnowledgeInv, TableInv
<1>2. items \in [1 .. n -> AnyRow] /\ DOMAIN items = 1 .. n
  BY <1>1
<1>3. items \in Seq(AnyRow)
  BY <1>2
<1>4. Uniform(items)
  BY <1>1, <1>2 DEF Uniform
<1>5. ASSUME NEW m \in DOMAIN items PROVE Known(items[m], rows, writes)
  BY <1>1, <1>2 DEF Known, NotBehind
<1>6. ASSUME NEW m \in DOMAIN items PROVE Behind(items[m], list, dialog)
  BY <1>1, <1>2 DEF Behind, KnowledgeInv, PageKnows, Known
<1> QED  BY <1>3, <1>4, <1>5, <1>6

LEMMA ServeKeeps ==
  ASSUME KnowledgeInv, OneLoad, NEW i \in Slots, Serve(i), TableStep
  PROVE  KnowledgeInv'
<1>1. UNCHANGED page
  BY DEF Serve, ServeSession, ServeLoad, ServeCreate, ServeSave, ServeCredential, ServeDelete,
         Unauthenticated, Fails
<1> SUFFICES \A k \in Slots : CallKnows(calls'[k], rows, writes, list, dialog)
  BY <1>1, ShowingNothingNew DEF page
<1>2. CASE ServeLoad(i)
  <2>1. PICK n \in 0 .. PageSize : \E items \in [1 .. n -> {rows[k] : k \in Found(calls[i].search)}] :
          Served(i, "ok", [items |-> items, total |-> Cardinality(Found(calls[i].search))])
    BY <1>2 DEF ServeLoad
  <2>2. PICK items \in [1 .. n -> {rows[k] : k \in Found(calls[i].search)}] :
          Served(i, "ok", [items |-> items, total |-> Cardinality(Found(calls[i].search))])
    BY <2>1
  <2>3. /\ items \in Seq(AnyRow) /\ Uniform(items)
        /\ \A m \in DOMAIN items : Known(items[m], rows, writes) /\ Behind(items[m], list, dialog)
    BY ServedItemsAreKnown
  <2>4. /\ calls'[i].stage = "answered" /\ calls'[i].data.items = items
        /\ \A k \in Slots : k # i => calls'[k] = calls[k]
    BY <2>2 DEF Served, OneLoad
  <2>5. CallKnows(calls'[i], rows, writes, list, dialog)
    BY <2>3, <2>4 DEF CallKnows
  <2> QED  BY <2>4, <2>5 DEF KnowledgeInv, CallsKnow
<1>3. CASE ~ServeLoad(i)
  <2>1. \E status, data : Served(i, status, data) /\ (status # "ok" \/ calls[i].kind # "load")
    <3>1. CASE ServeCredential(i)
      BY <3>1 DEF ServeCredential, Sent, RowKinds
    <3>2. CASE ServeSession(i) \/ ServeCreate(i) \/ ServeSave(i) \/ ServeDelete(i)
      BY <3>2 DEF ServeSession, ServeCreate, ServeSave, ServeDelete, Sent
    <3>3. CASE Unauthenticated(i) \/ Fails(i)
      BY <3>3 DEF Unauthenticated, Fails
    <3> QED  BY <1>3, <3>1, <3>2, <3>3 DEF Serve
  <2>2. /\ calls'[i].stage = "answered" /\ ~(calls'[i].kind = "load" /\ calls'[i].status = "ok")
        /\ \A k \in Slots : k # i => calls'[k] = calls[k]
    BY <2>1 DEF Served, OneLoad
  <2>3. CallKnows(calls'[i], rows, writes, list, dialog)
    BY <2>2, NothingToKnow
  <2> QED  BY <2>2, <2>3 DEF KnowledgeInv, CallsKnow
<1> QED  BY <1>2, <1>3

\* A call is sent.
LEMMA SendKeeps ==
  ASSUME KnowledgeInv, OneLoad, NEW request, Send(request), UNCHANGED <<page, rows, writes>>,
         CallKnows(request, rows, writes, list, dialog)
  PROVE  KnowledgeInv'
<1>1. \A k \in Slots : calls'[k] \in {calls[k], request}
  BY DEF Send, OneLoad
<1>2. \A k \in Slots : CallKnows(calls'[k], rows, writes, list, dialog)
  BY <1>1 DEF KnowledgeInv, CallsKnow
<1> QED  BY <1>2, ShowingNothingNew DEF page, TableStep

\* A handler or a continuation that shows nothing new ends some calls and may send a load.
LEMMA EndingKeeps ==
  ASSUME KnowledgeInv, UNCHANGED <<rows, writes>>,
         list' \in {list, <<>>}, dialog' \in {dialog, NoRow},
         \A k \in Slots :
           \/ calls'[k] = calls[k]
           \/ calls'[k].stage \in {"none", "reloading"}
           \/ calls'[k].stage = "sent" /\ calls'[k].kind \in {"load", "session"}
  PROVE  KnowledgeInv'
<1>1. \A k \in Slots : CallKnows(calls'[k], rows, writes, list, dialog)
  BY NothingToKnow DEF KnowledgeInv, CallsKnow, RowKinds
<1> QED  BY <1>1, ShowingNothingNew DEF TableStep

LEMMA LoadBindingsEnds ==
  ASSUME NEW caller, LoadBindings(caller)
  PROVE  \A k \in Slots :
           \/ calls'[k] = calls[k]
           \/ calls'[k].stage \in {"none", "reloading"}
           \/ calls'[k].stage = "sent" /\ calls'[k].kind \in {"load", "session"}
BY DEF LoadBindings, NoCall

LEMMA FinishEnds ==
  ASSUME NEW i, Finish(i)
  PROVE  \A k \in Slots : calls'[k] = calls[k] \/ calls'[k].stage = "none"
BY DEF Finish, NoCall

LEMMA SaveKnows ==
  ASSUME KnowledgeInv, NEW base \in Shown(dialog.id), NEW form \in Form, dialog # NoRow,
         NEW c, c.row = dialog, c.form = form, c.kind = "save", c.stage = "sent",
         c.named = {f \in {"external", "note"} : form[f] # base[f]}
  PROVE  CallKnows(c, rows, writes, list, dialog)
<1>1. Known(dialog, rows, writes)
  BY DEF KnowledgeInv, PageKnows
<1>2. ASSUME rows[dialog.id] = dialog PROVE base = dialog
  <2>1. Known(base, rows, writes) /\ base.id = dialog.id /\ NotBehind(dialog, base)
    BY DEF Shown, KnowledgeInv, PageKnows
  <2>2. NotBehind(base, dialog)
    BY <1>2, <2>1 DEF Known
  <2> QED  BY <1>1, <2>1, <2>2, Antisymmetric DEF Known
<1>3. Typing(c, rows)
  BY <1>2 DEF Typing, Form
<1> QED  BY <1>1, <1>3 DEF CallKnows, RowKinds

LEMMA RowActionKnows ==
  ASSUME KnowledgeInv, NEW n \in DOMAIN list,
         NEW c, c.row = list[n], c.kind \in RowKinds, c.stage = "sent"
  PROVE  CallKnows(c, rows, writes, list, dialog)
BY DEF CallKnows, KnowledgeInv, PageKnows, RowKinds

LEMMA OpeningKeeps == KnowledgeInv /\ OpenEditDialog => KnowledgeInv'
<1> SUFFICES ASSUME KnowledgeInv, OpenEditDialog PROVE KnowledgeInv'
  OBVIOUS
<1>1. PICK n \in DOMAIN list : dialog' = list[n]
  BY DEF OpenEditDialog
<1>2. UNCHANGED <<list, calls, rows, writes>>
  BY DEF OpenEditDialog
<1>3. TableInv'
  BY <1>2 DEF KnowledgeInv, TableInv
<1>4. PageKnows'
  BY <1>1, <1>2 DEF KnowledgeInv, PageKnows, Uniform, NotBehind
<1>5. CallsKnow'
  BY <1>1, <1>2 DEF KnowledgeInv, CallsKnow, CallKnows, Behind
<1> QED  BY <1>3, <1>4, <1>5 DEF KnowledgeInv

LEMMA LoadedKeeps ==
  ASSUME KnowledgeInv, OneLoad, NEW i \in Slots, Loaded(i) PROVE KnowledgeInv'
<1>1. PICK data \in {calls[i].data, [items |-> <<>>, total |-> Unknown]} : list' = data.items
  BY DEF Loaded
<1>2. UNCHANGED <<dialog, rows, writes>>
  BY DEF Loaded
<1>3. \A k \in Slots : k # i => calls'[k] = calls[k] \/ calls'[k].stage = "none"
  BY FinishEnds DEF Loaded
<1>4. calls'[i].stage = "none"
  BY DEF Loaded, Finish, NoCall
<1>5. Stage(i) = "answered" /\ calls[i].kind = "load" /\ calls[i].status = "ok"
  BY DEF Loaded, Answered
<1>6. CASE data = [items |-> <<>>, total |-> Unknown]
  <2>1. \A k \in Slots :
           \/ calls'[k] = calls[k]
           \/ calls'[k].stage \in {"none", "reloading"}
           \/ calls'[k].stage = "sent" /\ calls'[k].kind \in {"load", "session"}
    BY <1>3, <1>4
  <2> QED  BY <1>1, <1>2, <1>6, <2>1, EndingKeeps
<1>7. CASE data = calls[i].data
  <2>1. /\ list' \in Seq(AnyRow) /\ Uniform(list')
        /\ \A n \in DOMAIN list' : Known(list'[n], rows, writes) /\ Behind(list'[n], list, dialog)
    BY <1>1, <1>5, <1>7 DEF Stage, KnowledgeInv, CallsKnow, CallKnows
  <2>2. TableInv'
    BY <1>2 DEF KnowledgeInv, TableInv
  <2>3. PageKnows'
    BY <1>2, <2>1 DEF KnowledgeInv, PageKnows, Behind
  <2>4. ASSUME NEW k \in Slots PROVE CallKnows(calls'[k], rows, writes, list', dialog)
    <3>1. CASE calls'[k].stage = "none"
      BY <3>1, NothingToKnow
    <3>2. CASE calls'[k] = calls[k] /\ k # i
      <4>1. ~(Stage(k) = "answered" /\ calls[k].kind = "load")
        BY <1>5, <3>2 DEF OneLoad
      <4>2. CallKnows(calls[k], rows, writes, list, dialog)
        BY DEF KnowledgeInv, CallsKnow
      <4> QED  BY <3>2, <4>1, <4>2 DEF CallKnows, Stage
    <3> QED  BY <1>3, <1>4, <3>1, <3>2
  <2> QED  BY <1>2, <2>2, <2>3, <2>4 DEF KnowledgeInv, CallsKnow
<1> QED  BY <1>1, <1>6, <1>7

LEMMA KnowledgeKept == CallsInv /\ KnowledgeInv /\ [Next]_vars => KnowledgeInv'
<1> SUFFICES ASSUME OneLoad, KnowledgeInv, Next PROVE KnowledgeInv'
  <2>1. UNCHANGED vars /\ KnowledgeInv => KnowledgeInv'
    BY DEF vars, KnowledgeInv, TableInv, PageKnows, CallsKnow
  <2> QED  BY <2>1 DEF CallsInv
<1> DEFINE Ends == \A k \in Slots :
                     \/ calls'[k] = calls[k]
                     \/ calls'[k].stage \in {"none", "reloading"}
                     \/ calls'[k].stage = "sent" /\ calls'[k].kind \in {"load", "session"}
<1>1. ASSUME NEW i \in Slots, Serve(i) PROVE KnowledgeInv'
  BY <1>1, StepsWrite, ServeKeeps
<1>2. ASSUME NEW i \in Slots, Loaded(i) PROVE KnowledgeInv'
  BY <1>2, LoadedKeeps
<1>3. ASSUME NEW i \in Slots, SignedIn(i) \/ Created(i) \/ Saved(i) \/ RowActionDone(i)
      PROVE  KnowledgeInv'
  <2>1. Ends
    BY <1>3, LoadBindingsEnds DEF SignedIn, Created, Saved, RowActionDone
  <2>2. list' = list /\ dialog' \in {dialog, NoRow} /\ UNCHANGED <<rows, writes>>
    BY <1>3 DEF SignedIn, Created, Saved, RowActionDone
  <2> QED  BY <2>1, <2>2, EndingKeeps
<1>4. ASSUME NEW i \in Slots, SignedOut(i) \/ LoggedOut(i) \/ ErrorShown(i) PROVE KnowledgeInv'
  <2>1. Ends
    BY <1>4, FinishEnds DEF SignedOut, LoggedOut, ErrorShown
  <2>2. list' \in {list, <<>>} /\ dialog' \in {dialog, NoRow} /\ UNCHANGED <<rows, writes>>
    BY <1>4 DEF SignedOut, LoggedOut, ErrorShown, ShowLogin
  <2> QED  BY <2>1, <2>2, EndingKeeps
<1>5. CASE Reload
  <2>1. Ends
    BY <1>5 DEF Reload, Bootstrapping, Request, NoCall
  <2> QED  BY <1>5, <2>1, EndingKeeps DEF Reload
<1>6. CASE Login \/ Logout \/ CreateBinding
  <2>1. PICK kind \in {"login", "logout", "create"} : Send(Request(kind))
    BY <1>6 DEF Login, Logout, CreateBinding
  <2>2. CallKnows(Request(kind), rows, writes, list, dialog)
    BY NothingToKnow DEF Request, RowKinds
  <2> QED  BY <1>6, <2>1, <2>2, SendKeeps DEF Login, Logout, CreateBinding
<1>7. CASE Search \/ PreviousPage \/ NextPage \/ ReloadList
  <2>1. LoadBindings({}) /\ UNCHANGED <<list, dialog, rows, writes>>
    BY <1>7 DEF Search, PreviousPage, NextPage, ReloadList, ShowPart
  <2>2. Ends
    BY <2>1, LoadBindingsEnds
  <2> QED  BY <2>1, <2>2, EndingKeeps
<1>8. CASE OpenEditDialog
  BY <1>8, OpeningKeeps
<1>9. CASE SetLanguage \/ CloseEditDialog
  BY <1>9, EndingKeeps DEF SetLanguage, CloseEditDialog
<1>10. CASE SaveBinding
  <2>1. PICK base \in Shown(dialog.id), form \in Form :
          Send([stage |-> "sent", kind |-> "save", row |-> dialog, form |-> form,
                named |-> {f \in {"external", "note"} : form[f] # base[f]}])
    BY <1>10 DEF SaveBinding
  <2> DEFINE request == [stage |-> "sent", kind |-> "save", row |-> dialog, form |-> form,
                         named |-> {f \in {"external", "note"} : form[f] # base[f]}]
  <2>2. CallKnows(request, rows, writes, list, dialog)
    BY <1>10, SaveKnows DEF SaveBinding
  <2> QED  BY <1>10, <2>1, <2>2, SendKeeps DEF SaveBinding
<1>11. ASSUME NEW kind \in RowKinds, RowAction(kind) PROVE KnowledgeInv'
  <2>1. PICK n \in DOMAIN list : Send([stage |-> "sent", kind |-> kind, row |-> list[n]])
    BY <1>11 DEF RowAction
  <2> DEFINE request == [stage |-> "sent", kind |-> kind, row |-> list[n]]
  <2>2. CallKnows(request, rows, writes, list, dialog)
    BY RowActionKnows
  <2> QED  BY <1>11, <2>1, <2>2, SendKeeps DEF RowAction
<1>12. CASE WrittenElsewhere
  <2>1. TableStep /\ UNCHANGED <<list, dialog, calls>>
    BY <1>12, StepsWrite DEF WrittenElsewhere, page
  <2> QED  BY <2>1, ShowingNothingNew DEF KnowledgeInv, CallsKnow
<1> QED
  BY <1>1, <1>2, <1>3, <1>4, <1>5, <1>6, <1>7, <1>8, <1>9, <1>10, <1>11, <1>12 DEF Next, Handle

-------------------------------------------------------------------------------
(* Then where the page is in the list, for the types.                            *)

\* What the answer to a load brings.
LoadTells(c) ==
  c.stage = "answered" /\ c.kind = "load" /\ c.status = "ok" =>
    c.data.total \in 0 .. MaxRows /\ Len(c.data.items) \in 0 .. PageSize

ScreenTypes ==
  /\ view \in {"start", "login", "admin"}
  /\ search \in Sought \cup {NoSearch}
  /\ offset \in 0 .. MaxOffset
  /\ total \in 0 .. MaxRows \cup {Unknown}
  /\ Len(list) <= PageSize

Flags == loading \in BOOLEAN /\ prevOn \in BOOLEAN /\ nextOn \in BOOLEAN

PagingInv == ScreenTypes /\ Flags /\ \A i \in Slots : LoadTells(calls[i])

LEMMA PagingInitially == Init => PagingInv
<1> SUFFICES ASSUME Init PROVE PagingInv
  OBVIOUS
<1>1. ScreenTypes
  BY AdminPageAssumption DEF Init, ScreenTypes
<1>2. Flags
  BY Zenon DEF Init, Flags
<1>3. \A i \in Slots : LoadTells(calls[i])
  BY DEF Init, LoadTells, Bootstrapping, Request, NoCall
<1> QED  BY <1>1, <1>2, <1>3 DEF PagingInv

\* Going back a page, wherever the page is.
LEMMA PageBefore ==
  ASSUME NEW n \in 0 .. MaxOffset
  PROVE  (IF n > PageSize THEN n - PageSize ELSE 0) \in 0 .. MaxOffset
BY AdminPageAssumption

\* A step that brings no answer to a load.
LEMMA NoAnswerTells ==
  ASSUME PagingInv,
         \A k \in Slots : \/ calls'[k] = calls[k]
                          \/ calls'[k].stage # "answered"
                          \/ ~(calls'[k].kind = "load" /\ calls'[k].status = "ok")
  PROVE  \A k \in Slots : LoadTells(calls'[k])
BY DEF PagingInv, LoadTells

\* A handler or a continuation that loads the list.
LEMMA LoadingKeepsPaging ==
  ASSUME PagingInv, NEW caller, LoadBindings(caller),
         UNCHANGED <<list, total>>, view' \in {view, "admin"}, search' \in Sought \cup {NoSearch},
         offset' \in 0 .. MaxOffset
  PROVE  PagingInv'
<1>1. ScreenTypes'
  BY DEF PagingInv, ScreenTypes
<1>2. Flags'
  BY Zenon DEF LoadBindings, PagingInv, Flags
<1>3. \A k \in Slots : LoadTells(calls'[k])
  <2>1. \A k \in Slots : calls'[k] = calls[k] \/ calls'[k].stage # "answered"
    BY LoadBindingsEnds
  <2> QED  BY <2>1, NoAnswerTells
<1> QED  BY <1>1, <1>2, <1>3 DEF PagingInv

\* A call ends without a new list.
LEMMA FinishingKeepsPaging ==
  ASSUME PagingInv, NEW i, Finish(i), ScreenTypes', nextOn' \in BOOLEAN
  PROVE  PagingInv'
<1>1. Flags'
  <2>1. loading' \in BOOLEAN
    BY Zenon DEF Finish
  <2>2. ASSUME calls[i].kind = "load" PROVE prevOn' \in BOOLEAN
    <3>1. prevOn' = (offset' > 0)
      BY <2>2, Zenon DEF Finish
    <3>2. (offset' > 0) \in BOOLEAN
      OBVIOUS
    <3> QED  BY <3>1, <3>2, Zenon
  <2>3. ASSUME calls[i].kind # "load" PROVE prevOn' \in BOOLEAN
    <3>1. prevOn' = prevOn
      BY <2>3, Zenon DEF Finish
    <3> QED  BY <3>1, Zenon DEF PagingInv, Flags
  <2> QED  BY <2>1, <2>2, <2>3 DEF Flags
<1>2. \A k \in Slots : LoadTells(calls'[k])
  <2>1. \A k \in Slots : calls'[k] = calls[k] \/ calls'[k].stage # "answered"
    BY FinishEnds
  <2> QED  BY <2>1, NoAnswerTells
<1> QED  BY <1>1, <1>2 DEF PagingInv

\* A step that leaves the list and its paging alone.
LEMMA PagingUnchanged ==
  ASSUME PagingInv, UNCHANGED page, \A k \in Slots : LoadTells(calls'[k])
  PROVE  PagingInv'
BY DEF PagingInv, ScreenTypes, Flags, page

LEMMA SendingKeepsPaging ==
  ASSUME OneLoad, PagingInv, NEW request, Send(request), request.stage = "sent", UNCHANGED page
  PROVE  PagingInv'
<1>1. \A k \in Slots : calls'[k] \in {calls[k], request}
  BY DEF Send, OneLoad
<1>2. \A k \in Slots : LoadTells(calls'[k])
  BY <1>1 DEF PagingInv, LoadTells
<1> QED  BY <1>2, PagingUnchanged

\* What a load is served.
LEMMA ServedTells ==
  ASSUME NEW i \in Slots, OneLoad, ServeLoad(i) PROVE LoadTells(calls'[i])
<1> DEFINE text == calls[i].search
           count == Cardinality(Found(text))
<1>1. PICK n \in 0 .. PageSize : \E items \in [1 .. n -> {rows[k] : k \in Found(text)}] :
        Served(i, "ok", [items |-> items, total |-> count])
  BY DEF ServeLoad
<1>2. PICK items \in [1 .. n -> {rows[k] : k \in Found(text)}] :
        Served(i, "ok", [items |-> items, total |-> count])
  BY <1>1
<1>3. count \in 0 .. MaxRows
  <2>1. Found(text) \subseteq 1 .. MaxRows
    BY DEF Found, Used, Ids
  <2>2. IsFiniteSet(1 .. MaxRows) /\ Cardinality(1 .. MaxRows) = MaxRows
    BY AdminPageAssumption, FS_Interval
  <2>3. count \in Nat /\ count <= MaxRows
    BY <2>1, <2>2, FS_Subset, FS_CardinalityType
  <2> QED  BY <2>3, AdminPageAssumption
<1>4. Len(items) = n /\ PageSize \in Nat
  BY AdminPageAssumption
<1> DEFINE data == [items |-> items, total |-> count]
<1>5. calls'[i].data = data
  BY <1>2 DEF Served, OneLoad
<1>6. data.items = items /\ data.total = count
  OBVIOUS
<1> HIDE DEF data, count
<1> QED  BY <1>3, <1>4, <1>5, <1>6 DEF LoadTells

LEMMA ServingKeepsPaging ==
  ASSUME OneLoad, PagingInv, NEW i \in Slots, Serve(i) PROVE PagingInv'
<1>1. UNCHANGED page
  BY DEF Serve, ServeSession, ServeLoad, ServeCreate, ServeSave, ServeCredential, ServeDelete,
         Unauthenticated, Fails
<1>2. CASE ServeLoad(i)
  <2>1. \A k \in Slots : k # i => calls'[k] = calls[k]
    BY <1>2 DEF ServeLoad, Served, OneLoad
  <2>2. LoadTells(calls'[i])
    BY <1>2, ServedTells
  <2> QED  BY <1>1, <2>1, <2>2, PagingUnchanged DEF PagingInv
<1>3. CASE ~ServeLoad(i)
  <2>1. \E status, data : Served(i, status, data) /\ (status # "ok" \/ calls[i].kind # "load")
    <3>1. CASE ServeCredential(i)
      BY <3>1 DEF ServeCredential, Sent, RowKinds
    <3>2. CASE ServeSession(i) \/ ServeCreate(i) \/ ServeSave(i) \/ ServeDelete(i)
      BY <3>2 DEF ServeSession, ServeCreate, ServeSave, ServeDelete, Sent
    <3>3. CASE Unauthenticated(i) \/ Fails(i)
      BY <3>3 DEF Unauthenticated, Fails
    <3> QED  BY <1>3, <3>1, <3>2, <3>3 DEF Serve
  <2>2. /\ ~(calls'[i].kind = "load" /\ calls'[i].status = "ok")
        /\ \A k \in Slots : k # i => calls'[k] = calls[k]
    BY <2>1 DEF Served, OneLoad
  <2> QED  BY <1>1, <2>2, NoAnswerTells, PagingUnchanged
<1> QED  BY <1>2, <1>3

\* The next button is on or off.
LEMMA MoreIsBoolean == ASSUME NEW items, NEW count PROVE More(items, count) \in BOOLEAN
<1>1. CASE count = Unknown
  <2>1. More(items, count) = (Len(items) >= PageSize)
    BY <1>1 DEF More
  <2> QED  BY <2>1
<1>2. CASE count # Unknown
  <2>1. More(items, count) = (offset + Len(items) < count)
    BY <1>2 DEF More
  <2> QED  BY <2>1
<1> QED  BY <1>1, <1>2

\* The answer is shown.
LEMMA LoadedKeepsPaging ==
  ASSUME PagingInv, NEW i \in Slots, Loaded(i) PROVE PagingInv'
<1>1. PICK data \in {calls[i].data, [items |-> <<>>, total |-> Unknown]} :
        list' = data.items /\ total' = data.total /\ nextOn' = More(data.items, data.total)
  BY DEF Loaded
<1>2. UNCHANGED <<view, search, offset>> /\ Finish(i)
  BY DEF Loaded
<1>3. total' \in 0 .. MaxRows \cup {Unknown} /\ Len(list') <= PageSize
  <2>1. CASE data = [items |-> <<>>, total |-> Unknown]
    <3>1. list' = <<>> /\ total' = Unknown
      BY <1>1, <2>1
    <3> QED  BY <3>1, AdminPageAssumption
  <2>2. CASE data = calls[i].data
    <3>1. data.total \in 0 .. MaxRows /\ Len(data.items) \in 0 .. PageSize
      BY <2>2 DEF Loaded, Answered, Stage, PagingInv, LoadTells
    <3> QED  BY <1>1, <3>1, AdminPageAssumption
  <2> QED  BY <1>1, <2>1, <2>2
<1>4. ScreenTypes'
  BY <1>2, <1>3 DEF PagingInv, ScreenTypes
<1> QED  BY <1>1, <1>2, <1>4, MoreIsBoolean, FinishingKeepsPaging

LEMMA PagingKept == CallsInv /\ PagingInv /\ [Next]_vars => PagingInv'
<1> SUFFICES ASSUME CallsInv, OneLoad, PagingInv, Next PROVE PagingInv'
  <2>1. UNCHANGED vars /\ PagingInv => PagingInv'
    BY DEF vars, PagingInv, ScreenTypes, Flags
  <2> QED  BY <2>1 DEF CallsInv
<1>0. /\ offset \in 0 .. MaxOffset /\ 0 \in 0 .. MaxOffset
      /\ search \in Sought \cup {NoSearch}
  BY AdminPageAssumption DEF PagingInv, ScreenTypes
<1>1. ASSUME NEW i \in Slots, Serve(i) PROVE PagingInv'
  BY <1>1, ServingKeepsPaging
<1>2. ASSUME NEW i \in Slots, Loaded(i) PROVE PagingInv'
  BY <1>2, LoadedKeepsPaging
<1>3. ASSUME NEW i \in Slots, SignedIn(i) \/ Created(i) \/ Saved(i) \/ RowActionDone(i)
      PROVE  PagingInv'
  <2>1. LoadBindings({i}) /\ UNCHANGED <<list, total, search>> /\ view' \in {view, "admin"}
    BY <1>3 DEF SignedIn, Created, Saved, RowActionDone
  <2>2. offset' \in 0 .. MaxOffset
    <3>1. offset' \in {offset, 0, IF offset > PageSize THEN offset - PageSize ELSE 0}
      BY <1>3 DEF SignedIn, Created, Saved, RowActionDone
    <3> QED  BY <1>0, <3>1, PageBefore
  <2> QED  BY <1>0, <2>1, <2>2, LoadingKeepsPaging
<1>4. ASSUME NEW i \in Slots, Finish(i), ShowLogin PROVE PagingInv'
  <2>1. ScreenTypes'
    BY <1>4, AdminPageAssumption DEF ShowLogin, ScreenTypes
  <2>2. nextOn' \in BOOLEAN
    BY <1>4 DEF ShowLogin, PagingInv, Flags
  <2> QED  BY <1>4, <2>1, <2>2, FinishingKeepsPaging
<1>5. ASSUME NEW i \in Slots, ErrorShown(i), ~ShowLogin PROVE PagingInv'
  <2>1. UNCHANGED <<view, list, search, offset, total, nextOn>> /\ Finish(i)
    BY <1>5 DEF ErrorShown
  <2>2. ScreenTypes' /\ nextOn' \in BOOLEAN
    BY <2>1 DEF PagingInv, ScreenTypes, Flags
  <2> QED  BY <2>1, <2>2, FinishingKeepsPaging
<1>6. ASSUME NEW i \in Slots, SignedOut(i) \/ LoggedOut(i) \/ ErrorShown(i) PROVE PagingInv'
  BY <1>4, <1>5, <1>6 DEF SignedOut, LoggedOut, ErrorShown
<1>7. CASE Reload
  <2>1. \A k \in Slots : LoadTells(calls'[k])
    BY <1>7 DEF Reload, Bootstrapping, Request, NoCall, LoadTells
  <2>2. ScreenTypes'
    BY <1>7, AdminPageAssumption DEF Reload, ScreenTypes
  <2>3. Flags'
    BY <1>7, Zenon DEF Reload, Flags
  <2> QED  BY <2>1, <2>2, <2>3 DEF PagingInv
<1>8. CASE Login \/ Logout \/ CreateBinding
  <2>1. PICK kind \in {"login", "logout", "create"} : Send(Request(kind))
    BY <1>8 DEF Login, Logout, CreateBinding
  <2>2. Request(kind).stage = "sent"
    BY DEF Request
  <2> QED  BY <1>8, <2>1, <2>2, SendingKeepsPaging DEF Login, Logout, CreateBinding
<1>9. CASE SetLanguage
  <2>1. ScreenTypes'
    BY <1>9 DEF SetLanguage, PagingInv, ScreenTypes
  <2>2. prevOn' \in BOOLEAN
    BY <1>9 DEF SetLanguage
  <2>3. nextOn' \in BOOLEAN
    BY <1>9, MoreIsBoolean DEF SetLanguage
  <2>4. UNCHANGED <<loading, calls>>
    BY <1>9 DEF SetLanguage
  <2> QED  BY <2>1, <2>2, <2>3, <2>4 DEF PagingInv, Flags
<1>10. CASE Search \/ PreviousPage \/ NextPage \/ ReloadList
  <2>1. /\ LoadBindings({}) /\ UNCHANGED <<view, list, total>>
        /\ search' \in Sought \cup {NoSearch}
    BY <1>0, <1>10 DEF Search, PreviousPage, NextPage, ReloadList, ShowPart
  <2>2. \/ offset' \in {0, offset, IF offset > PageSize THEN offset - PageSize ELSE 0}
        \/ offset' = offset + PageSize /\ offset + PageSize <= MaxOffset
    BY <1>10 DEF Search, PreviousPage, NextPage, ReloadList, ShowPart
  <2>3. offset' \in 0 .. MaxOffset
    BY <1>0, <2>2, PageBefore, AdminPageAssumption
  <2> QED  BY <2>1, <2>3, LoadingKeepsPaging
<1>11. CASE OpenEditDialog \/ CloseEditDialog
  BY <1>11 DEF OpenEditDialog, CloseEditDialog, PagingInv, ScreenTypes, Flags
<1>12. CASE SaveBinding
  <2>1. PICK base \in Shown(dialog.id), form \in Form :
          Send([stage |-> "sent", kind |-> "save", row |-> dialog, form |-> form,
                named |-> {f \in {"external", "note"} : form[f] # base[f]}])
    BY <1>12 DEF SaveBinding
  <2> QED  BY <1>12, <2>1, SendingKeepsPaging DEF SaveBinding
<1>13. ASSUME NEW kind \in RowKinds, RowAction(kind) PROVE PagingInv'
  <2>1. PICK n \in DOMAIN list : Send([stage |-> "sent", kind |-> kind, row |-> list[n]])
    BY <1>13 DEF RowAction
  <2> QED  BY <1>13, <2>1, SendingKeepsPaging DEF RowAction
<1>14. CASE WrittenElsewhere
  BY <1>14, PagingUnchanged DEF WrittenElsewhere, PagingInv
<1> QED
  BY <1>1, <1>2, <1>3, <1>6, <1>7, <1>8, <1>9, <1>10, <1>11, <1>12, <1>13, <1>14 DEF Next, Handle

-------------------------------------------------------------------------------
(* The theorems.                                                                 *)

IInv == CallsInv /\ KnowledgeInv /\ PagingInv

LEMMA Invariance == Spec => []IInv
<1>1. Init => IInv
  BY CallsInitially, KnowledgeInitially, PagingInitially DEF IInv
<1>2. IInv /\ [Next]_vars => IInv'
  BY CallsKept, KnowledgeKept, PagingKept DEF IInv
<1> QED  BY <1>1, <1>2, PTL DEF Spec

LEMMA KnownRow == ASSUME TableInv, NEW r, Known(r, rows, writes) PROVE r \in Row
BY AdminPageAssumption DEF TableInv, Known, AnyRow, Row

\* Every variable has its type: the offset never becomes negative, although a deletion and
\* the previous button may both take it back at any time (it may well be past the end of the
\* list), and no list is longer than a page.
THEOREM TypeCorrect == Spec => []TypeOK
<1>1. ASSUME IInv PROVE TypeOK
  <2>1. TableInv /\ PageKnows /\ ScreenTypes /\ Flags /\ OneLoad
    BY <1>1 DEF IInv, KnowledgeInv, PagingInv, CallsInv
  <2>2. list \in Seq(Row)
    <3>1. \A n \in 1 .. Len(list) : list[n] \in Row
      BY <2>1, KnownRow DEF PageKnows
    <3> QED  BY <2>1, <3>1 DEF PageKnows
  <2>3. dialog \in Row \cup {NoRow}
    BY <2>1, KnownRow DEF PageKnows
  <2>4. rows \in [Ids -> Row \cup {NoRow}]
    <3>1. \A i \in Ids : rows[i] \in Row \cup {NoRow}
      BY <2>1, AdminPageAssumption DEF TableInv, AnyRow, Row
    <3> QED  BY <2>1, <3>1 DEF TableInv
  <2>5. writes \in 0 .. MaxWrites
    BY <2>1 DEF TableInv
  <2> QED  BY <2>1, <2>2, <2>3, <2>4, <2>5 DEF TypeOK, ScreenTypes, Flags, OneLoad
<1> QED  BY <1>1, Invariance, PTL

\* Nothing leaves the list busy for good (loadBindings, setListBusy): the flag is up exactly
\* while a load is under way.
THEOREM AlwaysBusyOnlyWhileLoading == Spec => []BusyOnlyWhileLoading
<1>1. IInv => BusyOnlyWhileLoading
  BY DEF IInv, CallsInv
<1> QED  BY <1>1, Invariance, PTL

\* A list that is loaded behind an open dialog is never older than the dialog.
THEOREM DialogIsNeverAhead == Spec => []DialogNeverAhead
<1>1. IInv => DialogNeverAhead
  BY DEF IInv, KnowledgeInv, PageKnows, DialogNeverAhead, Shown, NotBehind, Known, AnyRow
<1> QED  BY <1>1, Invariance, PTL

\* The step of ActsOnWhatWasShown.
ShownStep ==
  \A i \in Slots :
    LET c == calls[i] IN
    /\ Sent(i, {"save"} \cup RowKinds)
    /\ rows' # rows /\ calls'[i] # c
    /\ rows[c.row.id].born = c.row.born
    => /\ Content(rows[c.row.id]) = Content(c.row)
       /\ c.kind = "save" => Content(rows'[c.row.id]) = c.form

\* An accepted row is the row that was shown.
LEMMA MatchedIsShown ==
  ASSUME TableInv, NEW r, Known(r, rows, writes), Matches(r), rows[r.id].born = r.born
  PROVE  r.id \in Ids /\ r = rows[r.id]
BY DEF TableInv, Known, NotBehind, Matches, AnyRow

\* A save leaves the row as the form shows it.
LEMMA SaveWritesTheForm ==
  ASSUME TableInv, NEW c, c.row.id \in Ids, c.row = rows[c.row.id], c.row # NoRow, Typing(c, rows),
         Update(c.row.id,
                IF "external" \in c.named THEN c.form.external ELSE rows[c.row.id].external,
                IF "note" \in c.named THEN c.form.note ELSE rows[c.row.id].note)
  PROVE  Content(rows'[c.row.id]) = c.form
<1>1. PICK e, n :
        /\ Update(c.row.id, e, n)
        /\ e = IF "external" \in c.named THEN c.form.external ELSE rows[c.row.id].external
        /\ n = IF "note" \in c.named THEN c.form.note ELSE rows[c.row.id].note
  OBVIOUS
<1>2. e = c.form.external /\ n = c.form.note
  BY <1>1 DEF Typing
<1>3. rows[c.row.id] \in AnyRow
  BY DEF TableInv
<1>4. rows'[c.row.id].external = e /\ rows'[c.row.id].note = n
  BY <1>1, <1>3 DEF Update, Write, TableInv, AnyRow
<1>5. c.form \in Form
  BY DEF Typing
<1> QED  BY <1>2, <1>4, <1>5 DEF Content, Form

LEMMA ShownKept == IInv /\ [Next]_vars => ShownStep
<1> SUFFICES ASSUME IInv, [Next]_vars, NEW i \in Slots,
                    Sent(i, {"save"} \cup RowKinds), rows' # rows, calls'[i] # calls[i],
                    rows[calls[i].row.id].born = calls[i].row.born
             PROVE  /\ Content(rows[calls[i].row.id]) = Content(calls[i].row)
                    /\ calls[i].kind = "save" => Content(rows'[calls[i].row.id]) = calls[i].form
  BY DEF ShownStep
<1>1. Known(calls[i].row, rows, writes) /\ (calls[i].kind = "save" => Typing(calls[i], rows))
  BY DEF IInv, KnowledgeInv, CallsKnow, CallKnows, Sent, Stage
<1>2. PICK j \in Slots : ServeCreate(j) \/ ServeSave(j) \/ ServeCredential(j) \/ ServeDelete(j)
  <2>1. ASSUME NEW j \in Slots, Handle(j) PROVE FALSE
    BY <2>1 DEF Handle, SignedIn, SignedOut, Created, Saved, RowActionDone, Loaded, LoggedOut,
                ErrorShown
  <2>2. CASE \/ Reload \/ Login \/ Logout \/ CreateBinding \/ OpenEditDialog \/ CloseEditDialog
             \/ SaveBinding \/ \E kind \in RowKinds : RowAction(kind)
    BY <2>2 DEF Reload, Login, Logout, CreateBinding, OpenEditDialog, CloseEditDialog, SaveBinding,
                RowAction
  <2>3. CASE SetLanguage \/ Search \/ PreviousPage \/ NextPage \/ ReloadList
    BY <2>3 DEF SetLanguage, Search, PreviousPage, NextPage, ReloadList, ShowPart
  <2>4. CASE WrittenElsewhere \/ UNCHANGED vars
    BY <2>4 DEF WrittenElsewhere, vars
  <2>5. ASSUME NEW j \in Slots, Serve(j)
        PROVE  ServeCreate(j) \/ ServeSave(j) \/ ServeCredential(j) \/ ServeDelete(j)
    BY <2>5 DEF Serve, ServeSession, ServeLoad, Unauthenticated, Fails
  <2> QED  BY <2>1, <2>2, <2>3, <2>4, <2>5 DEF Next
<1>3. i = j
  <2>1. \E status, data : Served(j, status, data)
    <3>1. CASE ServeCredential(j)
      BY <3>1 DEF ServeCredential
    <3>2. CASE ServeCreate(j) \/ ServeSave(j) \/ ServeDelete(j)
      BY <3>2 DEF ServeCreate, ServeSave, ServeDelete
    <3> QED  BY <1>2, <3>1, <3>2
  <2>2. calls = [k \in Slots |-> calls[k]]
    BY DEF IInv, CallsInv, OneLoad
  <2> QED  BY <2>1, <2>2 DEF Served
<1>4. Matches(calls[i].row)
  BY <1>2, <1>3 DEF ServeCreate, ServeSave, ServeCredential, ServeDelete, Sent, RowKinds
<1>5. calls[i].row.id \in Ids /\ calls[i].row = rows[calls[i].row.id] /\ calls[i].row # NoRow
  BY <1>1, <1>4, MatchedIsShown DEF IInv, KnowledgeInv, Matches
<1>6. ASSUME calls[i].kind = "save" PROVE Content(rows'[calls[i].row.id]) = calls[i].form
  <2>1. ServeSave(i)
    BY <1>2, <1>3, <1>6 DEF ServeCreate, ServeCredential, ServeDelete, Sent, RowKinds
  <2> QED  BY <1>1, <1>5, <1>6, <2>1, SaveWritesTheForm DEF ServeSave, IInv, KnowledgeInv
<1> QED  BY <1>5, <1>6

\* As long as the row that was shown was not deleted and its id given to another one, a call
\* for it that the service accepts finds it as it was shown, and an accepted save leaves it as
\* the form shows it, whatever was loaded, opened or written elsewhere meanwhile (saveBinding,
\* withRowAction, changeBinding).  Nothing is said of a call whose row was replaced under its id.
THEOREM AlwaysActsOnWhatWasShown == Spec => ActsOnWhatWasShown
<1>1. [][ShownStep]_vars <=> ActsOnWhatWasShown
  BY DEF ShownStep, ActsOnWhatWasShown
<1>2. IInv /\ [Next]_vars => [ShownStep]_vars
  BY ShownKept
<1> QED  BY <1>1, <1>2, Invariance, PTL DEF Spec

\* The step of ListNeverGoesBack.
ListStep ==
  \A m \in DOMAIN list, n \in DOMAIN list' :
    list[m].id = list'[n].id => NotBehind(list[m], list'[n])

LEMMA LoadedListIsNotBehind ==
  ASSUME IInv, NEW i \in Slots, Loaded(i) PROVE ListStep
<1>1. PICK data \in {calls[i].data, [items |-> <<>>, total |-> Unknown]} : list' = data.items
  BY DEF Loaded
<1>2. CASE data = [items |-> <<>>, total |-> Unknown]
  <2>1. list' = <<>>
    BY <1>1, <1>2
  <2> QED  BY <2>1 DEF ListStep
<1>3. CASE data = calls[i].data
  <2>1. \A n \in DOMAIN list' : Behind(list'[n], list, dialog)
    BY <1>1, <1>3 DEF Loaded, Answered, Stage, IInv, KnowledgeInv, CallsKnow, CallKnows
  <2> QED  BY <2>1 DEF ListStep, Behind
<1> QED  BY <1>1, <1>2, <1>3

LEMMA ListKept == IInv /\ [Next]_vars => ListStep
<1> SUFFICES ASSUME IInv, [Next]_vars PROVE ListStep
  OBVIOUS
<1>1. ASSUME NEW i \in Slots, Loaded(i) PROVE ListStep
  BY <1>1, LoadedListIsNotBehind
<1>2. CASE list' \in {list, <<>>}
  BY <1>2 DEF ListStep, NotBehind, IInv, KnowledgeInv, PageKnows, Uniform
<1>3. ASSUME NEW i \in Slots, Serve(i) PROVE list' = list
  BY <1>3 DEF Serve, ServeSession, ServeLoad, ServeCreate, ServeSave, ServeCredential,
              ServeDelete, Unauthenticated, Fails, page
<1>4. ASSUME NEW i \in Slots, Handle(i), ~Loaded(i) PROVE list' \in {list, <<>>}
  BY <1>4 DEF Handle, SignedIn, SignedOut, Created, Saved, RowActionDone, LoggedOut, ErrorShown,
              ShowLogin
<1>5. CASE \/ Reload \/ Login \/ Logout \/ CreateBinding \/ SetLanguage \/ OpenEditDialog
           \/ CloseEditDialog \/ SaveBinding \/ \E kind \in RowKinds : RowAction(kind)
  BY <1>2, <1>5 DEF Reload, Login, Logout, CreateBinding, SetLanguage, OpenEditDialog,
                    CloseEditDialog, SaveBinding, RowAction, page
<1>6. CASE Search \/ PreviousPage \/ NextPage \/ ReloadList
  BY <1>2, <1>6 DEF Search, PreviousPage, NextPage, ReloadList, ShowPart
<1>7. CASE WrittenElsewhere \/ UNCHANGED vars
  BY <1>2, <1>7 DEF WrittenElsewhere, page, vars
<1> QED  BY <1>1, <1>2, <1>3, <1>4, <1>5, <1>6, <1>7 DEF Next

\* No load takes a row on screen back to an earlier state of it (loadBindings, which lets one
\* load out at a time), however late its answer and whatever happened meanwhile.
THEOREM ListNeverTurnsBack == Spec => ListNeverGoesBack
<1>1. [][ListStep]_vars <=> ListNeverGoesBack
  BY DEF ListStep, ListNeverGoesBack
<1>2. IInv /\ [Next]_vars => [ListStep]_vars
  BY ListKept
<1> QED  BY <1>1, <1>2, Invariance, PTL DEF Spec
===============================================================================
