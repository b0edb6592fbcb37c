------------------------------ MODULE PublicPage ------------------------------
(***************************************************************************)
(* src/src/public/app.js: the page from which a visitor queries a mailbox. *)
(* runQuery awaits the head and then the body of the answer; an abort      *)
(* controller with a timer of 30 s, the state of the buttons and the list  *)
(* on screen all live outside it and change while it waits.                *)
(*                                                                         *)
(* An action is one event handler or one continuation of runQuery with its *)
(* catch and finally.  The history of addresses is EmailHistory's, kept in *)
(* the storage of the browser, which other tabs write too and which may    *)
(* refuse.  Rendering, languages and the frame of a mail are left out.     *)
(***************************************************************************)
EXTENDS EmailHistory

CONSTANTS NoAddress,   \* ""
          MaxQueries,  \* bound on the calls of runQuery between reloads
          MaxStored    \* bound on the list found in the storage at first

ASSUME PageAssumption == NoAddress \notin Addresses /\ MaxQueries \in Nat /\ MaxStored \in Nat

VARIABLES input,       \* externalIdInput.value
          busy,        \* the field and the query button are disabled
          refreshable, \* the refresh button is enabled
          active,      \* activeController: the number of its query, or 0
          query,       \* the calls of runQuery
          last,        \* lastSuccessfulExternalId
          hidden,      \* results.hidden
          shown,       \* lastRenderedMails: whose, and whether there was one
          notice,      \* the status box
          history,     \* successfulExternalIds
          stored,      \* EMAIL_HISTORY_STORAGE_KEY in localStorage
          synced       \* history: this page was the last to use it, and it went well

page == <<input, busy, refreshable, active, last, hidden, shown, notice>>
vars == <<input, busy, refreshable, active, query, last, hidden, shown, notice,
          history, stored, synced>>

Calls == 1 .. MaxQueries
NotCalled == [stage |-> "none", address |-> NoAddress, aborted |-> FALSE]
Waiting == {"head", "body", "errorBody"}
NothingShown == [of |-> NoAddress, mails |-> "none"]

TypeOK ==
  /\ input \in Addresses \cup {NoAddress}
  /\ busy \in BOOLEAN
  /\ refreshable \in BOOLEAN
  /\ active \in 0 .. MaxQueries
  /\ query \in [Calls -> [stage : Waiting \cup {"none", "answered", "over"},
                            address : Addresses \cup {NoAddress}, aborted : BOOLEAN]]
  /\ last \in Addresses \cup {NoAddress}
  /\ hidden \in BOOLEAN
  /\ shown \in [of : Addresses \cup {NoAddress}, mails : {"none", "newest"}]
  /\ notice \in {"none", "busy", "timeout", "error"}
  /\ WellFormed(history)
  /\ stored \in Seq(Addresses)
  /\ synced \in BOOLEAN

\* What the storage holds at first: left by an earlier visit, or by anything else.
Left == UNION {[1 .. n -> Addresses] : n \in 0 .. MaxStored}

\* loadEmailHistory: what cannot be read or parsed is no history.
LoadEmailHistory(readable) ==
  /\ history' = IF readable THEN Sanitized(stored) ELSE <<>>
  /\ synced' = readable
  /\ UNCHANGED stored

\* persistHistory, of the list that the page now has: the storage may refuse.
PersistHistory ==
  \E done \in BOOLEAN :
    /\ stored' = IF done THEN history' ELSE stored
    /\ synced' = done

InitialQuery == [k \in Calls |-> NotCalled]

Init ==
  /\ stored \in Left
  /\ history = Sanitized(stored)
  /\ synced = TRUE
  /\ input = IF history = <<>> THEN NoAddress ELSE history[1]
  /\ busy = FALSE
  /\ refreshable = FALSE
  /\ active = 0
  /\ query = InitialQuery
  /\ last = NoAddress
  /\ hidden = TRUE
  /\ shown = NothingShown
  /\ notice = "none"

\* The newest entry of the history fills the field.
Reload ==
  /\ \E readable \in BOOLEAN : LoadEmailHistory(readable)
  /\ input' = IF history' = <<>> THEN NoAddress ELSE history'[1]
  /\ busy' = FALSE
  /\ refreshable' = FALSE
  /\ active' = 0
  /\ query' = InitialQuery
  /\ last' = NoAddress
  /\ hidden' = TRUE
  /\ shown' = NothingShown
  /\ notice' = "none"

\* Another tab stores the list that it holds.
OtherTab ==
  /\ \E list \in Left : WellFormed(list) /\ stored' = list
  /\ synced' = FALSE
  /\ UNCHANGED <<page, query, history>>

\* canRefresh()
CanRefresh(text, success) == success # NoAddress /\ text = success

-------------------------------------------------------------------------------

\* The input event, by hand or by choosing an entry of the history.
Type(a) ==
  /\ ~busy
  /\ input' = a
  /\ refreshable' = IF active = 0 THEN CanRefresh(a, last) ELSE refreshable
  /\ UNCHANGED <<busy, active, query, last, hidden, shown, notice, history, stored, synced>>

\* Mutant: the mails of another address stay on screen.
StartShowingTheOld(a, isRefresh) ==
  \E k \in Calls :
    /\ query[k].stage = "none" /\ \A j \in 1 .. k - 1 : query[j].stage # "none"
    /\ query' = [query EXCEPT ![k] = [stage |-> "head", address |-> a, aborted |-> FALSE]]
    /\ active' = k
    /\ busy' = TRUE
    /\ refreshable' = FALSE
    /\ notice' = "busy"
    /\ UNCHANGED <<input, hidden, last, shown, history, stored, synced>>

\* Mutant: the form stays enabled.
StartEnabled(a, isRefresh) ==
  \E k \in Calls :
    /\ query[k].stage = "none" /\ \A j \in 1 .. k - 1 : query[j].stage # "none"
    /\ query' = [j \in Calls |->
                   IF j = k THEN [stage |-> "head", address |-> a, aborted |-> FALSE]
                   ELSE IF j = active THEN [query[j] EXCEPT !.aborted = TRUE]
                   ELSE query[j]]
    /\ active' = k
    /\ hidden' = (hidden \/ (~isRefresh /\ a # last))
    /\ notice' = "busy"
    /\ UNCHANGED <<input, busy, refreshable, last, shown, history, stored, synced>>

\* runQuery up to fetch: a query that is still active is aborted.
Start(a, isRefresh) ==
  \E k \in Calls :
    /\ query[k].stage = "none" /\ \A j \in 1 .. k - 1 : query[j].stage # "none"
    /\ query' = [j \in Calls |->
                   IF j = k THEN [stage |-> "head", address |-> a, aborted |-> FALSE]
                   ELSE IF j = active THEN [query[j] EXCEPT !.aborted = TRUE]
                   ELSE query[j]]
    /\ active' = k
    /\ hidden' = (hidden \/ (~isRefresh /\ a # last))
    /\ busy' = TRUE
    /\ refreshable' = FALSE
    /\ notice' = "busy"
    /\ UNCHANGED <<input, last, shown, history, stored, synced>>

Submit == ~busy /\ input # NoAddress /\ Start(input, FALSE)

Refresh == refreshable /\ CanRefresh(input, last) /\ Start(last, TRUE)

\* The timer of 30 s.
Timeout(k) ==
  /\ query[k].stage \in Waiting
  /\ ~query[k].aborted
  /\ query' = [query EXCEPT ![k].aborted = TRUE]
  /\ UNCHANGED <<page, history, stored, synced>>

\* Mutant: the buttons are given back only after a success.
FinallyOnSuccess(k, stage) ==
  /\ query' = [query EXCEPT ![k].stage = stage]
  /\ UNCHANGED input
  /\ IF notice' = "none" THEN active' = 0 /\ busy' = FALSE /\ refreshable' = CanRefresh(input, last')
     ELSE UNCHANGED <<active, busy, refreshable>>

\* finally: only the query that is still the active one gives the buttons back.
Finally(k, stage) ==
  /\ query' = [query EXCEPT ![k].stage = stage]
  /\ active' = IF active = k THEN 0 ELSE active
  /\ busy' = (busy /\ active # k)
  /\ refreshable' = IF active = k THEN CanRefresh(input, last') ELSE refreshable
  /\ UNCHANGED input

\* The catch, for an error of the server or of the connection.
ShowError(k) ==
  /\ notice' = "error"
  /\ UNCHANGED <<last, hidden, shown, history, stored, synced>>
  /\ Finally(k, "over")

\* The catch, for an AbortError: a query that was superseded says nothing.
ShowTimeout(k) ==
  /\ notice' = IF active = k THEN "timeout" ELSE notice
  /\ UNCHANGED <<last, hidden, shown, history, stored, synced>>
  /\ Finally(k, "over")

\* rememberSuccessfulEmail, with the list as this page has it: an address that is
\* refused is not stored, and else the whole list is.
Remember(email) ==
  /\ history' = Remembered(history, email)
  /\ IF email \in Refused THEN UNCHANGED <<stored, synced>> ELSE PersistHistory

ShowMails(k, mails, stage) ==
  /\ shown' = [of |-> query[k].address, mails |-> mails]
  /\ last' = query[k].address
  /\ Remember(query[k].address)
  /\ hidden' = FALSE
  /\ notice' = "none"
  /\ Finally(k, stage)

\* fetch rejects.
FetchRejects(k) ==
  /\ query[k].stage = "head"
  /\ IF query[k].aborted THEN ShowTimeout(k) ELSE ShowError(k)

\* fetch resolves: the status is known, the body is still to come.  The service says
\* ok: false with an error status only, so one stage stands for both.
HeadArrives(k) ==
  /\ query[k].stage = "head"
  /\ ~query[k].aborted
  /\ \E next \in {"body", "errorBody"} : query' = [query EXCEPT ![k].stage = next]
  /\ UNCHANGED <<page, history, stored, synced>>

\* newestMailOnly shows one mail or none.
BodyArrives(k) ==
  /\ query[k].stage = "body"
  /\ ~query[k].aborted
  /\ \E mails \in {"none", "newest"} : ShowMails(k, mails, "answered")

\* readResponse makes null of a body that breaks off or is aborted; a null answer
\* with status 200 has no mails, and is a success.
BodyBreaks(k) ==
  /\ query[k].stage = "body"
  /\ ShowMails(k, "none", "over")

\* Whether or not its body arrives, an error status is an error.
ErrorBodyEnds(k) == query[k].stage = "errorBody" /\ ShowError(k)

\* Mutant: the storage keeps the entry.
RemoveFromTheListOnly ==
  /\ \E n \in DOMAIN history : history' = Without(history, history[n])
  /\ UNCHANGED <<page, query, stored, synced>>

\* removeSuccessfulEmail, of an entry that is listed.
RemoveEntry ==
  /\ \E n \in DOMAIN history : history' = Without(history, history[n])
  /\ PersistHistory
  /\ UNCHANGED <<page, query>>

\* clearEmailHistory: its button is on screen while there are entries.
Clear ==
  /\ history # <<>>
  /\ history' = <<>>
  /\ PersistHistory
  /\ UNCHANGED <<page, query>>

\* What an aborted query comes to.
AbortSeen(k) ==
  query[k].aborted /\ (FetchRejects(k) \/ BodyBreaks(k) \/ ErrorBodyEnds(k))

Next ==
  \/ Reload
  \/ \E a \in Addresses \cup {NoAddress} : Type(a)
  \/ Submit \/ Refresh
  \/ \E k \in Calls :
       Timeout(k) \/ FetchRejects(k) \/ HeadArrives(k) \/ BodyArrives(k) \/ BodyBreaks(k) \/ ErrorBodyEnds(k)
  \/ RemoveEntry \/ Clear \/ OtherTab

Spec == Init /\ [][Next]_vars

\* The timer fires and the browser rejects what is aborted.
FairSpec ==
  /\ Spec
  /\ \A k \in Calls : WF_vars(Timeout(k)) /\ WF_vars(AbortSeen(k))

-------------------------------------------------------------------------------

\* The buttons agree with the controller: they are disabled while a query is under
\* way and only then, so that no query is ever superseded on this page.  The refresh
\* button can be pressed only if it would ask again for the mails that were rendered
\* last (a failed query for another address leaves them hidden).
ButtonsFollowTheQuery ==
  /\ busy <=> active # 0
  /\ \A k \in Calls : query[k].stage \in Waiting => k = active
  /\ refreshable => ~busy /\ input = last /\ shown.of = last

\* Mails on screen are those of the last success, and while a query is under way
\* those of the address that is asked for.
ShownBelongsToTheQuery ==
  ~hidden => shown.of = last /\ (active # 0 => query[active].address = last)

\* The visitor gets the buttons back, whatever the server does.
ButtonsComeBack == busy ~> ~busy

\* What the page lists is what a reload would list, as long as no other tab has written
\* and the storage did not refuse: no removed address comes back, and none is forgotten.
ReloadKeepsHistory == synced => Sanitized(stored) = history

\* "Successfully queried emails are saved in this browser": an address that is new in
\* the history was answered.  (It does not hold: an answer that breaks off counts as
\* a success.)
HistoryHoldsAnsweredOnly ==
  [][\A a \in Range(history') \ (Range(history) \cup Range(stored)) :
       \E k \in Calls : query'[k].address = a /\ query'[k].stage = "answered"]_vars
===============================================================================
