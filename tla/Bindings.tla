------------------------------- MODULE Bindings -------------------------------
(***************************************************************************)
(* src/src/admin/bindings-service.js over the bindings table of            *)
(* src/src/shared/database.js: the mailbox bindings that the admin process *)
(* edits while several of its requests are under way.  Every request that  *)
(* brings or tests an address JWT awaits the upstream service between the  *)
(* row it read and the row it writes; the version column decides whether   *)
(* the write still applies.  SQLite calls are synchronous, so whatever     *)
(* stands between two awaits is one action.                                *)
(*                                                                         *)
(* The AES-GCM envelope is abstracted to the address it was sealed for:    *)
(* decryptAddressJwt succeeds exactly when that is the row's address       *)
(* (aadFor).  Timestamps, notes and the audit log, which no code reads     *)
(* back, are left out.                                                     *)
(***************************************************************************)
EXTENDS Integers, FiniteSets

CONSTANTS Requests,      \* calls of the service, one use each
          Externals,     \* normalized external ids
          Addresses,     \* mailbox addresses
          Tokens,        \* address JWTs
          AddressOf,     \* the address claim of a JWT
          NoRow, NoCall  \* absent row, request not under way

ASSUME BindingsAssumption ==
  /\ AddressOf \in [Tokens -> Addresses]
  /\ IsFiniteSet(Requests)

\* Every row is inserted by a request of its own, and every write is one
\* request's: neither ids nor versions exceed the number of requests.
Ids == 1 .. Cardinality(Requests)

VARIABLES rows,      \* the table bindings, by id
          call,      \* what a request under way remembers across its await
          result,    \* how a request ended
          life,      \* history: how often an id has been inserted
          crossed,   \* history: ids whose row took a write meant for the row
                     \* that had the id before
          accepted,  \* history: JWTs the upstream has confirmed
          refused    \* history: JWTs the upstream has refused with 400

vars == <<rows, call, result, life, crossed, accepted, refused>>

Row == [external : Externals, address : Addresses, seal : Addresses, token : Tokens,
        status : {"valid", "invalid", "unknown"}, version : Nat]
Call == [kind : {"create", "update", "replace", "test"}, id : Ids \cup {0},
         version : Nat, external : Externals, address : Addresses,
         token : Tokens, life : Nat]

TypeOK ==
  /\ rows \in [Ids -> Row \cup {NoRow}]
  /\ call \in [Requests -> Call \cup {NoCall}]
  /\ result \in [Requests -> {"none", "ok", "error"}]
  /\ life \in [Ids -> Nat]
  /\ crossed \in SUBSET Ids
  /\ accepted \in SUBSET Tokens
  /\ refused \in SUBSET Tokens

Init ==
  /\ rows = [i \in Ids |-> NoRow]
  /\ call = [q \in Requests |-> NoCall]
  /\ result = [q \in Requests |-> "none"]
  /\ life = [i \in Ids |-> 0]
  /\ crossed = {}
  /\ accepted = {}
  /\ refused = {}

Used == {i \in Ids : rows[i] # NoRow}

\* INTEGER PRIMARY KEY without AUTOINCREMENT: one more than the largest id in
\* the table, so the id of a deleted last row is given out again.
IsNextId(id) == (\A k \in Used : k < id) /\ (id = 1 \/ id - 1 \in Used)

\* Mutant: the address has no unique index.
TakenExternalOnly(external, address, except) ==
  \E i \in Used \ {except} : rows[i].external = external

\* UNIQUE (external_id_type, external_id_norm) and UNIQUE (address).
Taken(external, address, except) ==
  \E i \in Used \ {except} : rows[i].external = external \/ rows[i].address = address

-------------------------------------------------------------------------------

Fresh(q) == result[q] = "none" /\ call[q] = NoCall
Await(q, c) == call' = [call EXCEPT ![q] = c]
End(q, how) ==
  /\ call' = [call EXCEPT ![q] = NoCall]
  /\ result' = [result EXCEPT ![q] = how]

\* Mutant: the WHERE clause forgets the version.
MatchesAnyVersion(id, version) == rows[id] # NoRow

\* UPDATE ... SET version = version + 1 WHERE id = ? AND version = ?
Matches(id, version) == rows[id] # NoRow /\ rows[id].version = version

\* The row r is written over the one with c's id, on behalf of the call c.
Overwrite(c, r) ==
  /\ rows' = [rows EXCEPT ![c.id] = [r EXCEPT !.version = @ + 1]]
  /\ crossed' = IF c.life = life[c.id] THEN crossed ELSE crossed \cup {c.id}

\* requireById and the version check at the start of a request, by a client that
\* has seen the row's version.
Read(id, kind, external, token) ==
  [kind |-> kind, id |-> id, version |-> rows[id].version, external |-> external,
   address |-> rows[id].address, token |-> token, life |-> life[id]]

\* A request for a row that is gone, or with a version it no longer has.
Stale(q) ==
  /\ Fresh(q)
  /\ \E i \in Ids : life[i] > 0
  /\ End(q, "error")
  /\ UNCHANGED <<rows, life, crossed, accepted, refused>>

StartCreate(q) ==
  /\ Fresh(q)
  /\ \E external \in Externals, token \in Tokens :
       Await(q, [kind |-> "create", id |-> 0, version |-> 0, external |-> external,
                 address |-> AddressOf[token], token |-> token, life |-> 0])
  /\ UNCHANGED <<rows, result, life, crossed, accepted, refused>>

\* update() without address_jwt has no await: the row is read and written at once.
UpdateFields(q) ==
  /\ Fresh(q)
  /\ \E id \in Used, external \in Externals :
       LET c == Read(id, "update", external, rows[id].token) IN
       IF Taken(external, c.address, id)
       THEN /\ End(q, "error")
            /\ UNCHANGED <<rows, crossed>>
       ELSE /\ Overwrite(c, [rows[id] EXCEPT !.external = external])
            /\ End(q, "ok")
  /\ UNCHANGED <<life, accepted, refused>>

StartUpdate(q) ==
  /\ Fresh(q)
  /\ \E id \in Used, external \in Externals, token \in Tokens :
       Await(q, Read(id, "update", external, token))
  /\ UNCHANGED <<rows, result, life, crossed, accepted, refused>>

StartReplace(q) ==
  /\ Fresh(q)
  /\ \E id \in Used, token \in Tokens : Await(q, Read(id, "replace", rows[id].external, token))
  /\ UNCHANGED <<rows, result, life, crossed, accepted, refused>>

\* testCredential decrypts before its try: an envelope that does not open ends
\* the request and leaves the row alone.
StartTest(q) ==
  /\ Fresh(q)
  /\ \E id \in Used :
       IF rows[id].seal = rows[id].address
       THEN /\ Await(q, Read(id, "test", rows[id].external, rows[id].token))
            /\ UNCHANGED result
       ELSE End(q, "error")
  /\ UNCHANGED <<rows, life, crossed, accepted, refused>>

Delete(q) ==
  /\ Fresh(q)
  /\ \E id \in Used : rows' = [rows EXCEPT ![id] = NoRow] /\ crossed' = crossed \ {id}
  /\ End(q, "ok")
  /\ UNCHANGED <<life, accepted, refused>>

-------------------------------------------------------------------------------
(* The upstream answers: #decodeAndVerifyJwt (getSettings) for create, update *)
(* and replace, getMails for test.  The rest of the request follows without   *)
(* an await.                                                                  *)

Confirmed(q, kind) ==
  /\ call[q] # NoCall
  /\ call[q].kind = kind
  /\ accepted' = accepted \cup {call[q].token}
  /\ UNCHANGED refused

InsertRow(c) ==
  \E id \in Ids :
    /\ IsNextId(id)
    /\ rows' = [rows EXCEPT ![id] =
                  [external |-> c.external, address |-> c.address, seal |-> c.address,
                   token |-> c.token, status |-> "valid", version |-> 1]]
    /\ life' = [life EXCEPT ![id] = @ + 1]

CreateConfirmed(q) ==
  LET c == call[q] IN
  /\ Confirmed(q, "create")
  /\ IF Taken(c.external, c.address, 0)
     THEN /\ End(q, "error")
          /\ UNCHANGED <<rows, life>>
     ELSE /\ InsertRow(c)
          /\ End(q, "ok")
  /\ UNCHANGED crossed

\* Mutant: the new JWT is sealed for the address the row had.
UpdateSealingForTheOldAddress(q) ==
  LET c == call[q]
      address == AddressOf[c.token]
  IN
  /\ Confirmed(q, "update")
  /\ IF ~Matches(c.id, c.version) \/ Taken(c.external, address, c.id)
     THEN /\ End(q, "error")
          /\ UNCHANGED <<rows, crossed>>
     ELSE /\ Overwrite(c, [external |-> c.external, address |-> address, seal |-> c.address,
                           token |-> c.token, status |-> "valid", version |-> c.version])
          /\ End(q, "ok")
  /\ UNCHANGED life

UpdateConfirmed(q) ==
  LET c == call[q]
      address == AddressOf[c.token]
  IN
  /\ Confirmed(q, "update")
  /\ IF ~Matches(c.id, c.version) \/ Taken(c.external, address, c.id)
     THEN /\ End(q, "error")
          /\ UNCHANGED <<rows, crossed>>
     ELSE /\ Overwrite(c, [external |-> c.external, address |-> address, seal |-> address,
                           token |-> c.token, status |-> "valid", version |-> c.version])
          /\ End(q, "ok")
  /\ UNCHANGED life

\* Mutant: the status of the JWT that is replaced stays.
ReplaceKeepingTheStatus(q) ==
  LET c == call[q] IN
  /\ Confirmed(q, "replace")
  /\ IF AddressOf[c.token] # c.address \/ ~Matches(c.id, c.version)
     THEN /\ End(q, "error")
          /\ UNCHANGED <<rows, crossed>>
     ELSE /\ Overwrite(c, [rows[c.id] EXCEPT !.seal = c.address, !.token = c.token])
          /\ End(q, "ok")
  /\ UNCHANGED life

\* The JWT is sealed for the address that was read before the await.
ReplaceConfirmed(q) ==
  LET c == call[q] IN
  /\ Confirmed(q, "replace")
  /\ IF AddressOf[c.token] # c.address \/ ~Matches(c.id, c.version)
     THEN /\ End(q, "error")
          /\ UNCHANGED <<rows, crossed>>
     ELSE /\ Overwrite(c, [rows[c.id] EXCEPT !.seal = c.address, !.token = c.token,
                                             !.status = "valid"])
          /\ End(q, "ok")
  /\ UNCHANGED life

TestConfirmed(q) ==
  LET c == call[q] IN
  /\ Confirmed(q, "test")
  /\ IF ~Matches(c.id, c.version)
     THEN /\ End(q, "error")
          /\ UNCHANGED <<rows, crossed>>
     ELSE /\ Overwrite(c, [rows[c.id] EXCEPT !.status = "valid"])
          /\ End(q, "ok")
  /\ UNCHANGED life

\* A 400 makes the credential invalid, any other failure unknown; when the row
\* has moved on, the conflict is logged and the row stays as it is.
TestFailed(q) ==
  LET c == call[q] IN
  /\ c # NoCall
  /\ c.kind = "test"
  /\ \E status \in {"invalid", "unknown"} :
       /\ refused' = IF status = "invalid" THEN refused \cup {c.token} ELSE refused
       /\ IF Matches(c.id, c.version)
          THEN Overwrite(c, [rows[c.id] EXCEPT !.status = status])
          ELSE UNCHANGED <<rows, crossed>>
  /\ End(q, "error")
  /\ UNCHANGED <<life, accepted>>

\* The upstream refuses, times out, or the client goes away.
VerifyFailed(q) ==
  /\ call[q] # NoCall
  /\ call[q].kind # "test"
  /\ End(q, "error")
  /\ UNCHANGED <<rows, life, crossed, accepted, refused>>

\* The process stops: what is committed stays, what awaits is gone.
Restart ==
  /\ \E q \in Requests : call[q] # NoCall
  /\ result' = [q \in Requests |-> IF call[q] # NoCall THEN "error" ELSE result[q]]
  /\ call' = [q \in Requests |-> NoCall]
  /\ UNCHANGED <<rows, life, crossed, accepted, refused>>

Next ==
  \/ \E q \in Requests :
       \/ Stale(q) \/ UpdateFields(q) \/ Delete(q)
       \/ StartCreate(q) \/ StartUpdate(q) \/ StartReplace(q) \/ StartTest(q)
       \/ CreateConfirmed(q) \/ UpdateConfirmed(q) \/ ReplaceConfirmed(q)
       \/ TestConfirmed(q) \/ TestFailed(q) \/ VerifyFailed(q)
  \/ Restart

Spec == Init /\ [][Next]_vars

-------------------------------------------------------------------------------

\* An external id leads to one mailbox and a mailbox belongs to one external id,
\* whatever two requests checked before they awaited the upstream.
BindingsUnique ==
  \A i, k \in Used :
    rows[i].external = rows[k].external \/ rows[i].address = rows[k].address => i = k

\* The stored JWT opens with the row's own address, so that public queries can
\* decrypt it, and is a JWT for that address: a change of address never leaves
\* the envelope of the old one behind, nor the other way round.  This is said of
\* the rows that took no write meant for an earlier row with their id; of the
\* others it is false (StoredJwtIsForItsAddress, the run bindings_reuse).
SealedForItsAddress ==
  \A i \in Used \ crossed :
    rows[i].seal = rows[i].address /\ AddressOf[rows[i].token] = rows[i].address

\* The same of every row, as the answers of replaceCredential claim it
\* (bindings-service.js:115): a JWT of another mailbox is never stored by it.
StoredJwtIsForItsAddress ==
  \A i \in Used : rows[i].seal = rows[i].address /\ AddressOf[rows[i].token] = rows[i].address

\* "valid" means that the upstream confirmed the JWT that is stored now, and
\* "invalid" that it refused that one: a verdict never sticks to a JWT that came
\* while the test was awaiting.  Again the rows that took a write meant for an
\* earlier row with their id are left aside.
VerdictFitsStoredJwt ==
  \A i \in Used \ crossed :
    /\ rows[i].status = "valid" => rows[i].token \in accepted
    /\ rows[i].status = "invalid" => rows[i].token \in refused

\* A request that awaited writes over exactly the row it read, not over what
\* another request wrote in between, as long as the row was not deleted.
NoLostUpdate ==
  [][\A q \in Requests :
       call[q] # NoCall /\ call'[q] = NoCall =>
         LET c == call[q] IN
         c.id # 0 /\ rows'[c.id] # rows[c.id] /\ c.life = life[c.id] =>
           rows[c.id].version = c.version /\ rows[c.id].address = c.address]_vars
===============================================================================
