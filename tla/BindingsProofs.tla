---------------------------- MODULE BindingsProofs ----------------------------
(* TLAPS proofs about Bindings, for any requests, keys, mailboxes and JWTs.    *)
EXTENDS Bindings, TLAPS

Types ==
  /\ rows \in [Ids -> Row \cup {NoRow}]
  /\ call \in [Requests -> Call \cup {NoCall}]
  /\ life \in [Ids -> Nat]
  /\ crossed \in SUBSET Ids

\* What a request remembers across its await is true of the row as long as the row
\* has the version that was read and was not deleted.
Fits(c) ==
  /\ c.kind = "create" => c.id = 0 /\ c.address = AddressOf[c.token]
  /\ c.kind # "create" => c.id \in Ids
  /\ c.id \in Ids =>
       /\ c.life <= life[c.id]
       /\ rows[c.id] # NoRow /\ c.life = life[c.id] =>
            /\ c.version <= rows[c.id].version
            /\ c.version = rows[c.id].version =>
                 /\ rows[c.id].address = c.address
                 /\ c.kind = "test" => rows[c.id].token = c.token

CallsFit == \A q \in Requests : call[q] # NoCall => Fits(call[q])

\* A row whose envelope, JWT and verdict belong together.
Good(r, confirmed, denied) ==
  /\ r.seal = r.address /\ AddressOf[r.token] = r.address
  /\ r.status = "valid" => r.token \in confirmed
  /\ r.status = "invalid" => r.token \in denied

RowsGood == \A i \in Used \ crossed : Good(rows[i], accepted, refused)

IInv == Types /\ CallsFit /\ RowsGood /\ BindingsUnique

LEMMA Initially == Init => IInv
BY DEF Init, IInv, Types, CallsFit, RowsGood, BindingsUnique, Used

-------------------------------------------------------------------------------
(* What a step can do to the table. *)

Overwritten(id, r) ==
  /\ r.version = rows[id].version
  /\ rows' = [rows EXCEPT ![id] = [r EXCEPT !.version = @ + 1]]
  /\ UNCHANGED life

Inserted(id, r) ==
  /\ rows' = [rows EXCEPT ![id] = r]
  /\ life' = [life EXCEPT ![id] = @ + 1]

Deleted(id) == rows' = [rows EXCEPT ![id] = NoRow] /\ UNCHANGED life

TableStep ==
  \/ UNCHANGED <<rows, life>>
  \/ \E id \in Used, r \in Row : Overwritten(id, r)
  \/ \E id \in Ids \ Used, r \in Row : Inserted(id, r)
  \/ \E id \in Ids : Deleted(id)

\* A request that awaits is not disturbed by what others do: the version or the life
\* of the row tells.
LEMMA TableStepKeepsFits ==
  ASSUME Types, TableStep, NEW c \in Call, Fits(c)
  PROVE  Fits(c)'
<1> USE DEF Types, Fits, Row, Call, Used
<1>1. CASE UNCHANGED <<rows, life>>
  BY <1>1
<1>2. ASSUME NEW id \in Used, NEW r \in Row, Overwritten(id, r) PROVE Fits(c)'
  BY <1>2 DEF Overwritten
<1>3. ASSUME NEW id \in Ids \ Used, NEW r \in Row, Inserted(id, r) PROVE Fits(c)'
  BY <1>3 DEF Inserted
<1>4. ASSUME NEW id \in Ids, Deleted(id) PROVE Fits(c)'
  BY <1>4 DEF Deleted
<1> QED  BY <1>1, <1>2, <1>3, <1>4 DEF TableStep

\* The row that a request reads at its start.
LEMMA ReadFits ==
  ASSUME Types, NEW id \in Used, NEW external \in Externals, NEW token \in Tokens,
         NEW kind \in {"update", "replace", "test"},
         kind = "test" => token = rows[id].token
  PROVE  Read(id, kind, external, token) \in Call /\ Fits(Read(id, kind, external, token))
BY DEF Types, Used, Row, Call, Read, Fits

LEMMA RowsAreRows == ASSUME Types, NEW id \in Used PROVE id \in Ids /\ rows[id] \in Row
BY DEF Types, Used

\* The call of an answered request, and the row it found.
LEMMA CallsAreCalls ==
  ASSUME IInv, NEW q \in Requests, call[q] # NoCall
  PROVE  /\ call[q] \in Call /\ Fits(call[q])
         /\ call[q].kind # "create" /\ Matches(call[q].id, call[q].version) => call[q].id \in Used
BY DEF IInv, Types, CallsFit, Fits, Matches, Used

\* A new row, or a new version of one, leaves the unique indexes alone.
LEMMA WriteKeepsUnique ==
  ASSUME Types, BindingsUnique, NEW id \in Ids, NEW r \in Row, NEW s \in Row,
         ~Taken(r.external, r.address, id),
         s.external = r.external, s.address = r.address,
         rows' = [rows EXCEPT ![id] = s]
  PROVE  BindingsUnique'
BY DEF Types, BindingsUnique, Taken, Used

LEMMA OwnKeysAreFree ==
  ASSUME BindingsUnique, NEW id \in Used
  PROVE  ~Taken(rows[id].external, rows[id].address, id)
BY DEF BindingsUnique, Taken

\* A write on behalf of a call, the good row r over the one that has its id.
LEMMA OverwriteKeeps ==
  ASSUME IInv, NEW c \in Call, c.id \in Used, NEW r \in Row,
         r.version = rows[c.id].version,
         Overwrite(c, r), UNCHANGED life, accepted \subseteq accepted', refused \subseteq refused',
         ~Taken(r.external, r.address, c.id),
         c.life = life[c.id] /\ c.id \notin crossed => Good(r, accepted', refused')
  PROVE  /\ TableStep /\ RowsGood' /\ BindingsUnique'
         /\ rows' \in [Ids -> Row \cup {NoRow}] /\ crossed' \in SUBSET Ids
<1> DEFINE s == [r EXCEPT !.version = @ + 1]
<1>1. c.id \in Ids /\ s \in Row
  BY DEF Row, Used
<1>2. rows' = [rows EXCEPT ![c.id] = s]
  BY DEF Overwrite
<1>3. TableStep
  BY <1>2 DEF TableStep, Overwritten
<1>4. rows' \in [Ids -> Row \cup {NoRow}] /\ crossed' \in SUBSET Ids
  BY <1>1, <1>2 DEF IInv, Types, Overwrite
<1>5. s.external = r.external /\ s.address = r.address /\ s.seal = r.seal
      /\ s.token = r.token /\ s.status = r.status
  BY DEF Row
<1>6. BindingsUnique'
  BY <1>1, <1>2, <1>5, WriteKeepsUnique DEF IInv
<1>7. RowsGood'
  <2> SUFFICES ASSUME NEW i \in Used' \ crossed' PROVE Good(rows'[i], accepted', refused')
    BY DEF RowsGood
  <2>1. CASE i = c.id
    BY <2>1, <1>1, <1>2, <1>5 DEF Overwrite, IInv, Types, Good
  <2>2. CASE i # c.id
    <3>1. rows'[i] = rows[i] /\ i \in Used \ crossed
      BY <2>2, <1>2 DEF IInv, Types, Used, Overwrite
    <3> QED  BY <3>1 DEF IInv, RowsGood, Good
  <2> QED  BY <2>1, <2>2
<1> QED  BY <1>3, <1>4, <1>6, <1>7

\* An ended request remembers nothing, and the others keep what they remember.
LEMMA EndKeepsCalls ==
  ASSUME IInv, TableStep, NEW q \in Requests, NEW how, End(q, how)
  PROVE  CallsFit' /\ call' \in [Requests -> Call \cup {NoCall}]
<1>1. call' \in [Requests -> Call \cup {NoCall}]
  BY DEF IInv, Types, End
<1>2. ASSUME NEW p \in Requests, call'[p] # NoCall PROVE Fits(call[p])' 
  <2>1. call'[p] = call[p] /\ call[p] # NoCall
    BY <1>2 DEF End, IInv, Types
  <2>2. call[p] \in Call /\ Fits(call[p])
    BY <2>1, CallsAreCalls
  <2>3. \A c \in Call : Fits(c) => Fits(c)'
    BY TableStepKeepsFits DEF IInv
  <2> QED  BY <2>1, <2>2, <2>3 DEF Fits
<1> QED  BY <1>1, <1>2 DEF CallsFit

\* A step that leaves the table and its history alone, but for verdicts that come in.
LEMMA QuietKeepsRows ==
  ASSUME IInv, UNCHANGED <<rows, life, crossed>>,
         accepted \subseteq accepted', refused \subseteq refused'
  PROVE  TableStep /\ RowsGood' /\ BindingsUnique'
<1>1. RowsGood'
  BY DEF IInv, RowsGood, Good, Used
<1>2. BindingsUnique'
  BY DEF IInv, BindingsUnique, Used
<1> QED  BY <1>1, <1>2 DEF TableStep

\* A request that fails changes no row.
LEMMA ErrorKeeps ==
  ASSUME IInv, NEW q \in Requests, End(q, "error"), UNCHANGED <<rows, life, crossed>>,
         accepted \subseteq accepted', refused \subseteq refused'
  PROVE  IInv'
<1>1. TableStep /\ RowsGood' /\ BindingsUnique'
  BY QuietKeepsRows
<1>2. CallsFit' /\ call' \in [Requests -> Call \cup {NoCall}]
  BY <1>1, EndKeepsCalls
<1> QED  BY <1>1, <1>2 DEF IInv, Types

\* A request begins to await.
LEMMA AwaitKeeps ==
  ASSUME IInv, NEW q \in Requests, NEW c \in Call, Fits(c), Await(q, c),
         UNCHANGED <<rows, life, crossed, accepted, refused>>
  PROVE  IInv'
<1>1. RowsGood' /\ BindingsUnique'
  BY QuietKeepsRows
<1>2. CallsFit' /\ call' \in [Requests -> Call \cup {NoCall}]
  BY DEF IInv, Types, CallsFit, Await, Fits
<1> QED  BY <1>1, <1>2 DEF IInv, Types

\* A request writes a row and ends.
LEMMA WriteKeeps ==
  ASSUME IInv, NEW q \in Requests, NEW how, End(q, how),
         NEW c \in Call, c.id \in Used, NEW r \in Row,
         r.version = rows[c.id].version,
         Overwrite(c, r), UNCHANGED life, accepted \subseteq accepted', refused \subseteq refused',
         ~Taken(r.external, r.address, c.id),
         c.life = life[c.id] /\ c.id \notin crossed => Good(r, accepted', refused')
  PROVE  IInv'
<1>1. /\ TableStep /\ RowsGood' /\ BindingsUnique'
      /\ rows' \in [Ids -> Row \cup {NoRow}] /\ crossed' \in SUBSET Ids
  BY OverwriteKeeps
<1>2. CallsFit' /\ call' \in [Requests -> Call \cup {NoCall}]
  BY <1>1, EndKeepsCalls
<1> QED  BY <1>1, <1>2 DEF IInv, Types

-------------------------------------------------------------------------------
(* The actions. *)

LEMMA StartsKeep ==
  ASSUME IInv, NEW q \in Requests,
         StartCreate(q) \/ StartUpdate(q) \/ StartReplace(q) \/ StartTest(q)
  PROVE  IInv'
<1>1. CASE StartCreate(q)
  <2>1. PICK external \in Externals, token \in Tokens :
          Await(q, [kind |-> "create", id |-> 0, version |-> 0, external |-> external,
                    address |-> AddressOf[token], token |-> token, life |-> 0])
    BY <1>1 DEF StartCreate
  <2> DEFINE c == [kind |-> "create", id |-> 0, version |-> 0, external |-> external,
                   address |-> AddressOf[token], token |-> token, life |-> 0]
  <2>2. c \in Call /\ Fits(c)
    BY BindingsAssumption DEF Call, Fits, Ids
  <2> QED  BY <1>1, <2>1, <2>2, AwaitKeeps DEF StartCreate
<1>2. CASE StartUpdate(q)
  <2>1. PICK id \in Used, external \in Externals, token \in Tokens :
          Await(q, Read(id, "update", external, token))
    BY <1>2 DEF StartUpdate
  <2>2. Read(id, "update", external, token) \in Call /\ Fits(Read(id, "update", external, token))
    BY ReadFits DEF IInv
  <2> QED  BY <1>2, <2>1, <2>2, AwaitKeeps DEF StartUpdate
<1>3. CASE StartReplace(q)
  <2>1. PICK id \in Used, token \in Tokens : Await(q, Read(id, "replace", rows[id].external, token))
    BY <1>3 DEF StartReplace
  <2>2. rows[id].external \in Externals
    BY RowsAreRows DEF IInv, Row
  <2>3. /\ Read(id, "replace", rows[id].external, token) \in Call
        /\ Fits(Read(id, "replace", rows[id].external, token))
    BY <2>2, ReadFits DEF IInv
  <2> QED  BY <1>3, <2>1, <2>3, AwaitKeeps DEF StartReplace
<1>4. CASE StartTest(q)
  <2>1. PICK id \in Used :
          \/ Await(q, Read(id, "test", rows[id].external, rows[id].token))
          \/ End(q, "error")
    BY <1>4 DEF StartTest
  <2>2. rows[id].external \in Externals /\ rows[id].token \in Tokens
    BY RowsAreRows DEF IInv, Row
  <2>3. /\ Read(id, "test", rows[id].external, rows[id].token) \in Call
        /\ Fits(Read(id, "test", rows[id].external, rows[id].token))
    BY <2>2, ReadFits DEF IInv
  <2> QED  BY <1>4, <2>1, <2>3, AwaitKeeps, ErrorKeeps DEF StartTest
<1> QED  BY <1>1, <1>2, <1>3, <1>4

LEMMA UpdateFieldsKeeps == ASSUME IInv, NEW q \in Requests, UpdateFields(q) PROVE IInv'
<1>1. PICK id \in Used, external \in Externals :
        LET c == Read(id, "update", external, rows[id].token) IN
        IF Taken(external, c.address, id)
        THEN End(q, "error") /\ UNCHANGED <<rows, crossed>>
        ELSE Overwrite(c, [rows[id] EXCEPT !.external = external]) /\ End(q, "ok")
  BY DEF UpdateFields
<1> DEFINE c == Read(id, "update", external, rows[id].token)
           r == [rows[id] EXCEPT !.external = external]
<1>2. id \in Ids /\ rows[id] \in Row
  BY RowsAreRows DEF IInv
<1>3. c \in Call /\ c.id = id /\ c.address = rows[id].address /\ c.life = life[id]
  BY <1>2, ReadFits DEF IInv, Row, Read
<1>4. /\ r \in Row /\ r.version = rows[id].version /\ r.external = external
      /\ r.address = rows[id].address
      /\ r.seal = rows[id].seal /\ r.token = rows[id].token /\ r.status = rows[id].status
  BY <1>2 DEF Row
<1>5. CASE Taken(external, c.address, id)
  BY <1>1, <1>5, ErrorKeeps DEF UpdateFields
<1>6. CASE ~Taken(external, c.address, id)
  <2>1. id \notin crossed => Good(r, accepted', refused')
    BY <1>4 DEF UpdateFields, IInv, RowsGood, Good
  <2> HIDE DEF c, r
  <2>2. Overwrite(c, r) /\ End(q, "ok")
    BY <1>1, <1>6 DEF c, r
  <2>3. ~Taken(r.external, r.address, c.id)
    BY <1>3, <1>4, <1>6
  <2> QED  BY <1>3, <1>4, <2>1, <2>2, <2>3, WriteKeeps DEF UpdateFields
<1> QED  BY <1>5, <1>6

LEMMA DeleteKeeps == ASSUME IInv, NEW q \in Requests, Delete(q) PROVE IInv'
<1>1. PICK id \in Used : rows' = [rows EXCEPT ![id] = NoRow] /\ crossed' = crossed \ {id}
  BY DEF Delete
<1>2. TableStep
  BY <1>1 DEF Delete, TableStep, Deleted, Used
<1>3. CallsFit' /\ call' \in [Requests -> Call \cup {NoCall}]
  BY <1>2, EndKeepsCalls DEF Delete
<1>4. rows' \in [Ids -> Row \cup {NoRow}] /\ crossed' \in SUBSET Ids
  BY <1>1 DEF IInv, Types
<1>5. RowsGood' /\ BindingsUnique'
  <2>1. \A i \in Used' : i \in Used /\ i # id /\ rows'[i] = rows[i]
    BY <1>1 DEF IInv, Types, Used
  <2> QED  BY <1>1, <2>1 DEF Delete, IInv, RowsGood, BindingsUnique, Good
<1> QED  BY <1>3, <1>4, <1>5 DEF Delete, IInv, Types

LEMMA CreateKeeps == ASSUME IInv, NEW q \in Requests, CreateConfirmed(q) PROVE IInv'
<1> DEFINE c == call[q]
<1>1. c \in Call /\ c.kind = "create" /\ c.address = AddressOf[c.token]
  BY CallsAreCalls DEF CreateConfirmed, Confirmed, Fits
<1>2. accepted' = accepted \cup {c.token} /\ refused' = refused /\ crossed' = crossed
  BY DEF CreateConfirmed, Confirmed
<1>3. CASE Taken(c.external, c.address, 0)
  BY <1>2, <1>3, ErrorKeeps DEF CreateConfirmed
<1>4. CASE ~Taken(c.external, c.address, 0)
  <2> DEFINE r == [external |-> c.external, address |-> c.address, seal |-> c.address,
                   token |-> c.token, status |-> "valid", version |-> 1]
  <2>1. PICK id \in Ids : /\ IsNextId(id) /\ rows' = [rows EXCEPT ![id] = r]
                         /\ life' = [life EXCEPT ![id] = @ + 1]
    BY <1>4 DEF CreateConfirmed, InsertRow
  <2>2. id \notin Used
    BY <2>1 DEF IsNextId, Used, Ids
  <2>3. r \in Row
    BY <1>1 DEF Call, Row
  <2>4. TableStep
    BY <2>1, <2>2, <2>3 DEF TableStep, Inserted
  <2>5. CallsFit' /\ call' \in [Requests -> Call \cup {NoCall}]
    BY <1>4, <2>4, EndKeepsCalls DEF CreateConfirmed
  <2>6. rows' \in [Ids -> Row \cup {NoRow}] /\ life' \in [Ids -> Nat]
    BY <2>1, <2>3 DEF IInv, Types
  <2>7. ~Taken(r.external, r.address, id)
    BY <1>4 DEF Taken, Ids, Used
  <2>8. BindingsUnique'
    BY <2>1, <2>3, <2>7, WriteKeepsUnique DEF IInv
  <2>9. Good(r, accepted', refused')
    BY <1>1, <1>2 DEF Good
  <2>10. \A i \in Used' : (i = id /\ rows'[i] = r) \/ (i \in Used /\ rows'[i] = rows[i])
    BY <2>1 DEF IInv, Types, Used
  <2>11. RowsGood'
    <3> HIDE DEF r, c
    <3> QED  BY <1>2, <2>9, <2>10 DEF IInv, RowsGood, Good
  <2> QED  BY <1>2, <2>5, <2>6, <2>8, <2>11 DEF IInv, Types
<1> QED  BY <1>3, <1>4

LEMMA UpdateKeeps == ASSUME IInv, NEW q \in Requests, UpdateConfirmed(q) PROVE IInv'
<1> DEFINE c == call[q]
           address == AddressOf[c.token]
           r == [external |-> c.external, address |-> address, seal |-> address,
                 token |-> c.token, status |-> "valid", version |-> c.version]
<1>1. c \in Call /\ c.kind = "update" /\ (Matches(c.id, c.version) => c.id \in Used)
  BY CallsAreCalls DEF UpdateConfirmed, Confirmed
<1>2. accepted' = accepted \cup {c.token} /\ refused' = refused /\ UNCHANGED life
  BY DEF UpdateConfirmed, Confirmed
<1>3. CASE ~Matches(c.id, c.version) \/ Taken(c.external, address, c.id)
  BY <1>2, <1>3, ErrorKeeps DEF UpdateConfirmed
<1>4. CASE Matches(c.id, c.version) /\ ~Taken(c.external, address, c.id)
  <2>1. r \in Row /\ r.version = rows[c.id].version
    BY <1>1, <1>4, BindingsAssumption DEF Call, Row, Matches
  <2>2. Good(r, accepted', refused')
    BY <1>2 DEF Good
  <2>3. Overwrite(c, r) /\ End(q, "ok")
    BY <1>4 DEF UpdateConfirmed
  <2>4. ~Taken(r.external, r.address, c.id)
    BY <1>4
  <2> HIDE DEF c, r
  <2> QED  BY <1>1, <1>2, <1>4, <2>1, <2>2, <2>3, <2>4, WriteKeeps
<1> QED  BY <1>3, <1>4

\* replaceCredential and testCredential write the row as they find it now, but for the
\* JWT or the verdict: its keys stay its own.
LEMMA RewriteKeeps ==
  ASSUME IInv, NEW q \in Requests, NEW how, End(q, how), call[q] # NoCall,
         call[q].kind # "create", Matches(call[q].id, call[q].version),
         NEW r \in Row, r.version = rows[call[q].id].version,
         r.external = rows[call[q].id].external, r.address = rows[call[q].id].address,
         Overwrite(call[q], r), UNCHANGED life,
         accepted \subseteq accepted', refused \subseteq refused',
         /\ call[q].life = life[call[q].id] /\ call[q].id \notin crossed
         /\ rows[call[q].id].address = call[q].address
         /\ call[q].kind = "test" => rows[call[q].id].token = call[q].token
         => Good(r, accepted', refused')
  PROVE  IInv'
<1>1. call[q] \in Call /\ call[q].id \in Used /\ Fits(call[q])
  BY CallsAreCalls
<1>2. call[q].life = life[call[q].id] =>
        /\ rows[call[q].id].address = call[q].address
        /\ call[q].kind = "test" => rows[call[q].id].token = call[q].token
  BY <1>1 DEF Fits, Matches, Used
<1>3. ~Taken(r.external, r.address, call[q].id)
  BY <1>1, OwnKeysAreFree DEF IInv
<1> QED  BY <1>1, <1>2, <1>3, WriteKeeps

LEMMA ReplaceKeeps == ASSUME IInv, NEW q \in Requests, ReplaceConfirmed(q) PROVE IInv'
<1> DEFINE c == call[q]
           r == [rows[c.id] EXCEPT !.seal = c.address, !.token = c.token, !.status = "valid"]
<1>1. c # NoCall /\ c \in Call /\ c.kind = "replace"
      /\ (Matches(c.id, c.version) => c.id \in Used)
  BY CallsAreCalls DEF ReplaceConfirmed, Confirmed
<1>2. accepted' = accepted \cup {c.token} /\ refused' = refused /\ UNCHANGED life
  BY DEF ReplaceConfirmed, Confirmed
<1>3. CASE AddressOf[c.token] # c.address \/ ~Matches(c.id, c.version)
  BY <1>2, <1>3, ErrorKeeps DEF ReplaceConfirmed
<1>4. CASE AddressOf[c.token] = c.address /\ Matches(c.id, c.version)
  <2>1. rows[c.id] \in Row
    BY <1>1, <1>4, RowsAreRows DEF IInv
  <2>2. /\ r \in Row /\ r.version = rows[c.id].version /\ r.external = rows[c.id].external
        /\ r.address = rows[c.id].address
        /\ r.seal = c.address /\ r.token = c.token /\ r.status = "valid"
    BY <1>1, <2>1 DEF Call, Row
  <2>3. rows[c.id].address = c.address => Good(r, accepted', refused')
    BY <1>2, <1>4, <2>2 DEF Good
  <2>4. Overwrite(c, r) /\ End(q, "ok")
    BY <1>4 DEF ReplaceConfirmed
  <2> HIDE DEF r
  <2> QED  BY <1>1, <1>2, <1>4, <2>2, <2>3, <2>4, RewriteKeeps
<1> QED  BY <1>3, <1>4

\* The verdict of a test fits the JWT that the row still has.
LEMMA VerdictKeeps ==
  ASSUME IInv, NEW q \in Requests, NEW how, End(q, how), call[q] # NoCall,
         call[q].kind = "test", Matches(call[q].id, call[q].version),
         NEW status \in {"valid", "invalid", "unknown"},
         Overwrite(call[q], [rows[call[q].id] EXCEPT !.status = status]), UNCHANGED life,
         accepted \subseteq accepted', refused \subseteq refused',
         status = "valid" => call[q].token \in accepted',
         status = "invalid" => call[q].token \in refused'
  PROVE  IInv'
<1> DEFINE c == call[q]
           r == [rows[c.id] EXCEPT !.status = status]
<1>1. c.id \in Used /\ rows[c.id] \in Row
  BY CallsAreCalls, RowsAreRows DEF IInv
<1>2. /\ r \in Row /\ r.version = rows[c.id].version /\ r.external = rows[c.id].external
      /\ r.address = rows[c.id].address /\ r.seal = rows[c.id].seal
      /\ r.token = rows[c.id].token /\ r.status = status
  BY <1>1 DEF Row
<1>3. c.id \notin crossed /\ rows[c.id].token = c.token => Good(r, accepted', refused')
  BY <1>1, <1>2 DEF IInv, RowsGood, Good
<1>4. Overwrite(c, r)
  OBVIOUS
<1> HIDE DEF r
<1> QED  BY <1>2, <1>3, <1>4, RewriteKeeps

LEMMA TestsKeep ==
  ASSUME IInv, NEW q \in Requests, TestConfirmed(q) \/ TestFailed(q) PROVE IInv'
<1>1. CASE TestConfirmed(q)
  <2>1. CASE ~Matches(call[q].id, call[q].version)
    BY <1>1, <2>1, ErrorKeeps DEF TestConfirmed, Confirmed
  <2>2. CASE Matches(call[q].id, call[q].version)
    BY <1>1, <2>2, VerdictKeeps DEF TestConfirmed, Confirmed
  <2> QED  BY <2>1, <2>2
<1>2. CASE TestFailed(q)
  <2>1. CASE ~Matches(call[q].id, call[q].version)
    BY <1>2, <2>1, ErrorKeeps DEF TestFailed
  <2>2. CASE Matches(call[q].id, call[q].version)
    <3>1. PICK status \in {"invalid", "unknown"} :
            /\ refused' = IF status = "invalid" THEN refused \cup {call[q].token} ELSE refused
            /\ Overwrite(call[q], [rows[call[q].id] EXCEPT !.status = status])
      BY <1>2, <2>2 DEF TestFailed
    <3>2. refused \subseteq refused' /\ (status = "invalid" => call[q].token \in refused')
          /\ status # "valid"
      BY <3>1
    <3> QED  BY <1>2, <2>2, <3>1, <3>2, VerdictKeeps DEF TestFailed
  <2> QED  BY <2>1, <2>2
<1> QED  BY <1>1, <1>2

LEMMA RestartKeeps == ASSUME IInv, Restart PROVE IInv'
<1>1. RowsGood' /\ BindingsUnique'
  BY QuietKeepsRows DEF Restart
<1> QED  BY <1>1 DEF Restart, IInv, Types, CallsFit

LEMMA Inductive == IInv /\ [Next]_vars => IInv'
<1> SUFFICES ASSUME IInv, [Next]_vars PROVE IInv'
  OBVIOUS
<1>1. ASSUME NEW q \in Requests, Stale(q) \/ VerifyFailed(q) PROVE IInv'
  BY <1>1, ErrorKeeps DEF Stale, VerifyFailed
<1>2. CASE UNCHANGED vars
  BY <1>2 DEF vars, IInv, Types, CallsFit, Fits, RowsGood, Good, BindingsUnique, Used
<1> QED
  BY <1>1, <1>2, StartsKeep, UpdateFieldsKeeps, DeleteKeeps, CreateKeeps, UpdateKeeps,
     ReplaceKeeps, TestsKeep, RestartKeeps DEF Next

LEMMA Invariance == Spec => []IInv
BY Initially, Inductive, PTL DEF Spec

-------------------------------------------------------------------------------
(* The rest of the types. *)

OtherTypes ==
  /\ result \in [Requests -> {"none", "ok", "error"}]
  /\ accepted \in SUBSET Tokens
  /\ refused \in SUBSET Tokens

LEMMA OtherTypesKept == IInv /\ OtherTypes /\ [Next]_vars => OtherTypes'
<1> SUFFICES ASSUME IInv, OtherTypes, [Next]_vars PROVE OtherTypes'
  OBVIOUS
<1> USE DEF OtherTypes
<1>1. ASSUME NEW q \in Requests, call[q] # NoCall PROVE call[q].token \in Tokens
  BY <1>1, CallsAreCalls DEF Call
<1>2. ASSUME NEW q \in Requests, Stale(q) \/ UpdateFields(q) \/ Delete(q) PROVE OtherTypes'
  BY <1>2 DEF Stale, UpdateFields, Delete, End
<1>3. ASSUME NEW q \in Requests, StartCreate(q) \/ StartUpdate(q) \/ StartReplace(q) \/ StartTest(q)
      PROVE  OtherTypes'
  BY <1>3 DEF StartCreate, StartUpdate, StartReplace, StartTest, End
<1>4. ASSUME NEW q \in Requests, NEW kind, Confirmed(q, kind),
             UNCHANGED result \/ End(q, "ok") \/ End(q, "error")
      PROVE  OtherTypes'
  BY <1>1, <1>4 DEF Confirmed, End
<1>5. ASSUME NEW q \in Requests, CreateConfirmed(q) \/ UpdateConfirmed(q) PROVE OtherTypes'
  BY <1>4, <1>5 DEF CreateConfirmed, UpdateConfirmed
<1>6. ASSUME NEW q \in Requests, ReplaceConfirmed(q) \/ TestConfirmed(q) PROVE OtherTypes'
  BY <1>4, <1>6 DEF ReplaceConfirmed, TestConfirmed
<1>7. ASSUME NEW q \in Requests, TestFailed(q) \/ VerifyFailed(q) PROVE OtherTypes'
  BY <1>1, <1>7 DEF TestFailed, VerifyFailed, End
<1>8. CASE Restart \/ UNCHANGED vars
  BY <1>8 DEF Restart, vars
<1> QED  BY <1>2, <1>3, <1>5, <1>6, <1>7, <1>8 DEF Next

\* The table, the calls under way and the history keep their types.
THEOREM TypeCorrect == Spec => []TypeOK
<1>1. Init => OtherTypes
  BY DEF Init, OtherTypes
<1>2. IInv /\ OtherTypes => TypeOK
  BY DEF IInv, Types, OtherTypes, TypeOK
<1> QED  BY <1>1, <1>2, OtherTypesKept, Invariance, PTL DEF Spec

-------------------------------------------------------------------------------

\* External ids and mailboxes belong to one another, whatever two requests checked
\* before they awaited the upstream.
THEOREM AlwaysUnique == Spec => []BindingsUnique
<1>1. IInv => BindingsUnique
  BY DEF IInv
<1> QED  BY <1>1, Invariance, PTL

\* A row that took no write meant for an earlier row with its id (it is not in crossed) has
\* an envelope that opens with its own address and holds a JWT for it (changeBinding,
\* replaceCredential).  Of the other rows nothing is said: OnlyReusedIdsCross tells when
\* there are any.
THEOREM AlwaysSealedForItsAddress == Spec => []SealedForItsAddress
<1>1. IInv => SealedForItsAddress
  BY DEF IInv, RowsGood, Good, SealedForItsAddress
<1> QED  BY <1>1, Invariance, PTL

\* A verdict on a row that took no write meant for an earlier row with its id is one on the
\* JWT that the row holds (testCredential, replaceCredential).
THEOREM VerdictsFit == Spec => []VerdictFitsStoredJwt
<1>1. IInv => VerdictFitsStoredJwt
  BY DEF IInv, RowsGood, Good, VerdictFitsStoredJwt
<1> QED  BY <1>1, Invariance, PTL

-------------------------------------------------------------------------------
(* When a row can be written over on behalf of an earlier one.                 *)

CrossedWereReused == \A i \in crossed : life[i] > 1

\* What is in the table, or was read from it, was inserted once.
ReuseInv ==
  /\ \A i \in Used : life[i] > 0
  /\ \A q \in Requests : call[q] # NoCall /\ call[q].id # 0 => call[q].life > 0
  /\ CrossedWereReused

\* The calls that a step leaves are those that there were, or read their row in it.
CallsStep ==
  \A p \in Requests :
    \/ call'[p] \in {call[p], NoCall}
    \/ call'[p].id = 0
    \/ call'[p].id \in Used /\ call'[p].life = life[call'[p].id]

RowsStep ==
  \/ UNCHANGED <<rows, life, crossed>>
  \/ \E c \in Call : \E r :
       /\ c.id \in Used /\ c.life > 0 /\ c.life <= life[c.id]
       /\ Overwrite(c, r) /\ UNCHANGED life
  \/ \E id \in Ids : \E r :
       /\ rows' = [rows EXCEPT ![id] = r]
       /\ life' = [life EXCEPT ![id] = @ + 1]
       /\ UNCHANGED crossed
  \/ \E id \in Ids : Deleted(id) /\ crossed' = crossed \ {id}

LEMMA StepKeepsReuse ==
  ASSUME Types, ReuseInv, CallsStep, RowsStep PROVE ReuseInv'
<1>1. \A q \in Requests : call'[q] # NoCall /\ call'[q].id # 0 => call'[q].life > 0
  BY DEF ReuseInv, CallsStep
<1>2. CASE UNCHANGED <<rows, life, crossed>>
  BY <1>1, <1>2 DEF ReuseInv, CrossedWereReused, Used
<1>3. ASSUME NEW c \in Call, NEW r, c.id \in Used, c.life > 0, c.life <= life[c.id],
             Overwrite(c, r), UNCHANGED life
      PROVE  ReuseInv'
  <2>1. \A i \in Used' : life'[i] > 0
    BY <1>3 DEF Overwrite, ReuseInv, Types, Used
  <2>2. CrossedWereReused'
    <3>1. ASSUME NEW i \in crossed' PROVE i \in crossed \/ (i = c.id /\ c.life # life[c.id])
      BY <1>3 DEF Overwrite
    <3>2. c.life \in Nat /\ life[c.id] \in Nat
      BY <1>3 DEF Call, Types, Used
    <3> QED  BY <1>3, <3>1, <3>2 DEF ReuseInv, CrossedWereReused
  <2> QED  BY <1>1, <2>1, <2>2 DEF ReuseInv
<1>4. ASSUME NEW id \in Ids, NEW r, rows' = [rows EXCEPT ![id] = r],
             life' = [life EXCEPT ![id] = @ + 1], UNCHANGED crossed
      PROVE  ReuseInv'
  <2>1. \A i \in Ids : life'[i] \in {life[i], life[i] + 1} /\ life[i] \in Nat
                      /\ (i = id => life'[i] = life[i] + 1)
    BY <1>4 DEF Types
  <2>2. \A i \in Used' : i = id \/ i \in Used
    BY <1>4 DEF Types, Used
  <2>3. \A i \in Used' : life'[i] > 0
    BY <2>1, <2>2 DEF ReuseInv, Used
  <2>4. CrossedWereReused'
    BY <1>4, <2>1 DEF ReuseInv, CrossedWereReused, Types
  <2> QED  BY <1>1, <2>3, <2>4 DEF ReuseInv
<1>5. ASSUME NEW id \in Ids, Deleted(id), crossed' = crossed \ {id} PROVE ReuseInv'
  <2>1. Used' \subseteq Used /\ life' = life
    BY <1>5 DEF Deleted, Used, Types
  <2> QED  BY <1>1, <1>5, <2>1 DEF ReuseInv, CrossedWereReused
<1> QED  BY <1>2, <1>3, <1>4, <1>5 DEF RowsStep

\* What a step ends or awaits, as far as the calls go.
LEMMA EndsOrAwaits ==
  ASSUME Types, NEW q \in Requests,
         \/ \E how : End(q, how)
         \/ UNCHANGED call
         \/ \E c : Await(q, c) /\ (c.id = 0 \/ (c.id \in Used /\ c.life = life[c.id]))
  PROVE  CallsStep
<1>1. ASSUME NEW how, End(q, how) PROVE CallsStep
  BY <1>1 DEF End, CallsStep, Types
<1>2. ASSUME NEW c, Await(q, c), c.id = 0 \/ (c.id \in Used /\ c.life = life[c.id]) PROVE CallsStep
  BY <1>2 DEF Await, CallsStep, Types
<1>3. CASE UNCHANGED call
  BY <1>3 DEF CallsStep
<1> QED  BY <1>1, <1>2, <1>3

LEMMA ReuseKept == IInv /\ ReuseInv /\ [Next]_vars => ReuseInv'
<1> SUFFICES ASSUME IInv, Types, ReuseInv, [Next]_vars PROVE ReuseInv'
  BY DEF IInv
\* A write on behalf of a request that awaited.
<1>1. ASSUME NEW q \in Requests, call[q] # NoCall, call[q].kind # "create",
             \/ UNCHANGED <<rows, crossed>>
             \/ Matches(call[q].id, call[q].version) /\ \E r : Overwrite(call[q], r),
             UNCHANGED life, \E how : End(q, how)
      PROVE  ReuseInv'
  <2>1. /\ call[q] \in Call /\ Fits(call[q])
        /\ Matches(call[q].id, call[q].version) => call[q].id \in Used
    BY <1>1, CallsAreCalls
  <2>2. call[q].id \in Ids /\ call[q].id # 0
    BY <1>1, <2>1 DEF Fits, Ids
  <2>3. call[q].life > 0 /\ call[q].life <= life[call[q].id]
    BY <1>1, <2>1, <2>2 DEF ReuseInv, Fits
  <2>4. RowsStep
    BY <1>1, <2>1, <2>3 DEF RowsStep
  <2> QED  BY <1>1, <2>4, EndsOrAwaits, StepKeepsReuse
<1>2. ASSUME NEW q \in Requests, Stale(q) \/ VerifyFailed(q) PROVE ReuseInv'
  BY <1>2, EndsOrAwaits, StepKeepsReuse DEF Stale, VerifyFailed, RowsStep
<1>3. ASSUME NEW q \in Requests, StartCreate(q) PROVE ReuseInv'
  <2>1. UNCHANGED <<rows, life, crossed>> /\ \E c : Await(q, c) /\ c.id = 0
    BY <1>3 DEF StartCreate
  <2> QED  BY <2>1, EndsOrAwaits, StepKeepsReuse DEF RowsStep
<1>4. ASSUME NEW q \in Requests, StartUpdate(q) \/ StartReplace(q) \/ StartTest(q) PROVE ReuseInv'
  <2>1. \A id \in Used : \A kind, external, token :
          Read(id, kind, external, token).id = id /\ Read(id, kind, external, token).life = life[id]
    BY DEF Read
  <2>2. UNCHANGED <<rows, life, crossed>>
    BY <1>4 DEF StartUpdate, StartReplace, StartTest
  <2>3. \/ \E how : End(q, how)
        \/ \E id \in Used : \E kind, external, token : Await(q, Read(id, kind, external, token))
    BY <1>4 DEF StartUpdate, StartReplace, StartTest
  <2>4. \/ \E how : End(q, how)
        \/ \E c : Await(q, c) /\ (c.id = 0 \/ (c.id \in Used /\ c.life = life[c.id]))
    BY <2>1, <2>3
  <2> QED  BY <2>2, <2>4, EndsOrAwaits, StepKeepsReuse DEF RowsStep
<1>5. ASSUME NEW q \in Requests, UpdateFields(q) PROVE ReuseInv'
  <2>1. PICK id \in Used, external \in Externals :
          LET c == Read(id, "update", external, rows[id].token) IN
          IF Taken(external, c.address, id)
          THEN End(q, "error") /\ UNCHANGED <<rows, crossed>>
          ELSE Overwrite(c, [rows[id] EXCEPT !.external = external]) /\ End(q, "ok")
    BY <1>5 DEF UpdateFields
  <2> DEFINE c == Read(id, "update", external, rows[id].token)
  <2>2. c \in Call /\ c.id = id /\ c.life = life[id]
    BY RowsAreRows, ReadFits DEF Row, Read
  <2>3. UNCHANGED life /\ life[id] > 0 /\ life[id] \in Nat
    BY <1>5 DEF UpdateFields, ReuseInv, Types, Used
  <2>4. \/ UNCHANGED <<rows, crossed>>
        \/ Overwrite(c, [rows[id] EXCEPT !.external = external])
    BY <2>1
  <2>5. \E how : End(q, how)
    BY <2>1
  <2> HIDE DEF c
  <2>6. RowsStep
    BY <2>2, <2>3, <2>4 DEF RowsStep
  <2> QED  BY <2>5, <2>6, EndsOrAwaits, StepKeepsReuse
<1>6. ASSUME NEW q \in Requests, Delete(q) PROVE ReuseInv'
  <2>1. RowsStep
    BY <1>6 DEF Delete, RowsStep, Deleted, Used
  <2>2. \E how : End(q, how)
    BY <1>6 DEF Delete
  <2> QED  BY <2>1, <2>2, EndsOrAwaits, StepKeepsReuse
<1>7. ASSUME NEW q \in Requests, CreateConfirmed(q) PROVE ReuseInv'
  <2>1. RowsStep
    BY <1>7 DEF CreateConfirmed, InsertRow, RowsStep
  <2>2. \E how : End(q, how)
    BY <1>7 DEF CreateConfirmed
  <2> QED  BY <2>1, <2>2, EndsOrAwaits, StepKeepsReuse
<1>8. ASSUME NEW q \in Requests, UpdateConfirmed(q) \/ ReplaceConfirmed(q) \/ TestConfirmed(q)
      PROVE  ReuseInv'
  <2>1. /\ call[q] # NoCall /\ call[q].kind # "create" /\ UNCHANGED life
        /\ \E how : End(q, how)
    BY <1>8 DEF UpdateConfirmed, ReplaceConfirmed, TestConfirmed, Confirmed
  <2>2. \/ UNCHANGED <<rows, crossed>>
        \/ Matches(call[q].id, call[q].version) /\ \E r : Overwrite(call[q], r)
    BY <1>8 DEF UpdateConfirmed, ReplaceConfirmed, TestConfirmed
  <2> QED  BY <1>1, <2>1, <2>2
<1>9. ASSUME NEW q \in Requests, TestFailed(q) PROVE ReuseInv'
  <2>1. /\ call[q] # NoCall /\ call[q].kind # "create" /\ UNCHANGED life
        /\ \E how : End(q, how)
    BY <1>9 DEF TestFailed
  <2>2. \/ UNCHANGED <<rows, crossed>>
        \/ Matches(call[q].id, call[q].version) /\ \E r : Overwrite(call[q], r)
    BY <1>9 DEF TestFailed
  <2> QED  BY <1>1, <2>1, <2>2
<1>10. CASE Restart \/ UNCHANGED vars
  <2>1. RowsStep
    BY <1>10 DEF Restart, vars, RowsStep
  <2>2. CallsStep
    BY <1>10 DEF Restart, vars, CallsStep
  <2> QED  BY <2>1, <2>2, StepKeepsReuse
<1> QED
  BY <1>2, <1>3, <1>4, <1>5, <1>6, <1>7, <1>8, <1>9, <1>10 DEF Next

LEMMA ReuseInvariance == Spec => []ReuseInv
<1>1. Init => ReuseInv
  BY DEF Init, ReuseInv, CrossedWereReused, Used
<1> QED  BY <1>1, ReuseKept, Invariance, PTL DEF Spec

\* A write meant for an earlier row reaches a later one only under an id that was given out
\* more than once: the last row was deleted and another one inserted while a request awaited.
THEOREM OnlyReusedIdsCross == Spec => []CrossedWereReused
<1>1. ReuseInv => CrossedWereReused
  BY DEF ReuseInv
<1> QED  BY <1>1, ReuseInvariance, PTL

\* So a row whose id is given out for the first time has an envelope, a JWT and a verdict that
\* belong together, whatever requests awaited and whatever happened to other rows.
THEOREM RowsOfNewIdsAreSound ==
  Spec => [](\A i \in Used : life[i] = 1 => Good(rows[i], accepted, refused))
<1>1. IInv /\ CrossedWereReused => \A i \in Used : life[i] = 1 => Good(rows[i], accepted, refused)
  <2> SUFFICES ASSUME IInv, CrossedWereReused, NEW i \in Used, life[i] = 1
               PROVE  Good(rows[i], accepted, refused)
    OBVIOUS
  <2>1. i \notin crossed
    BY DEF CrossedWereReused
  <2> QED  BY <2>1 DEF IInv, RowsGood
<1> QED  BY <1>1, Invariance, OnlyReusedIdsCross, PTL

-------------------------------------------------------------------------------

NoLostUpdateStep ==
  \A q \in Requests :
    call[q] # NoCall /\ call'[q] = NoCall =>
      LET c == call[q] IN
      c.id # 0 /\ rows'[c.id] # rows[c.id] /\ c.life = life[c.id] =>
        rows[c.id].version = c.version /\ rows[c.id].address = c.address

\* Whoever ends a call and changes the row did so under the version check.
LEMMA NoLostUpdateStepwise == IInv /\ [Next]_vars => NoLostUpdateStep
<1> SUFFICES ASSUME IInv, [Next]_vars, NEW q \in Requests,
                    call[q] # NoCall, call'[q] = NoCall,
                    call[q].id # 0, rows'[call[q].id] # rows[call[q].id],
                    call[q].life = life[call[q].id]
             PROVE  /\ rows[call[q].id].version = call[q].version
                    /\ rows[call[q].id].address = call[q].address
  BY DEF NoLostUpdateStep
<1>1. Fits(call[q])
  BY CallsAreCalls
<1>2. Matches(call[q].id, call[q].version)
  <2>1. \A p \in Requests : Fresh(p) => p # q
    BY DEF Fresh
  <2>2. ASSUME NEW p \in Requests, NEW c, Await(p, c), p # q PROVE FALSE
    BY <2>2 DEF Await, IInv, Types
  <2>3. ASSUME NEW p \in Requests, NEW how, End(p, how), p # q PROVE FALSE
    BY <2>3 DEF End, IInv, Types
  <2>4. ASSUME NEW p \in Requests, StartCreate(p) \/ StartUpdate(p) \/ StartReplace(p) PROVE FALSE
    BY <2>4, <2>1, <2>2 DEF StartCreate, StartUpdate, StartReplace
  <2>5. ASSUME NEW p \in Requests, StartTest(p) PROVE FALSE
    BY <2>5, <2>1, <2>2, <2>3 DEF StartTest
  <2>6. ASSUME NEW p \in Requests, Stale(p) \/ Delete(p) \/ UpdateFields(p) PROVE FALSE
    BY <2>6, <2>1, <2>3 DEF Stale, Delete, UpdateFields
  <2>7. ASSUME NEW p \in Requests, CreateConfirmed(p) \/ VerifyFailed(p) PROVE FALSE
    BY <2>7, <2>3, <1>1 DEF CreateConfirmed, Confirmed, VerifyFailed, Fits
  <2>8. ASSUME NEW p \in Requests, UpdateConfirmed(p) \/ ReplaceConfirmed(p) \/ TestConfirmed(p)
        PROVE  Matches(call[q].id, call[q].version)
    BY <2>8, <2>3 DEF UpdateConfirmed, ReplaceConfirmed, TestConfirmed
  <2>9. ASSUME NEW p \in Requests, TestFailed(p) PROVE Matches(call[q].id, call[q].version)
    BY <2>9, <2>3 DEF TestFailed
  <2>10. ~Restart /\ ~UNCHANGED vars
    BY DEF Restart, vars
  <2> QED  BY <2>4, <2>5, <2>6, <2>7, <2>8, <2>9, <2>10 DEF Next
<1> QED  BY <1>1, <1>2 DEF Fits, Matches, IInv, Types, Call

\* A request that awaited writes over exactly the row it read.
THEOREM UpdatesAreNotLost == Spec => NoLostUpdate
<1>1. IInv /\ [Next]_vars => [NoLostUpdateStep]_vars
  BY NoLostUpdateStepwise
<1>2. [][NoLostUpdateStep]_vars <=> NoLostUpdate
  BY PTL DEF NoLostUpdate, NoLostUpdateStep
<1> QED  BY <1>1, <1>2, Invariance, PTL DEF Spec
===============================================================================
