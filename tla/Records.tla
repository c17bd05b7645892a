------------------------------ MODULE Records ------------------------------
(***************************************************************************)
(* The appview's tables as mirrors of the records on the users' PDSs.      *)
(* Stars and follows, artifacts, public keys, strings, issues and their    *)
(* comments and profiles are written twice: by the handler of a web page,  *)
(* to the PDS and to the table, and again by the ingester when the record  *)
(* comes back through the firehose (appview/ingester.go,                   *)
(* jetstream/jetstream.go).  The two run concurrently and agree on no      *)
(* order.  Reactions are written by their handler alone.                   *)
(*                                                                         *)
(* One account is enough: every table is keyed by it.  Collections share   *)
(* nothing but the cursor, which no event of another one holds up: a       *)
(* behaviour follows one collection, chosen in Init.  Stars, follows,      *)
(* artifacts, keys and reactions are unique by content, the others by the  *)
(* key of the record.  An account has one profile, under the key "self".   *)
(***************************************************************************)
EXTENDS Integers, Sequences, FiniteSets

CONSTANTS
  Coll,      \* subset of AllColl
  Body,      \* contents of strings, issues and comments
  Subject,   \* content of a star, artifact or key
  None,      \* no record
  Request,   \* goroutines that serve HTTP requests
  MaxCalls,  \* bound: requests
  MaxOthers, \* bound: writes by other clients
  MaxFaults  \* bound: failed calls, lost connections and restarts

AllColl == {"star", "follow", "artifact", "key", "reaction",
            "string", "issue", "comment", "profile"}

ASSUME RecordsAssumption ==
  /\ Coll \subseteq AllColl
  /\ Subject \notin Body /\ None \notin Body \cup {Subject}
  /\ None \notin [bio : {None, Subject}, pins : {None, Subject}, avatar : {None, Subject}]
  /\ MaxCalls \in Nat /\ MaxOthers \in Nat /\ MaxFaults \in Nat

VARIABLES
  coll,     \* the collection
  records,  \* on the PDS: key -> content
  rows,     \* the rows of the table
  seq,      \* repo_issue_seqs: the next issue number
  log,      \* the firehose: every commit, in order
  pos,      \* jetstream: the next event of the connection
  saved,    \* the saved cursor
  unsaved,  \* the ingester has handled an event, the cursor is not saved yet
  pc, job,  \* where each request is, and what it does
  blemished,  \* history: the code has given the mirror up
  given,      \* history: <<issue number, key>> pairs that were assigned
  calls, others, faults  \* history: for the bounds

tables == <<coll, rows, seq, given>>
stream == <<pos, saved, unsaved>>
bounds == <<calls, others, faults>>
vars   == <<records, tables, log, stream, pc, job, blemished, bounds>>

Rkey == 1..(MaxCalls + MaxOthers)
NextRkey == calls + others + 1

Self == 1
Fresh == IF coll = "profile" THEN Self ELSE NextRkey

(* What one form of the profile page sets, and the picture. *)
Part    == {None, Subject}
Profile == [bio : Part, pins : Part, avatar : Part]

Unique == coll \in {"star", "follow", "artifact", "key", "reaction"}
Contents ==
  CASE Unique -> {Subject}
    [] coll = "profile" -> Profile
    [] OTHER -> Body

(* No event of this collection reaches the ingester: it is not among the   *)
(* ones the client subscribes to.                                          *)
Unheard == coll = "reaction"

(* gone: the row of a deleted comment is kept. *)
Row == [rkey : Rkey, body : Body \cup {Subject} \cup Profile, gone : BOOLEAN, number : Nat]

Event == [rkey : Rkey, body : Body \cup {Subject, None} \cup Profile]

Idle == [op |-> "idle"]

TypeOK ==
  /\ coll \in Coll
  /\ records \in [Rkey -> Contents \cup {None}]
  /\ rows \subseteq Row
  /\ log \in Seq(Event)
  /\ pos \in 1..(Len(log) + 1) /\ saved \in 1..(Len(log) + 1)
  /\ unsaved \in BOOLEAN
  /\ pc \in [Request -> {"idle", "get", "pds", "load", "row", "undo"}]
  /\ blemished \in BOOLEAN
  /\ bounds \in (0..MaxCalls) \X (0..MaxOthers) \X (0..MaxFaults)

Init ==
  /\ coll \in Coll
  /\ records = [k \in Rkey |-> None]
  /\ rows = {}
  /\ seq = 1 /\ given = {}
  /\ log = << >> /\ pos = 1 /\ saved = 1 /\ unsaved = FALSE
  /\ pc = [a \in Request |-> "idle"] /\ job = [a \in Request |-> Idle]
  /\ blemished = FALSE
  /\ calls = 0 /\ others = 0 /\ faults = 0

Goto(a, l) ==
  /\ pc' = [pc EXCEPT ![a] = l]
  /\ job' = IF l = "idle" THEN [job EXCEPT ![a] = Idle] ELSE job

Fail == faults < MaxFaults /\ faults' = faults + 1 /\ UNCHANGED <<calls, others>>

Blemish(b) == blemished' = (blemished \/ b)

----------------------------------------------------------------------------
(***************************************************************************)
(* Statements on the tables.                                               *)
(***************************************************************************)
RowsOf(k) == {r \in rows : r.rkey = k}

NewRow(k, b, n) == [rkey |-> k, body |-> b, gone |-> FALSE, number |-> n]

(* insert or ignore: AddStar, AddFollow, AddArtifact, AddPublicKey,        *)
(* AddReaction                                                             *)
InsertOrIgnore(k, b) ==
  /\ rows' = IF \E r \in rows : r.body = b THEN rows ELSE rows \cup {NewRow(k, b, 0)}
  /\ UNCHANGED <<coll, seq, given>>

Insert(k, b, n) == rows' = rows \cup {NewRow(k, b, n)}

Update(k, b) == rows' = (rows \ RowsOf(k)) \cup {[r EXCEPT !.body = b] : r \in RowsOf(k)}

(* AddString and AddIssueComment: insert, on conflict update.  A comment   *)
(* that is gone stays gone.                                                *)
Upsert(k, b) ==
  /\ IF RowsOf(k) = {} THEN Insert(k, b, 0) ELSE Update(k, b)
  /\ UNCHANGED <<coll, seq, given>>

(* The row and those of links, stats and pins, replaced in a transaction. *)
UpsertProfile(k, b) ==
  /\ rows' = {NewRow(k, b, 0)}
  /\ UNCHANGED <<coll, seq, given>>

(* Mutant: the next number follows from the issues that are left. *)
PutIssue_Counts(k, b) ==
  LET n == Cardinality(rows) + 1 IN
  /\ IF RowsOf(k) = {} THEN Insert(k, b, n) /\ given' = given \cup {<<n, k>>}
     ELSE Update(k, b) /\ UNCHANGED given
  /\ UNCHANGED <<coll, seq>>

(* PutIssue: a new issue takes the next number of the repository. *)
PutIssue(k, b) ==
  /\ IF RowsOf(k) = {}
     THEN Insert(k, b, seq) /\ seq' = seq + 1 /\ given' = given \cup {<<seq, k>>}
     ELSE Update(k, b) /\ UNCHANGED <<seq, given>>
  /\ UNCHANGED coll

(* Mutant: a row that exists is left alone. *)
PutRow_Once(k, b) ==
  IF Unique THEN InsertOrIgnore(k, b)
  ELSE IF RowsOf(k) # {} THEN UNCHANGED tables
  ELSE IF coll = "issue" THEN PutIssue(k, b) ELSE Upsert(k, b)

PutRow(k, b) ==
  CASE Unique         -> InsertOrIgnore(k, b)
    [] coll = "issue" -> PutIssue(k, b)
    [] coll = "profile" -> UpsertProfile(k, b)
    [] OTHER          -> Upsert(k, b)

(* By the record's key; DeleteIssueComments only marks the row, and the    *)
(* event of a deleted profile deletes an artifact of that key: none has it.*)
DeleteRow(k) ==
  /\ rows' = (rows \ RowsOf(k)) \cup
             CASE coll = "comment" -> {[r EXCEPT !.gone = TRUE] : r \in RowsOf(k)}
               [] coll = "profile" -> RowsOf(k)
               [] OTHER -> {}
  /\ UNCHANGED <<coll, seq, given>>

DeleteByContent(b) ==
  /\ rows' = {r \in rows : r.body # b}
  /\ UNCHANGED <<coll, seq, given>>

(***************************************************************************)
(* The PDS.  Every change of a record is a commit on the firehose.  A      *)
(* second record with the content of another one has no row of its own.    *)
(***************************************************************************)
Twin(k, b) == Unique /\ b # None /\ \E q \in Rkey \ {k} : records[q] = b

Commit(k, b) ==
  /\ records' = [records EXCEPT ![k] = b]
  /\ log' = IF records[k] = b \/ Unheard THEN log ELSE Append(log, [rkey |-> k, body |-> b])

Put(k, b) == Commit(k, b) /\ Blemish(Twin(k, b))

OtherClient(k, b) ==
  /\ others < MaxOthers
  /\ others' = others + 1
  /\ Commit(k, b)
  /\ Blemish(Twin(k, b) \/ Unheard)
  /\ UNCHANGED <<tables, stream, pc, job, calls, faults>>

----------------------------------------------------------------------------
(***************************************************************************)
(* Requests.  Most write the PDS first; the editing and deletion of a      *)
(* comment and the deletion of a key write the table first; the deletion   *)
(* of a string does not write the PDS at all.                              *)
(***************************************************************************)
RowFirst(op) ==
  \/ coll = "comment" /\ op \in {"edit", "delete"}
  \/ coll \in {"key", "string"} /\ op = "delete"

Call(a, op, k, b) ==
  /\ pc[a] = "idle" /\ calls < MaxCalls
  /\ calls' = calls + 1
  /\ pc' = [pc EXCEPT ![a] = IF RowFirst(op) THEN "row" ELSE "pds"]
  /\ job' = [job EXCEPT ![a] = [op |-> op, rkey |-> k, body |-> b, at |-> 0]]
  /\ UNCHANGED <<records, tables, log, stream, blemished, others, faults>>

Create(a, c, b) == coll = c /\ Call(a, "create", NextRkey, b)

(* The row is looked up first; its key names the record. *)
Edit(a, c, r, b) == coll = c /\ ~r.gone /\ r.body # b /\ Call(a, "edit", r.rkey, b)

Delete(a, c, r) == coll = c /\ ~r.gone /\ Call(a, "delete", r.rkey, r.body)

Star(a, b)   == Create(a, "star", b)
Unstar(a, r) == Delete(a, "star", r)

Follow(a, b)   == Create(a, "follow", b)
Unfollow(a, r) == Delete(a, "follow", r)

AttachArtifact(a, b) == Create(a, "artifact", b)
DeleteArtifact(a, r) == Delete(a, "artifact", r)

addKey(a, b)    == Create(a, "key", b)
deleteKey(a, r) == Delete(a, "key", r)

createString(a, b)  == Create(a, "string", b)
editString(a, r, b) == Edit(a, "string", r, b)
deleteString(a, r)  == Delete(a, "string", r)

NewIssue(a, b)     == Create(a, "issue", b)
EditIssue(a, r, b) == Edit(a, "issue", r, b)
DeleteIssue(a, r)  == Delete(a, "issue", r)

NewIssueComment(a, b)     == Create(a, "comment", b)
EditIssueComment(a, r, b) == Edit(a, "comment", r, b)
DeleteIssueComment(a, r)  == Delete(a, "comment", r)

React(a, b)   == Create(a, "reaction", b)
Unreact(a, r) == Delete(a, "reaction", r)

(***************************************************************************)
(* The profile.  The forms read the row, the picture's handlers read the   *)
(* record; the record is then replaced on condition that it has not        *)
(* changed since RepoGetRecord returned its CID.                           *)
(***************************************************************************)
Blank == [bio |-> None, pins |-> None, avatar |-> None]

Stored == IF rows = {} THEN Blank ELSE (CHOOSE r \in rows : TRUE).body

(* GetProfile: a missing row is a blank profile, a query that fails too. *)
GetProfile(p) ==
  \/ p = Stored /\ UNCHANGED faults
  \/ /\ p = Blank
     /\ faults < MaxFaults
     /\ faults' = faults + 1

CallProfile(a, op, b, picture) ==
  /\ pc[a] = "idle" /\ calls < MaxCalls
  /\ calls' = calls + 1
  /\ pc' = [pc EXCEPT ![a] = "get"]
  /\ job' = [job EXCEPT ![a] = [op |-> op, rkey |-> Self, body |-> b, at |-> 0,
                              swap |-> None, avatar |-> picture]]
  /\ UNCHANGED <<records, tables, log, stream, blemished, others>>

UpdateProfileBio(a, x) ==
  \E p \in {Stored, Blank} : GetProfile(p) /\ CallProfile(a, "form", [p EXCEPT !.bio = x], None)

UpdateProfilePins(a, x) ==
  \E p \in {Stored, Blank} : GetProfile(p) /\ CallProfile(a, "form", [p EXCEPT !.pins = x], None)

UploadProfileAvatar(a) == CallProfile(a, "avatar", None, Subject) /\ UNCHANGED faults
RemoveProfileAvatar(a) == CallProfile(a, "avatar", None, None) /\ UNCHANGED faults

(* RepoGetRecord.  Without a record, or when the call fails, the forms go  *)
(* on with no CID and the picture's handlers give up.                      *)
GetRecord(a) ==
  /\ pc[a] = "get"
  /\ \E found \in {records[Self], None} :
       /\ IF found = records[Self] THEN UNCHANGED bounds ELSE Fail
       /\ IF found = None /\ job[a].op = "avatar" THEN Goto(a, "idle")
          ELSE /\ pc' = [pc EXCEPT ![a] = "pds"]
               /\ job' = [job EXCEPT ![a].swap = found]
  /\ UNCHANGED <<records, tables, log, stream, blemished>>

(* updateProfile writes a record without a picture.  A CID that is out of  *)
(* date fails the call.                                                    *)
SwapRecord(a) ==
  LET j == job[a] IN
  /\ pc[a] = "pds" /\ coll = "profile"
  /\ IF j.swap \notin {None, records[Self]} THEN Goto(a, "idle") /\ UNCHANGED <<records, log, blemished>>
     ELSE /\ Put(Self, IF j.op = "form" THEN [j.body EXCEPT !.avatar = None]
                       ELSE [j.swap EXCEPT !.avatar = j.avatar])
          /\ pc' = [pc EXCEPT ![a] = IF j.op = "form" THEN "row" ELSE "load"]
          /\ job' = [job EXCEPT ![a].at = Len(log')]
  /\ UNCHANGED <<tables, stream, bounds>>

(* The picture's handlers read the row once the record is written. *)
LoadProfile(a) ==
  /\ pc[a] = "load"
  /\ pc' = [pc EXCEPT ![a] = "row"]
  /\ \E p \in {Stored, Blank} :
       /\ GetProfile(p)
       /\ job' = [job EXCEPT ![a].body = [p EXCEPT !.avatar = job[a].avatar]]
  /\ UNCHANGED <<records, tables, log, stream, blemished, calls, others>>

(* RepoPutRecord or RepoDeleteRecord.  An edit needs the record.  The row  *)
(* is written next, or was written before.                                 *)
PdsWrite(a) ==
  LET j == job[a]
      missing == j.op = "edit" /\ records[j.rkey] = None
  IN
  /\ pc[a] = "pds" /\ coll # "profile"
  /\ IF missing THEN Blemish(RowFirst("edit")) /\ UNCHANGED <<records, log>>
     ELSE Put(j.rkey, IF j.op = "delete" THEN None ELSE j.body)
  /\ IF missing \/ RowFirst(j.op) THEN Goto(a, "idle")
     ELSE /\ pc' = [pc EXCEPT ![a] = "row"]
          /\ job' = [job EXCEPT ![a].at = Len(log')]
  /\ UNCHANGED <<tables, stream, bounds>>

(* A failed call leaves the row that was written first. *)
PdsError(a) ==
  /\ pc[a] = "pds" /\ Fail
  /\ Blemish(RowFirst(job[a].op))
  /\ Goto(a, "idle")
  /\ UNCHANGED <<records, tables, log, stream>>

(* A later event was ingested between the call of the PDS and this write;  *)
(* a profile is not written as its record is, its own event is enough.     *)
Overtaken(a) ==
  job[a].at > 0 /\ job[a].at < IF coll = "profile" THEN pos ELSE pos - 1

(* The pages for keys and artifacts delete by content, and may hit the row *)
(* of a newer record; a reaction may find the row of a deleted one in its  *)
(* place, and no event will repair that.                                   *)
ByContent == coll \in {"key", "artifact"}

Displaced(a) ==
  \E r \in rows :
    /\ r.rkey # job[a].rkey /\ r.body = job[a].body
    /\ \/ job[a].op = "delete" /\ ByContent /\ records[r.rkey] # None
       \/ job[a].op = "create" /\ Unheard

RowWrite(a) ==
  LET j == job[a] IN
  /\ pc[a] = "row"
  /\ CASE j.op # "delete"             -> PutRow(j.rkey, j.body)
       [] j.op = "delete" /\ ByContent -> DeleteByContent(j.body)
       [] OTHER                       -> DeleteRow(j.rkey)
  /\ Blemish(Overtaken(a) \/ Displaced(a))
  /\ Goto(a, IF RowFirst(j.op) /\ coll # "string" THEN "pds" ELSE "idle")
  /\ UNCHANGED <<records, log, stream, bounds>>

(* NewIssue and NewIssueComment take their record back when the table      *)
(* cannot be written; the others leave it to the firehose.                 *)
RowError(a) ==
  /\ pc[a] = "row" /\ Fail
  /\ Goto(a, IF job[a].op = "create" /\ coll \in {"issue", "comment"} THEN "undo" ELSE "idle")
  /\ Blemish(Unheard)
  /\ UNCHANGED <<records, tables, log, stream>>

rollbackRecord(a) ==
  /\ pc[a] = "undo"
  /\ \/ Put(job[a].rkey, None) /\ UNCHANGED bounds
     \/ Fail /\ UNCHANGED <<records, log, blemished>>
  /\ Goto(a, "idle")
  /\ UNCHANGED <<tables, stream>>

----------------------------------------------------------------------------
(***************************************************************************)
(* The ingester and the jetstream client.                                  *)
(***************************************************************************)
(* A record that cannot be stored is refused and not tried again. *)
Ingest(c) ==
  /\ coll = c
  /\ ~unsaved /\ pos <= Len(log)
  /\ \/ /\ IF log[pos].body = None THEN DeleteRow(log[pos].rkey)
           ELSE PutRow(log[pos].rkey, log[pos].body)
        /\ UNCHANGED <<blemished, bounds>>
     \/ Fail /\ Blemish(TRUE) /\ UNCHANGED tables
  /\ pos' = pos + 1
  /\ unsaved' = TRUE
  /\ UNCHANGED <<records, log, saved, pc, job>>

ingestStar         == Ingest("star")
ingestFollow       == Ingest("follow")
ingestArtifact     == Ingest("artifact")
ingestPublicKey    == Ingest("key")
ingestString       == Ingest("string")
ingestIssue        == Ingest("issue")
ingestIssueComment == Ingest("comment")
ingestProfile      == Ingest("profile")

(* The deferred SaveLastTimeUs: the time of the event plus one. *)
SaveLastTimeUs ==
  /\ unsaved
  /\ saved' = pos
  /\ unsaved' = FALSE
  /\ UNCHANGED <<records, tables, log, pos, pc, job, blemished, bounds>>

(* Every minute the local time is saved, whatever is still to be read. *)
periodicLastTimeSave ==
  /\ saved # Len(log) + 1
  /\ saved' = Len(log) + 1
  /\ UNCHANGED <<records, tables, log, pos, unsaved, pc, job, blemished, bounds>>

(* The connection breaks: the client connects again from the saved cursor. *)
Reconnect ==
  /\ ~unsaved /\ Fail
  /\ pos' = saved
  /\ Blemish(pos < saved)
  /\ UNCHANGED <<records, tables, log, saved, unsaved, pc, job>>

(* Requests that die between the row and the PDS leave the row, the ones   *)
(* of a reaction leave the record.                                         *)
Torn ==
  \E a \in Request :
    \/ pc[a] = "pds" /\ RowFirst(job[a].op)
    \/ pc[a] = "row" /\ Unheard

(* A restart: after a signal the present is saved (saveIfKilled), a crash  *)
(* saves nothing; a cursor older than two days is replaced by the present. *)
Restart(from) ==
  /\ Fail
  /\ pos' = from /\ saved' = from
  /\ unsaved' = FALSE
  /\ pc' = [a \in Request |-> "idle"] /\ job' = [a \in Request |-> Idle]
  /\ Blemish(pos < from \/ Torn)
  /\ UNCHANGED <<records, tables, log>>

----------------------------------------------------------------------------
Requests(a) ==
  \/ \E b \in Contents :
       \/ Star(a, b) \/ Follow(a, b) \/ AttachArtifact(a, b) \/ addKey(a, b)
       \/ createString(a, b) \/ NewIssue(a, b) \/ NewIssueComment(a, b) \/ React(a, b)
  \/ \E r \in rows :
       \/ Unstar(a, r) \/ Unfollow(a, r) \/ DeleteArtifact(a, r) \/ deleteKey(a, r)
       \/ deleteString(a, r) \/ DeleteIssue(a, r) \/ DeleteIssueComment(a, r) \/ Unreact(a, r)
       \/ \E b \in Body :
            editString(a, r, b) \/ EditIssue(a, r, b) \/ EditIssueComment(a, r, b)

ProfileRequests(a) ==
  /\ coll = "profile"
  /\ \/ \E x \in Part : UpdateProfileBio(a, x) \/ UpdateProfilePins(a, x)
     \/ UploadProfileAvatar(a)
     \/ RemoveProfileAvatar(a)

Step(a) ==
  PdsWrite(a) \/ PdsError(a) \/ RowWrite(a) \/ RowError(a) \/ rollbackRecord(a)
  \/ GetRecord(a) \/ SwapRecord(a) \/ LoadProfile(a)

Next ==
  \/ \E a \in Request : Requests(a) \/ ProfileRequests(a) \/ Step(a)
  \/ \E b \in Contents : OtherClient(Fresh, b)
  \/ \E k \in {q \in Rkey : records[q] # None} : \E b \in Contents \cup {None} : OtherClient(k, b)
  \/ ingestStar \/ ingestFollow \/ ingestArtifact \/ ingestPublicKey \/ ingestString
  \/ ingestIssue \/ ingestIssueComment \/ ingestProfile
  \/ SaveLastTimeUs \/ periodicLastTimeSave \/ Reconnect
  \/ \E from \in {saved, Len(log) + 1} : Restart(from)

Spec == Init /\ [][Next]_vars

----------------------------------------------------------------------------
(***************************************************************************)
(* Properties.                                                             *)
(***************************************************************************)
Drained == pos = Len(log) + 1 /\ ~unsaved /\ \A a \in Request : pc[a] = "idle"

Live == {r \in rows : ~r.gone}

(* Rows mirror records: when the firehose is drained and no request is     *)
(* running, the rows of a collection are its records, with their contents, *)
(* in whatever order handlers and ingester wrote them, whichever calls     *)
(* failed, and with events delivered again after a crash.  A string's row  *)
(* may be missing, its deletion keeps the record; a profile's row outlives *)
(* its record.  blemished names what the code gives up: events skipped by  *)
(* a cursor saved too early or refused by the database, a call of the PDS  *)
(* that fails after the row was written, a handler that writes its row     *)
(* after the ingester handled a later event (for a profile: its own), two  *)
(* records with one content, a deletion by content that hits the row of a  *)
(* newer record, reactions that others change, whose row cannot be written *)
(* or that find the row of a deleted one in their place.                   *)
RowsMirrorRecords ==
  Drained /\ ~blemished =>
    /\ \A r \in Live :
         records[r.rkey] = r.body \/ (coll = "profile" /\ records[Self] = None)
    /\ coll # "string" =>
         \A k \in Rkey : records[k] # None => \E r \in Live : r.rkey = k

(* An issue number is given once: not to another issue after its own was   *)
(* deleted, and not twice by a handler and the ingester that create the    *)
(* same issue, although a late event can bring an issue back under a new   *)
(* number.                                                                 *)
NumbersGivenOnce ==
  /\ \A p, q \in given : p[1] = q[1] => p = q
  /\ coll = "issue" => \A r, q \in rows : r.rkey = q.rkey => r = q

=============================================================================
