--------------------------- MODULE RecordsProofs ---------------------------
(***************************************************************************)
(* Proofs, for any contents, number of requests, calls, writes by others   *)
(* and faults, that an issue number is given once and that an issue has    *)
(* one row, whoever writes it; and that the rows of every collection       *)
(* follow its records.                                                     *)
(***************************************************************************)
EXTENDS Records, TLAPS

(***************************************************************************)
(* Issue numbers: the inductive invariant.                                 *)
(***************************************************************************)

(* Every number that was given is behind the sequence. *)
Behind ==
  /\ seq \in Nat
  /\ \A p \in given : p[1] \in Nat /\ p[1] < seq

GivenOnce == \A p, q \in given : p[1] = q[1] => p = q

(* A row has a key. *)
Keyed == \A r \in rows : "rkey" \in DOMAIN r

OneRow == coll = "issue" => \A r, q \in rows : r.rkey = q.rkey => r = q

IInv == Behind /\ GivenOnce /\ Keyed /\ OneRow

----------------------------------------------------------------------------
(***************************************************************************)
(* The statements on the table preserve it.                                *)
(***************************************************************************)

(* What leaves the tables alone preserves the invariant. *)
LEMMA TablesKept == IInv /\ UNCHANGED tables => IInv'
  BY DEF IInv, Behind, GivenOnce, Keyed, OneRow, tables

(* So does removing rows. *)
LEMMA RowsRemoved ==
  ASSUME IInv, rows' \subseteq rows, UNCHANGED <<coll, seq, given>> PROVE IInv'
  BY DEF IInv, Behind, GivenOnce, Keyed, OneRow

(* A fresh row has the key it is made with. *)
LEMMA NewRowKeyed ==
  ASSUME NEW k, NEW b, NEW n
  PROVE  "rkey" \in DOMAIN NewRow(k, b, n) /\ NewRow(k, b, n).rkey = k
  BY DEF NewRow

(* Changing the content or the mark of a row keeps its key. *)
LEMMA ChangeKeyed ==
  ASSUME NEW r, NEW b, "rkey" \in DOMAIN r
  PROVE  /\ "rkey" \in DOMAIN [r EXCEPT !.body = b] /\ [r EXCEPT !.body = b].rkey = r.rkey
         /\ "rkey" \in DOMAIN [r EXCEPT !.gone = b] /\ [r EXCEPT !.gone = b].rkey = r.rkey
  OBVIOUS

(* An update rewrites the row of one key. *)
LEMMA UpdateKeepsOne ==
  ASSUME NEW k, NEW b, IInv, Update(k, b), coll' = coll
  PROVE  Keyed' /\ OneRow'
<1> DEFINE changed(r) == [r EXCEPT !.body = b]
<1>1. \A r \in rows : "rkey" \in DOMAIN changed(r) /\ changed(r).rkey = r.rkey
  BY ChangeKeyed DEF IInv, Keyed
<1>2. rows' = (rows \ RowsOf(k)) \cup {changed(r) : r \in RowsOf(k)}
  BY DEF Update
<1> HIDE DEF changed
<1>3. \A r \in rows' : \/ r \in rows /\ r.rkey # k
                       \/ \E o \in rows : o.rkey = k /\ r = changed(o)
  BY <1>2 DEF RowsOf
<1>4. Keyed'
  BY <1>1, <1>3 DEF IInv, Keyed
<1>5. OneRow'
  BY <1>1, <1>3 DEF IInv, OneRow
<1> QED
  BY <1>4, <1>5

(* PutIssue gives the next number of the sequence, to a new issue only. *)
LEMMA PutIssueIInv ==
  ASSUME NEW k, NEW b, IInv, PutIssue(k, b) PROVE IInv'
<1>1. CASE RowsOf(k) = {}
  <2>1. /\ rows' = rows \cup {NewRow(k, b, seq)} /\ seq' = seq + 1
        /\ given' = given \cup {<<seq, k>>} /\ coll' = coll
    BY <1>1 DEF PutIssue, Insert
  <2>2. \A r \in rows : r.rkey # k
    BY <1>1 DEF RowsOf
  <2>3. <<seq, k>>[1] = seq
    OBVIOUS
  <2>4. Behind'
    BY <2>1, <2>3 DEF IInv, Behind
  <2>5. GivenOnce'
    BY <2>1, <2>3 DEF IInv, Behind, GivenOnce
  <2>6. Keyed' /\ OneRow'
    BY <2>1, <2>2, NewRowKeyed DEF IInv, Keyed, OneRow
  <2> QED BY <2>4, <2>5, <2>6 DEF IInv
<1>2. CASE RowsOf(k) # {}
  <2>1. Update(k, b) /\ coll' = coll /\ seq' = seq /\ given' = given
    BY <1>2 DEF PutIssue
  <2> QED BY <2>1, UpdateKeepsOne DEF IInv, Behind, GivenOnce
<1> QED
  BY <1>1, <1>2

(* The statements of the other tables give no number. *)
LEMMA PutRowIInv ==
  ASSUME NEW k, NEW b, IInv, PutRow(k, b) PROVE IInv'
<1>1. CASE coll = "issue"
  BY <1>1, PutIssueIInv DEF PutRow, Unique
<1>2. CASE coll # "issue"
  <2>1. UNCHANGED <<coll, seq, given>>
    BY <1>2 DEF PutRow, InsertOrIgnore, Upsert, UpsertProfile
  <2>2. Keyed'
    <3>1. CASE InsertOrIgnore(k, b) \/ UpsertProfile(k, b)
      BY <3>1, NewRowKeyed DEF InsertOrIgnore, UpsertProfile, IInv, Keyed
    <3>2. CASE Upsert(k, b)
      BY <2>1, <3>2, NewRowKeyed, UpdateKeepsOne DEF Upsert, Insert, IInv, Keyed
    <3> QED BY <1>2, <3>1, <3>2 DEF PutRow
  <2> QED BY <1>2, <2>1, <2>2 DEF IInv, Behind, GivenOnce, OneRow
<1> QED
  BY <1>1, <1>2

(* A deletion returns no number to the sequence. *)
LEMMA DeleteRowIInv ==
  ASSUME NEW k, IInv, DeleteRow(k) PROVE IInv'
<1>1. CASE coll = "issue"
  <2>1. rows' \subseteq rows /\ UNCHANGED <<coll, seq, given>>
    BY <1>1 DEF DeleteRow
  <2> QED BY <2>1, RowsRemoved
<1>2. CASE coll # "issue"
  <2>1. UNCHANGED <<coll, seq, given>>
    BY DEF DeleteRow
  <2>2. \A r \in rows' : r \in rows \/ \E o \in rows : r = [o EXCEPT !.gone = TRUE]
    BY DEF DeleteRow, RowsOf
  <2>3. Keyed'
    BY <2>2, ChangeKeyed DEF IInv, Keyed
  <2> QED BY <1>2, <2>1, <2>3 DEF IInv, Behind, GivenOnce, OneRow
<1> QED
  BY <1>1, <1>2

----------------------------------------------------------------------------
(***************************************************************************)
(* The actions.                                                            *)
(***************************************************************************)

(* The start of a request touches no table. *)
LEMMA RequestsKeep ==
  ASSUME NEW a \in Request, Requests(a) \/ ProfileRequests(a) PROVE UNCHANGED tables
<1>1. ASSUME NEW op, NEW k, NEW b, Call(a, op, k, b) PROVE UNCHANGED tables
  BY <1>1 DEF Call
<1>2. ASSUME NEW op, NEW b, NEW x, CallProfile(a, op, b, x) PROVE UNCHANGED tables
  BY <1>2 DEF CallProfile
<1>3. ASSUME NEW c, NEW b, Create(a, c, b) PROVE UNCHANGED tables
  BY <1>1, <1>3 DEF Create
<1>4. ASSUME NEW c, NEW r, Delete(a, c, r) PROVE UNCHANGED tables
  BY <1>1, <1>4 DEF Delete
<1>5. ASSUME NEW c, NEW r, NEW b, Edit(a, c, r, b) PROVE UNCHANGED tables
  BY <1>1, <1>5 DEF Edit
<1>6. CASE ProfileRequests(a)
  BY <1>2, <1>6 DEF ProfileRequests, UpdateProfileBio, UpdateProfilePins,
                    UploadProfileAvatar, RemoveProfileAvatar
<1>7. CASE Requests(a)
  BY <1>3, <1>4, <1>5, <1>7
     DEF Requests, Star, Follow, AttachArtifact, addKey, createString, NewIssue,
         NewIssueComment, React, Unstar, Unfollow, DeleteArtifact, deleteKey, deleteString,
         DeleteIssue, DeleteIssueComment, Unreact, editString, EditIssue, EditIssueComment
<1> QED
  BY <1>6, <1>7

(* Of the steps of a request only RowWrite touches a table. *)
LEMMA StepIInv == ASSUME NEW a \in Request, IInv, Step(a) PROVE IInv'
<1>1. CASE RowWrite(a)
  <2> DEFINE j == job[a]
  <2>1. \/ PutRow(j.rkey, j.body)
        \/ DeleteByContent(j.body)
        \/ DeleteRow(j.rkey)
    BY <1>1 DEF RowWrite
  <2>2. CASE DeleteByContent(j.body)
    <3>1. rows' \subseteq rows /\ UNCHANGED <<coll, seq, given>>
      BY <2>2 DEF DeleteByContent
    <3> QED BY <3>1, RowsRemoved
  <2> QED BY <2>1, <2>2, PutRowIInv, DeleteRowIInv
<1>2. CASE PdsWrite(a) \/ PdsError(a) \/ RowError(a) \/ rollbackRecord(a)
           \/ GetRecord(a) \/ SwapRecord(a) \/ LoadProfile(a)
  <2>1. UNCHANGED tables
    BY <1>2 DEF PdsWrite, PdsError, RowError, rollbackRecord, GetRecord, SwapRecord, LoadProfile
  <2> QED BY <2>1, TablesKept
<1> QED
  BY <1>1, <1>2 DEF Step

(* The ingester puts and deletes rows as the handlers do. *)
LEMMA IngestIInv == ASSUME NEW c, IInv, Ingest(c) PROVE IInv'
<1>1. \/ DeleteRow(log[pos].rkey)
      \/ PutRow(log[pos].rkey, log[pos].body)
      \/ UNCHANGED tables
  BY DEF Ingest
<1> QED
  BY <1>1, DeleteRowIInv, PutRowIInv, TablesKept

(* Every step, stuttering included, preserves the invariant. *)
LEMMA NextIInv == IInv /\ [Next]_vars => IInv'
<1> SUFFICES ASSUME IInv, [Next]_vars PROVE IInv'
  OBVIOUS
<1>1. ASSUME NEW a \in Request, Requests(a) \/ ProfileRequests(a) \/ Step(a) PROVE IInv'
  BY <1>1, RequestsKeep, StepIInv, TablesKept
<1>2. ASSUME NEW k, NEW b, OtherClient(k, b) PROVE IInv'
  BY <1>2, TablesKept DEF OtherClient
<1>3. CASE \/ ingestStar \/ ingestFollow \/ ingestArtifact \/ ingestPublicKey \/ ingestString
           \/ ingestIssue \/ ingestIssueComment \/ ingestProfile
  BY <1>3, IngestIInv
     DEF ingestStar, ingestFollow, ingestArtifact, ingestPublicKey, ingestString,
         ingestIssue, ingestIssueComment, ingestProfile
<1>4. CASE SaveLastTimeUs \/ periodicLastTimeSave \/ Reconnect
  BY <1>4, TablesKept DEF SaveLastTimeUs, periodicLastTimeSave, Reconnect
<1>5. ASSUME NEW from, Restart(from) PROVE IInv'
  BY <1>5, TablesKept DEF Restart
<1>6. CASE UNCHANGED vars
  BY <1>6, TablesKept DEF vars
<1> QED
  BY <1>1, <1>2, <1>3, <1>4, <1>5, <1>6 DEF Next

----------------------------------------------------------------------------
(* PutIssue and DeleteIssue: an issue number is never given to a second    *)
(* issue, also not after a deletion, and the handler and the ingester that *)
(* both write an issue write one row.                                      *)
THEOREM IssueNumbersUnique == Spec => []NumbersGivenOnce
<1>1. Init => IInv
  BY DEF Init, IInv, Behind, GivenOnce, Keyed, OneRow
<1>2. IInv => NumbersGivenOnce
  BY DEF IInv, GivenOnce, OneRow, NumbersGivenOnce
<1> QED
  BY <1>1, <1>2, NextIInv, PTL DEF Spec

----------------------------------------------------------------------------
(***************************************************************************)
(* The rows follow the records.  The invariant says, between two steps,    *)
(* who still has to make a row that is not what its record is: an event    *)
(* the ingester has not read, or a request that is between its row and its *)
(* record.                                                                 *)
(***************************************************************************)
Types ==
  /\ coll \in AllColl
  /\ records \in [Rkey -> Contents \cup {None}]
  /\ rows \subseteq [rkey : Rkey, body : Contents, gone : BOOLEAN, number : Nat]
  /\ seq \in Nat
  /\ log \in Seq([rkey : Rkey, body : Contents \cup {None}])
  /\ pos \in 1..(Len(log) + 1) /\ saved \in 1..(Len(log) + 1)
  /\ pc \in [Request -> {"idle", "get", "pds", "load", "row", "undo"}]
  /\ DOMAIN job = Request
  /\ blemished \in BOOLEAN
  /\ calls \in 0..MaxCalls /\ others \in 0..MaxOthers

(***************************************************************************)
(* Collections other than the profile.                                     *)
(***************************************************************************)
Told(k) == \E i \in 1..Len(log) : log[i].rkey = k

(* A key that names something, or did. *)
Used(k) == records[k] # None \/ Told(k) \/ \E r \in rows : r.rkey = k

Creating(a) == pc[a] = "pds" /\ job[a].op = "create"

Only(a) == \A b \in Request \ {a} : pc[b] # "idle" => job[b].rkey # job[a].rkey

(* A key is given once, to the record that is about to be created. *)
KeysOK ==
  \A k \in Rkey : Used(k) => k < NextRkey /\ \A a \in Request : Creating(a) => job[a].rkey # k

JobOK(a) ==
  pc[a] # "idle" =>
    /\ job[a] = [op |-> job[a].op, rkey |-> job[a].rkey, body |-> job[a].body, at |-> job[a].at]
    /\ pc[a] \in {"pds", "row", "undo"}
    /\ job[a].op \in {"create", "edit", "delete"}
    /\ job[a].rkey \in Rkey /\ job[a].rkey < NextRkey
    /\ job[a].body \in Contents
    /\ job[a].at \in 0..Len(log)
    /\ job[a].op = "edit" => ~Unique
    /\ pc[a] = "undo" => job[a].op = "create" /\ ~Unheard
    /\ Creating(a) => Only(a)
    /\ ~Creating(a) /\ ~Unheard => Told(job[a].rkey)
    /\ pc[a] = "row" /\ ~RowFirst(job[a].op) /\ ~Unheard => job[a].at > 0

(* The last event of a key has the record's content, and a deleted record  *)
(* does not come back.                                                     *)
LogOK ==
  /\ Unheard => log = << >>
  /\ \A i \in 1..Len(log) :
       /\ (\A j \in (i + 1)..Len(log) : log[j].rkey # log[i].rkey) =>
            records[log[i].rkey] = log[i].body
       /\ log[i].body = None => records[log[i].rkey] = None
  /\ ~Unheard => /\ \A k \in Rkey : records[k] # None => Told(k)
                 /\ \A r \in rows : Told(r.rkey)

(* The rows of a key show a content, or that there is none. *)
Shows(k, b) ==
  IF b = None THEN \A r \in rows : r.rkey = k => r.gone
  ELSE /\ \A r \in rows : r.rkey = k => ~r.gone /\ r.body = b
       /\ coll = "string" \/ \E r \in rows : r.rkey = k

Target(a) == IF job[a].op = "delete" THEN None ELSE job[a].body

(* A request that wrote the row has yet to write the record; that of a     *)
(* reaction has yet to write the row.                                      *)
Owes(a, k) ==
  /\ pc[a] # "idle" /\ job[a].rkey = k
  /\ \/ pc[a] = "pds" /\ RowFirst(job[a].op) /\ Shows(k, Target(a))
     \/ pc[a] = "row" /\ Unheard

Unread(k) == \E i \in pos..Len(log) : log[i].rkey = k

Mirrored(k) == Unread(k) \/ Shows(k, records[k]) \/ \E a \in Request : Owes(a, k)

(* The row of a deleted comment stays, and its record goes. *)
GoneOK ==
  \A r \in rows : r.gone =>
    /\ coll = "comment"
    /\ Shows(r.rkey, None)
    /\ \/ records[r.rkey] = None
       \/ \E a \in Request : pc[a] = "pds" /\ job[a].op = "delete" /\ job[a].rkey = r.rkey

(* What a request wrote to the PDS is there until an event says otherwise. *)
Written(a) ==
  pc[a] = "row" /\ ~RowFirst(job[a].op) =>
    \/ records[job[a].rkey] = Target(a)
    \/ \E i \in (job[a].at + 1)..Len(log) : log[i].rkey = job[a].rkey

(* Of the records with one content one is live, and was the last to change. *)
LastLive ==
  /\ \A k, q \in Rkey : records[k] # None /\ records[q] # None => k = q
  /\ ~Unheard => \A k \in Rkey : records[k] # None =>
       /\ log[Len(log)].rkey = k
       /\ \A i \in 1..(Len(log) - 1) : log[i].rkey # k

Inserting(a) ==
  pc[a] = "row" /\ job[a].op = "create" => Only(a) /\ \A r \in rows : r.rkey # job[a].rkey

Kept ==
  /\ \A k \in Rkey : Mirrored(k)
  /\ GoneOK
  /\ \A a \in Request : Written(a)
  /\ Unique => LastLive
  /\ Unheard => \A a \in Request : Inserting(a)

KeyedInv ==
  /\ KeysOK /\ LogOK /\ \A a \in Request : JobOK(a)
  /\ ~blemished => Kept

(***************************************************************************)
(* The profile.                                                            *)
(***************************************************************************)
ProfileJob(a) ==
  pc[a] # "idle" =>
    /\ Self \in Rkey
    /\ job[a] = [op |-> job[a].op, rkey |-> Self, body |-> job[a].body, at |-> job[a].at,
                 swap |-> job[a].swap, avatar |-> job[a].avatar]
    /\ pc[a] \in {"get", "pds", "load", "row"}
    /\ job[a].op \in {"form", "avatar"}
    /\ job[a].at \in 0..Len(log)
    /\ job[a].avatar \in Part
    /\ job[a].op = "form" \/ pc[a] = "row" => job[a].body \in Profile
    /\ pc[a] = "pds" => job[a].swap \in Profile \cup {None}
                        /\ (job[a].op = "avatar" => job[a].swap # None)
    /\ pc[a] \in {"load", "row"} => job[a].at > 0

(* There is one record, and the last event says what it is. *)
ProfileLog ==
  /\ \A k \in Rkey : records[k] # None => k = Self /\ Len(log) > 0
  /\ \A i \in 1..Len(log) : log[i].rkey = Self
  /\ Len(log) > 0 => records[Self] = log[Len(log)].body

ProfileRows == \A r \in rows : r.rkey = Self /\ ~r.gone

ProfileShown ==
  ~blemished /\ pos > Len(log) /\ Self \in Rkey /\ records[Self] # None =>
    rows # {} /\ \A r \in rows : r.body = records[Self]

ProfileInv ==
  /\ ProfileLog /\ ProfileRows /\ ProfileShown
  /\ \A a \in Request : ProfileJob(a)

MInv == Types /\ IF coll = "profile" THEN ProfileInv ELSE KeyedInv

Body3 == coll \in {"string", "issue", "comment"}

RowType == [rkey : Rkey, body : Contents, gone : BOOLEAN, number : Nat]

(* The classes of collections. *)
LEMMA Classes ==
  ASSUME Types
  PROVE  /\ coll = "profile" => Contents = Profile /\ ~Unique /\ ~Unheard
         /\ Unique => Contents = {Subject} /\ coll # "profile"
         /\ ~Unique /\ coll # "profile" => Body3 /\ Contents = Body /\ ~Unheard
         /\ \A b \in Contents : b # None
<1>1. CASE coll = "profile"
  BY <1>1, RecordsAssumption DEF Contents, Unique, Unheard, Profile, Part
<1>2. CASE Unique
  BY <1>2, RecordsAssumption DEF Contents, Unique
<1>3. CASE ~Unique /\ coll # "profile"
  BY <1>3, RecordsAssumption DEF Types, AllColl, Contents, Unique, Unheard, Body3
<1> QED BY <1>1, <1>2, <1>3

(* A row is a record of its four fields. *)
LEMMA RowFields ==
  ASSUME NEW r \in RowType
  PROVE  /\ r.rkey \in Rkey /\ r.body \in Contents /\ r.gone \in BOOLEAN /\ r.number \in Nat
         /\ \A b \in Contents : /\ [r EXCEPT !.body = b] \in RowType
                                /\ [r EXCEPT !.body = b].rkey = r.rkey
                                /\ [r EXCEPT !.body = b].body = b
                                /\ [r EXCEPT !.body = b].gone = r.gone
         /\ [r EXCEPT !.gone = TRUE] \in RowType
         /\ [r EXCEPT !.gone = TRUE].rkey = r.rkey
         /\ [r EXCEPT !.gone = TRUE].gone
BY DEF RowType

(* A new row has the key and content it is made with. *)
LEMMA NewRowFields ==
  ASSUME NEW k \in Rkey, NEW b \in Contents, NEW n \in Nat
  PROVE  /\ NewRow(k, b, n) \in RowType
         /\ NewRow(k, b, n).rkey = k /\ NewRow(k, b, n).body = b /\ ~NewRow(k, b, n).gone
BY DEF RowType, NewRow

(* What a statement on the row of one key leaves to the others. *)
Elsewhere(k) ==
  /\ \A r \in rows : r.rkey # k => r \in rows'
  /\ \A r \in rows' : r.rkey # k => r \in rows

(* A statement on the row of one key shows nothing new of another. *)
LEMMA ShowsElsewhere ==
  ASSUME NEW k, Elsewhere(k), coll' = coll, NEW q, q # k, NEW b
  PROVE  Shows(q, b)' <=> Shows(q, b)
BY DEF Elsewhere, Shows

(* An update gives the rows of a key their new content and leaves the      *)
(* others alone.                                                           *)
LEMMA UpdateRows ==
  ASSUME rows \subseteq RowType, NEW k \in Rkey, NEW b \in Contents, Update(k, b)
  PROVE  /\ rows' \subseteq RowType
         /\ Elsewhere(k)
         /\ \A r \in rows : r.rkey = k => [r EXCEPT !.body = b] \in rows'
         /\ \A r \in rows' : r.rkey = k =>
              \E o \in rows : o.rkey = k /\ r = [o EXCEPT !.body = b]
<1>1. rows' = (rows \ RowsOf(k)) \cup {[r EXCEPT !.body = b] : r \in RowsOf(k)}
  BY DEF Update
<1>2. \A r \in RowsOf(k) : r \in rows /\ r.rkey = k
  BY DEF RowsOf
<1>3. \A r \in rows : /\ [r EXCEPT !.body = b] \in RowType
                      /\ [r EXCEPT !.body = b].rkey = r.rkey
  BY RowFields
<1>4. rows' \subseteq RowType
  BY <1>1, <1>2, <1>3
<1>5. \A r \in rows' : \/ r \in rows /\ r.rkey # k
                       \/ \E o \in rows : o.rkey = k /\ r = [o EXCEPT !.body = b]
  BY <1>1, <1>2 DEF RowsOf
<1>6. Elsewhere(k)
  BY <1>1, <1>2, <1>3, <1>5 DEF Elsewhere
<1> QED BY <1>1, <1>4, <1>5, <1>6 DEF RowsOf

(* A put of a string, issue or comment: one of them shows its content, but *)
(* for a comment that is gone.                                             *)
LEMMA PutBody ==
  ASSUME Types, Body3, NEW k \in Rkey, NEW b \in Contents, PutRow(k, b)
  PROVE  /\ rows' \subseteq RowType /\ seq' \in Nat /\ coll' = coll
         /\ Elsewhere(k)
         /\ \E r \in rows' : r.rkey = k
         /\ \A r \in rows' : r.rkey = k =>
              /\ r.body = b
              /\ r.gone => \E o \in rows : o.rkey = k /\ o.gone
         /\ (\E r \in rows : r.rkey = k) /\ Shows(k, None) => Shows(k, None)'
<1>1. rows \subseteq RowType /\ seq \in Nat
  BY DEF Types, RowType
<1>0. PutIssue(k, b) \/ Upsert(k, b)
  BY DEF Body3, PutRow, Unique
<1>2. /\ coll' = coll /\ seq' \in Nat
      /\ \/ RowsOf(k) = {} /\ \E n \in Nat : Insert(k, b, n)
         \/ RowsOf(k) # {} /\ Update(k, b)
  <2>1. CASE PutIssue(k, b)
    BY <1>1, <2>1 DEF PutIssue
  <2>2. CASE Upsert(k, b)
    BY <1>1, <2>2 DEF Upsert
  <2> QED BY <1>0, <2>1, <2>2
<1>3. CASE RowsOf(k) = {} /\ \E n \in Nat : Insert(k, b, n)
  <2> PICK n \in Nat : Insert(k, b, n)
    BY <1>3
  <2>1. rows' = rows \cup {NewRow(k, b, n)} /\ \A r \in rows : r.rkey # k
    BY <1>3 DEF Insert, RowsOf
  <2> QED BY <1>1, <1>2, <2>1, NewRowFields DEF Elsewhere
<1>4. CASE RowsOf(k) # {} /\ Update(k, b)
  <2>1. \E r \in rows : r.rkey = k
    BY <1>4 DEF RowsOf
  <2>2. \A o \in rows : /\ [o EXCEPT !.body = b].rkey = o.rkey
                        /\ [o EXCEPT !.body = b].body = b
                        /\ [o EXCEPT !.body = b].gone = o.gone
    BY <1>1, RowFields
  <2>6. \A r \in rows' : r.rkey = k => \E o \in rows : o.rkey = k /\ r = [o EXCEPT !.body = b]
    BY <1>1, <1>4, UpdateRows
  <2>3. Shows(k, None) => Shows(k, None)'
    BY <2>2, <2>6 DEF Shows
  <2>4. \A r \in rows' : r.rkey = k =>
          r.body = b /\ (r.gone => \E o \in rows : o.rkey = k /\ o.gone)
    BY <2>2, <2>6
  <2>5. rows' \subseteq RowType /\ Elsewhere(k) /\ \E r \in rows' : r.rkey = k
    BY <1>1, <1>4, <2>1, <2>2, UpdateRows
  <2> QED BY <1>2, <2>3, <2>4, <2>5
<1> QED BY <1>2, <1>3, <1>4

(* A put of a star, follow, artifact, key or reaction: there is one row. *)
LEMMA PutUnique ==
  ASSUME Types, Unique, NEW k \in Rkey, NEW b \in Contents, PutRow(k, b)
  PROVE  /\ rows' \subseteq RowType /\ seq' = seq /\ coll' = coll
         /\ \/ rows = {} /\ rows' = {NewRow(k, Subject, 0)}
            \/ rows # {} /\ rows' = rows
<1>1. rows \subseteq RowType /\ Contents = {Subject}
  BY Classes DEF Types, RowType
<1>2. \A r \in rows : r.body = b
  BY <1>1, RowFields
<1>3. InsertOrIgnore(k, b)
  BY DEF PutRow, Unique
<1> QED BY <1>1, <1>2, <1>3, NewRowFields DEF InsertOrIgnore

(* A deletion by key leaves no row of the key, or, of a comment, a marked  *)
(* one.                                                                    *)
LEMMA DeleteRowShows ==
  ASSUME Types, coll # "profile", NEW k \in Rkey, DeleteRow(k)
  PROVE  /\ rows' \subseteq RowType /\ seq' = seq /\ coll' = coll
         /\ Elsewhere(k)
         /\ \A r \in rows' : r.rkey = k => coll = "comment" /\ r.gone
         /\ \A r \in rows' : \E o \in rows : o.rkey = r.rkey
<1>1. rows \subseteq RowType
  BY DEF Types, RowType
<1>2. \A r \in rows : /\ [r EXCEPT !.gone = TRUE] \in RowType
                      /\ [r EXCEPT !.gone = TRUE].rkey = r.rkey
                      /\ [r EXCEPT !.gone = TRUE].gone
  BY <1>1, RowFields
<1>3. \A r \in RowsOf(k) : r \in rows /\ r.rkey = k
  BY DEF RowsOf
<1>4. \A r \in rows : r.rkey # k => r \notin RowsOf(k)
  BY DEF RowsOf
<1>5. CASE coll = "comment"
  <2>1. rows' = (rows \ RowsOf(k)) \cup {[r EXCEPT !.gone = TRUE] : r \in RowsOf(k)}
    BY <1>5 DEF DeleteRow
  <2>2. \A r \in rows' : \/ r \in rows /\ r.rkey # k
                         \/ \E o \in rows : o.rkey = k /\ r = [o EXCEPT !.gone = TRUE]
    BY <2>1, <1>3 DEF RowsOf
  <2>3. Elsewhere(k)
    BY <2>1, <2>2, <1>2, <1>4 DEF Elsewhere
  <2>4. rows' \subseteq RowType
    BY <2>2, <1>1, <1>2
  <2>5. \A r \in rows' : r.rkey = k => r.gone
    BY <2>2, <1>2
  <2>6. ASSUME NEW r \in rows' PROVE \E o \in rows : o.rkey = r.rkey
    <3>1. CASE r \in rows
      BY <3>1
    <3>2. CASE r \notin rows
      <4>1. PICK o \in rows : o.rkey = k /\ r = [o EXCEPT !.gone = TRUE]
        BY <2>2, <3>2
      <4>2. r.rkey = o.rkey
        BY <1>2, <4>1
      <4> QED BY <4>2
    <3> QED BY <3>1, <3>2
  <2> QED BY <2>3, <2>4, <2>5, <2>6, <1>5 DEF DeleteRow
<1>6. CASE coll # "comment"
  <2>1. rows' = rows \ RowsOf(k)
    BY <1>6 DEF DeleteRow
  <2> QED BY <2>1, <1>1, <1>4 DEF DeleteRow, RowsOf, Elsewhere
<1> QED BY <1>5, <1>6

(* All rows of a collection that is unique by content have that content. *)
LEMMA DeleteContent ==
  ASSUME Types, Unique, NEW b \in Contents, DeleteByContent(b)
  PROVE  rows' = {} /\ seq' = seq /\ coll' = coll
<1>1. rows \subseteq RowType /\ Contents = {Subject}
  BY Classes DEF Types, RowType
<1>2. \A r \in rows : r.body = b
  BY <1>1, RowFields
<1> QED BY <1>2 DEF DeleteByContent

----------------------------------------------------------------------------
(***************************************************************************)
(* Changes of a record.                                                    *)
(***************************************************************************)
LogType == [rkey : Rkey, body : Contents \cup {None}]

(* An event names a key and a content. *)
LEMMA LogFields ==
  ASSUME Types, NEW i \in 1..Len(log)
  PROVE  log[i].rkey \in Rkey /\ log[i].body \in Contents \cup {None}
<1>1. log \in Seq(LogType)
  BY DEF Types, LogType
<1>2. log[i] \in LogType
  BY <1>1
<1> QED BY <1>2 DEF LogType

(* A commit that changes something is the last event of the firehose. *)
LEMMA CommitLog ==
  ASSUME Types, NEW k \in Rkey, NEW b \in Contents \cup {None}, Commit(k, b)
  PROVE  /\ records' \in [Rkey -> Contents \cup {None}]
         /\ records'[k] = b /\ \A q \in Rkey : q # k => records'[q] = records[q]
         /\ log' \in Seq(LogType)
         /\ Len(log) \in Nat /\ Len(log') \in {Len(log), Len(log) + 1}
         /\ Len(log) <= Len(log')
         /\ \A i \in 1..Len(log) : log'[i] = log[i]
         /\ records[k] = b \/ Unheard <=> log' = log
         /\ records[k] = b \/ Unheard <=> Len(log') = Len(log)
         /\ ~(records[k] = b \/ Unheard) =>
              /\ Len(log') = Len(log) + 1
              /\ log'[Len(log) + 1].rkey = k /\ log'[Len(log) + 1].body = b
         /\ records[k] = b => records' = records
<1>1. /\ records \in [Rkey -> Contents \cup {None}] /\ log \in Seq(LogType)
      /\ Len(log) \in Nat
  BY DEF Types, LogType
<1>2. [rkey |-> k, body |-> b] \in LogType
  BY DEF LogType
<1>3. CASE records[k] = b \/ Unheard
  BY <1>1, <1>3 DEF Commit
<1>4. CASE ~(records[k] = b \/ Unheard)
  <2>1. log' = Append(log, [rkey |-> k, body |-> b])
    BY <1>4 DEF Commit
  <2>2. /\ log' \in Seq(LogType) /\ Len(log') = Len(log) + 1
        /\ \A i \in 1..Len(log) : log'[i] = log[i]
        /\ log'[Len(log) + 1] = [rkey |-> k, body |-> b]
    BY <1>1, <1>2, <2>1
  <2>3. log' # log /\ Len(log') # Len(log)
    BY <1>1, <2>2
  <2> QED BY <1>1, <1>4, <2>2, <2>3 DEF Commit
<1> QED BY <1>3, <1>4

(* The log stays in order, if no deleted record comes back. *)
LEMMA CommitLogOK ==
  ASSUME Types, LogOK, NEW k \in Rkey, NEW b \in Contents \cup {None}, Commit(k, b),
         UNCHANGED <<coll, rows>>,
         b # None => records[k] # None \/ ~Used(k)
  PROVE  LogOK'
<1> DEFINE n == Len(log) + 1
           same == records[k] = b \/ Unheard
<1>0. Len(log) \in Nat /\ n \in Nat /\ Unheard' = Unheard
  BY CommitLog DEF Unheard
<1>1. CASE same /\ ~Unheard
  <2>1. records' = records /\ log' = log
    BY <1>1, CommitLog
  <2> QED BY <1>0, <2>1 DEF LogOK, Told
<1>2. CASE Unheard
  <2>1. log' = << >>
    BY <1>2, CommitLog DEF LogOK
  <2> QED BY <1>0, <1>2, <2>1 DEF LogOK
<1>3. CASE ~same
  <2>1. /\ Len(log') = n /\ log'[n].rkey = k /\ log'[n].body = b
        /\ \A i \in 1..Len(log) : log'[i] = log[i]
    BY <1>3, CommitLog
  <2>2. \A i \in 1..Len(log') : i \in 1..Len(log) \/ i = n
    BY <1>0, <2>1
  <2>3. \A i \in 1..Len(log) : i \in 1..Len(log')
    BY <1>0, <2>1
  <2>4. records'[k] = b /\ \A q \in Rkey : q # k => records'[q] = records[q]
    BY CommitLog
  <2>5. ASSUME NEW i \in 1..Len(log'),
               \A j \in (i + 1)..Len(log') : log'[j].rkey # log'[i].rkey
        PROVE  records'[log'[i].rkey] = log'[i].body
    <3>1. CASE i = n
      BY <2>1, <2>4, <3>1
    <3>2. CASE i \in 1..Len(log)
      <4>1. n \in (i + 1)..Len(log')
        BY <1>0, <2>1, <3>2
      <4>2. log[i].rkey # k
        BY <2>1, <2>5, <3>2, <4>1
      <4>3. \A j \in (i + 1)..Len(log) : j \in (i + 1)..Len(log') /\ j \in 1..Len(log)
        BY <1>0, <2>1, <3>2
      <4>4. \A j \in (i + 1)..Len(log) : log[j].rkey # log[i].rkey
        BY <2>1, <2>5, <3>2, <4>3
      <4>5. records[log[i].rkey] = log[i].body
        BY <3>2, <4>4 DEF LogOK
      <4> QED BY <2>1, <2>4, <3>2, <4>2, <4>5, LogFields
    <3> QED BY <2>2, <3>1, <3>2
  <2>6. ASSUME NEW i \in 1..Len(log'), log'[i].body = None
        PROVE  records'[log'[i].rkey] = None
    <3>1. CASE i = n
      BY <2>1, <2>4, <2>6, <3>1
    <3>2. CASE i \in 1..Len(log)
      <4>1. records[log[i].rkey] = None
        BY <2>1, <2>6, <3>2 DEF LogOK
      <4>2. log[i].rkey = k => b = None
        BY <3>2, <4>1 DEF Used, Told
      <4> QED BY <2>1, <2>4, <3>2, <4>1, <4>2, LogFields
    <3> QED BY <2>2, <3>1, <3>2
  <2>7. \A q : Told(q) => Told(q)'
    BY <2>1, <2>3 DEF Told
  <2>8. Told(k)'
    BY <1>0, <2>1 DEF Told
  <2>9. \A q \in Rkey : records'[q] # None => Told(q)'
    BY <1>3, <2>4, <2>7, <2>8 DEF LogOK
  <2>10. \A r \in rows' : Told(r.rkey)'
    BY <1>3, <2>7 DEF LogOK
  <2> QED BY <1>0, <1>3, <2>5, <2>6, <2>9, <2>10 DEF LogOK
<1> QED BY <1>1, <1>2, <1>3

(* What was unread is unread, and the change is. *)
LEMMA CommitUnread ==
  ASSUME Types, NEW k \in Rkey, NEW b \in Contents \cup {None}, Commit(k, b), pos' = pos
  PROVE  /\ \A q : Unread(q) => Unread(q)'
         /\ ~Unheard /\ records[k] # b => Unread(k)'
<1>1. Len(log) \in Nat /\ pos \in 1..(Len(log) + 1)
  BY DEF Types
<1>2. \A i \in pos..Len(log) : i \in pos..Len(log') /\ log'[i] = log[i]
  BY <1>1, CommitLog
<1>3. \A q : Unread(q) => Unread(q)'
  BY <1>2 DEF Unread
<1>4. ~Unheard /\ records[k] # b => Unread(k)'
  <2> SUFFICES ASSUME ~Unheard, records[k] # b PROVE Unread(k)'
    OBVIOUS
  <2>1. Len(log') = Len(log) + 1 /\ log'[Len(log) + 1].rkey = k
    BY CommitLog
  <2>2. Len(log) + 1 \in pos'..Len(log')
    BY <1>1, <2>1
  <2> QED BY <2>1, <2>2 DEF Unread
<1> QED BY <1>3, <1>4

----------------------------------------------------------------------------
(***************************************************************************)
(* Keys and requests.                                                      *)
(***************************************************************************)
Places == {"idle", "get", "pds", "load", "row", "undo"}

(* Only the requests of M move. *)
Others(M) == \A c \in Request \ M : pc'[c] = pc[c] /\ job'[c] = job[c]

(* Goto moves one request. *)
LEMMA GotoMoves ==
  ASSUME Types, NEW a \in Request, NEW l \in Places, Goto(a, l)
  PROVE  /\ pc' \in [Request -> Places] /\ DOMAIN job' = Request
         /\ Others({a}) /\ pc'[a] = l /\ (l # "idle" => job'[a] = job[a])
BY DEF Types, Places, Goto, Others

Jobs == \A a \in Request : JobOK(a)

(* What a step of one request, or of none, leaves to the others. *)
LEMMA OthersOK ==
  ASSUME Types, Jobs, NEW M \in SUBSET Request, Others(M), coll' = coll,
         Len(log') \in Nat, Len(log) <= Len(log'), NextRkey \in Nat, NextRkey' \in Nat,
         NextRkey <= NextRkey',
         \A k : Told(k) => Told(k)',
         \A c \in M : \A b \in Request \ M :
           pc'[c] # "idle" => (pc[c] # "idle" /\ job'[c].rkey = job[c].rkey)
                              \/ (pc[b] # "idle" => job'[c].rkey # job[b].rkey)
  PROVE  \A b \in Request \ M : JobOK(b)'
<1> SUFFICES ASSUME NEW b \in Request \ M, pc[b] # "idle" PROVE JobOK(b)'
  BY DEF JobOK, Others
<1>1. pc'[b] = pc[b] /\ job'[b] = job[b] /\ JobOK(b) /\ Len(log) \in Nat
  BY DEF Others, Jobs, Types
<1>2. Creating(b)' <=> Creating(b)
  BY <1>1 DEF Creating
<1>3. ASSUME Creating(b) PROVE Only(b)'
  <2>1. Only(b)
    BY <1>1, <1>3 DEF JobOK
  <2> SUFFICES ASSUME NEW c \in Request \ {b}, pc'[c] # "idle"
               PROVE  job'[c].rkey # job'[b].rkey
    BY DEF Only
  <2>2. CASE c \in M
    BY <1>1, <2>1, <2>2 DEF Only
  <2>3. CASE c \notin M
    BY <1>1, <2>1, <2>3 DEF Only, Others
  <2> QED BY <2>2, <2>3
<1>4. /\ job[b] = [op |-> job[b].op, rkey |-> job[b].rkey, body |-> job[b].body, at |-> job[b].at]
      /\ pc[b] \in {"pds", "row", "undo"}
      /\ job[b].op \in {"create", "edit", "delete"}
      /\ job[b].rkey \in Rkey /\ job[b].rkey < NextRkey
      /\ job[b].body \in Contents
      /\ job[b].at \in 0..Len(log)
      /\ job[b].op = "edit" => ~Unique
      /\ pc[b] = "undo" => job[b].op = "create" /\ ~Unheard
      /\ ~Creating(b) /\ ~Unheard => Told(job[b].rkey)
      /\ pc[b] = "row" /\ ~RowFirst(job[b].op) /\ ~Unheard => job[b].at > 0
  BY <1>1 DEF JobOK
<1>5. job[b].rkey \in Nat
  BY <1>4, RecordsAssumption DEF Rkey
<1>6. job[b].rkey < NextRkey'
  BY <1>4, <1>5
<1>7. job[b].at \in 0..Len(log')
  BY <1>1, <1>4
<1>8. /\ Contents' = Contents /\ Unique' = Unique /\ Unheard' = Unheard
      /\ \A op : RowFirst(op)' = RowFirst(op)
  BY DEF Contents, Unique, Unheard, RowFirst
<1> QED BY <1>1, <1>2, <1>3, <1>4, <1>6, <1>7, <1>8 DEF JobOK

(* Keys stay apart when the only key that may be used for the first time   *)
(* is that of a request that is no longer to create it.                    *)
LEMMA KeysKept ==
  ASSUME Types, Jobs, KeysOK, NEW M \in SUBSET Request, Others(M),
         NextRkey \in Nat, NextRkey' \in Nat, NextRkey <= NextRkey',
         NEW k \in Rkey, k < NextRkey',
         \A q \in Rkey : q # k => (Used(q)' => Used(q)),
         \A c \in M : pc'[c] = "pds" /\ job'[c].op = "create" => ~Used(job[c].rkey)',
         Used(k)' => \/ Used(k) 
                     \/ \A c \in Request \ M : Creating(c) => job[c].rkey # k
  PROVE  KeysOK'
<1>1. Rkey \subseteq Nat
  BY RecordsAssumption DEF Rkey
<1> SUFFICES ASSUME NEW q \in Rkey, Used(q)'
             PROVE  q < NextRkey' /\ \A a \in Request : Creating(a)' => job'[a].rkey # q
  BY DEF KeysOK
<1>2. q < NextRkey'
  <2>1. CASE q = k
    BY <2>1
  <2>2. CASE q # k
    <3>1. q < NextRkey
      BY <2>2 DEF KeysOK
    <3> QED BY <1>1, <3>1
  <2> QED BY <2>1, <2>2
<1>3. ASSUME NEW a \in Request, Creating(a)' PROVE job'[a].rkey # q
  <2>1. CASE a \in M
    BY <1>3, <2>1 DEF Creating
  <2>2. CASE a \notin M
    <3>1. Creating(a) /\ job'[a] = job[a]
      BY <1>3, <2>2 DEF Creating, Others
    <3> QED BY <2>2, <3>1 DEF KeysOK
  <2> QED BY <2>1, <2>2
<1> QED BY <1>2, <1>3

(* A row and its statement name used keys only. *)
LEMMA RowsUsed ==
  ASSUME UNCHANGED <<records, log>>, NEW k,
         \A r \in rows' : r.rkey = k \/ \E o \in rows : o.rkey = r.rkey
  PROVE  \A q : q # k => (Used(q)' => Used(q))
<1> SUFFICES ASSUME NEW q, q # k, Used(q)', ~ (\E r \in rows : r.rkey = q)
             PROVE  records[q] # None \/ Told(q)
  BY DEF Used
<1>1. ~ \E r \in rows' : r.rkey = q
  OBVIOUS
<1> QED BY <1>1 DEF Used, Told

----------------------------------------------------------------------------
(***************************************************************************)
(* Steps that change neither a row nor a record.                           *)
(***************************************************************************)
LEMMA RkeyNat == Rkey \subseteq Nat /\ (Types => NextRkey \in Nat)
BY RecordsAssumption DEF Rkey, Types, NextRkey

(* What depends on records, rows and firehose alone. *)
LEMMA SameLog ==
  ASSUME UNCHANGED <<coll, records, rows, log>>
  PROVE  /\ LogOK => LogOK'
         /\ \A k : (Told(k)' <=> Told(k)) /\ (Used(k)' <=> Used(k))
         /\ \A k, b : Shows(k, b)' <=> Shows(k, b)
         /\ Unheard' = Unheard /\ Unique' = Unique
         /\ \A op : RowFirst(op)' = RowFirst(op)
<1>1. \A k : (Told(k)' <=> Told(k)) /\ (Used(k)' <=> Used(k))
  BY DEF Told, Used
<1>2. \A k, b : Shows(k, b)' <=> Shows(k, b)
  BY DEF Shows
<1>3. Unheard' = Unheard /\ Unique' = Unique /\ \A op : RowFirst(op)' = RowFirst(op)
  BY DEF Unheard, Unique, RowFirst
<1>4. LogOK => LogOK'
  BY <1>1, <1>3 DEF LogOK
<1> QED BY <1>1, <1>2, <1>3, <1>4

(* The requests of M neither owe anything nor come to owe a row.           *)
LEMMA QuietKept ==
  ASSUME Types, Kept, NEW M \in SUBSET Request, Others(M),
         UNCHANGED <<coll, records, rows, log, pos>>,
         \A c \in M : /\ ~(pc[c] = "pds" /\ RowFirst(job[c].op)) /\ ~(pc[c] = "row" /\ Unheard)
                      /\ pc'[c] = "row" => RowFirst(job'[c].op) /\ job'[c].op # "create",
         \A c \in M : \A b \in Request \ M :
           pc'[c] # "idle" => (pc[c] # "idle" /\ job'[c].rkey = job[c].rkey)
                              \/ (Inserting(b) /\ pc[b] = "row" /\ job[b].op = "create"
                                    => job'[c].rkey # job[b].rkey)
  PROVE  Kept'
<1>1. /\ \A k, b : Shows(k, b)' <=> Shows(k, b)
      /\ Unheard' = Unheard /\ Unique' = Unique
      /\ \A op : RowFirst(op)' = RowFirst(op)
  BY SameLog
<1>2. ASSUME NEW k, NEW a \in Request, Owes(a, k) PROVE Owes(a, k)'
  <2>1. a \notin M
    BY <1>2 DEF Owes
  <2>2. pc'[a] = pc[a] /\ job'[a] = job[a] /\ Target(a)' = Target(a)
    BY <2>1 DEF Others, Target
  <2> QED BY <1>1, <1>2, <2>2 DEF Owes
<1>3. ASSUME NEW k \in Rkey PROVE Mirrored(k)'
  <2>1. Unread(k)' <=> Unread(k)
    BY DEF Unread
  <2> QED BY <1>1, <1>2, <2>1 DEF Kept, Mirrored
<1>4. GoneOK'
  <2> SUFFICES ASSUME NEW r \in rows, r.gone, records[r.rkey] # None
               PROVE  \E a \in Request : pc'[a] = "pds" /\ job'[a].op = "delete" /\ job'[a].rkey = r.rkey
    BY <1>1 DEF Kept, GoneOK
  <2>1. PICK a \in Request : pc[a] = "pds" /\ job[a].op = "delete" /\ job[a].rkey = r.rkey
    BY DEF Kept, GoneOK
  <2>2. a \notin M
    BY <2>1 DEF RowFirst, Kept, GoneOK
  <2> QED BY <2>1, <2>2 DEF Others
<1>5. ASSUME NEW a \in Request PROVE Written(a)'
  <2>1. CASE a \in M
    BY <1>1, <2>1 DEF Written
  <2>2. CASE a \notin M
    <3>1. pc'[a] = pc[a] /\ job'[a] = job[a] /\ Target(a)' = Target(a) /\ Written(a)
      BY <2>2 DEF Others, Target, Kept
    <3> QED BY <1>1, <3>1 DEF Written
  <2> QED BY <2>1, <2>2
<1>6. Unique' => LastLive'
  BY <1>1 DEF Kept, LastLive
<1>7. ASSUME Unheard', NEW a \in Request PROVE Inserting(a)'
  <2> SUFFICES ASSUME pc'[a] = "row", job'[a].op = "create"
               PROVE  Only(a)' /\ \A r \in rows : r.rkey # job'[a].rkey
    BY DEF Inserting
  <2>1. a \notin M
    OBVIOUS
  <2>2. pc[a] = "row" /\ job'[a] = job[a] /\ Inserting(a)
    BY <1>1, <1>7, <2>1 DEF Others, Kept
  <2>3. Only(a) /\ \A r \in rows : r.rkey # job[a].rkey
    BY <2>2 DEF Inserting
  <2>4. ASSUME NEW c \in Request \ {a}, pc'[c] # "idle" PROVE job'[c].rkey # job'[a].rkey
    <3>1. CASE c \in M
      BY <2>1, <2>2, <2>3, <2>4, <3>1 DEF Only
    <3>2. CASE c \notin M
      BY <2>2, <2>3, <2>4, <3>2 DEF Only, Others
    <3> QED BY <3>1, <3>2
  <2> QED BY <2>2, <2>3, <2>4 DEF Only
<1> QED BY <1>3, <1>4, <1>5, <1>6, <1>7 DEF Kept

(* The invariant of a keyed collection after a step. *)
LEMMA KeyedNext ==
  ASSUME Types', coll # "profile", coll' = coll, KeysOK', LogOK', Jobs',
         ~blemished' => Kept'
  PROVE  MInv'
BY DEF MInv, KeyedInv, Jobs

(* The parts of the invariant of a keyed collection. *)
LEMMA KeyedParts ==
  ASSUME MInv, coll # "profile"
  PROVE  Types /\ KeysOK /\ LogOK /\ Jobs /\ (~blemished => Kept)
BY DEF MInv, KeyedInv, Jobs

(* A request starts: to create a record with a fresh key, or on the key of *)
(* a row.                                                                  *)
LEMMA CallMInv ==
  ASSUME MInv, coll # "profile", NEW a \in Request, NEW op, NEW k, NEW b \in Contents,
         Call(a, op, k, b),
         \/ op = "create" /\ k = NextRkey
         \/ op \in {"edit", "delete"} /\ \E r \in rows : r.rkey = k,
         op = "edit" => ~Unique
  PROVE  MInv'
<1> USE KeyedParts
<1>1. /\ pc[a] = "idle" /\ calls < MaxCalls /\ calls' = calls + 1
      /\ pc' = [pc EXCEPT ![a] = IF RowFirst(op) THEN "row" ELSE "pds"]
      /\ job' = [job EXCEPT ![a] = [op |-> op, rkey |-> k, body |-> b, at |-> 0]]
      /\ UNCHANGED <<records, tables, log, stream, blemished, others>>
  BY DEF Call
<1>2. UNCHANGED <<coll, rows, seq, given, records, log, pos, saved, unsaved, blemished, others>>
  BY <1>1 DEF tables, stream
<1>3. /\ pc' \in [Request -> Places] /\ DOMAIN job' = Request
      /\ Others({a})
      /\ pc'[a] = (IF RowFirst(op) THEN "row" ELSE "pds")
      /\ job'[a] = [op |-> op, rkey |-> k, body |-> b, at |-> 0]
  BY <1>1 DEF Types, Places, Others
<1>4. /\ calls \in 0..MaxCalls /\ others \in 0..MaxOthers /\ MaxCalls \in Nat /\ MaxOthers \in Nat
      /\ Len(log) \in Nat /\ rows \subseteq RowType
  BY RecordsAssumption DEF Types, RowType
<1>5. NextRkey \in Rkey /\ NextRkey \in Nat /\ NextRkey' = NextRkey + 1
  BY <1>1, <1>2, <1>4 DEF NextRkey, Rkey
<1>6. k \in Rkey /\ k < NextRkey'
  <2>1. CASE k = NextRkey
    BY <1>5, <2>1
  <2>2. CASE \E r \in rows : r.rkey = k
    <3> PICK r \in rows : r.rkey = k
      BY <2>2
    <3>1. k \in Rkey /\ Used(k)
      BY <1>4, RowFields DEF Used
    <3>2. k < NextRkey
      BY <3>1 DEF KeysOK
    <3>3. k \in Nat
      BY <3>1, RkeyNat
    <3> QED BY <1>5, <3>1, <3>2, <3>3
  <2> QED BY <2>1, <2>2
<1>7. \A q \in Rkey : Used(q) => q # NextRkey
  BY <1>5 DEF KeysOK
<1>8. \A c \in Request \ {a} : pc[c] # "idle" => job[c].rkey \in Nat /\ job[c].rkey < NextRkey
  BY RkeyNat DEF Jobs, JobOK
<1>9. /\ LogOK' /\ \A q : (Told(q)' <=> Told(q)) /\ (Used(q)' <=> Used(q))
      /\ Unheard' = Unheard /\ Unique' = Unique
      /\ \A o : RowFirst(o)' = RowFirst(o)
  BY <1>2, SameLog
<1>10. op # "create" => Used(k)
  BY DEF Used
<1>11. Types'
  <2>1. calls' \in 0..MaxCalls
    BY <1>1, <1>4
  <2> QED BY <1>2, <1>3, <2>1 DEF Types, Places, Contents, Unique
<1>12. KeysOK'
  <2>1. op = "create" => ~Used(k)
    BY <1>6, <1>7
  <2>2. NextRkey <= NextRkey' /\ NextRkey' \in Nat
    BY <1>5
  <2>3. Used(job[a].rkey)' <=> Used(k)'
    BY <1>3
  <2> QED
    BY <1>3, <1>5, <1>6, <1>9, <2>1, <2>2, <2>3, KeysKept DEF RowFirst
<1>13. Jobs'
  <2>1. \A c \in Request \ {a} : pc[c] # "idle" /\ op = "create" => job[c].rkey # k
    BY <1>5, <1>8
  <2>2. \A c \in Request \ {a} : Creating(c) => job[c].rkey # k \/ op = "create"
    BY <1>6, <1>10 DEF KeysOK
  <2>3. \A c \in Request \ {a} : JobOK(c)'
    <3> SUFFICES ASSUME NEW c \in Request \ {a}, pc[c] # "idle" PROVE JobOK(c)'
      BY <1>3 DEF JobOK, Others
    <3>1. pc'[c] = pc[c] /\ job'[c] = job[c] /\ JobOK(c)
      BY <1>3 DEF Others, Jobs
    <3>2. Creating(c)' <=> Creating(c)
      BY <3>1 DEF Creating
    <3>3. Creating(c) => Only(c)'
      <4> SUFFICES ASSUME Creating(c), NEW d \in Request \ {c}, pc'[d] # "idle"
                   PROVE  job'[d].rkey # job'[c].rkey
        BY DEF Only
      <4>1. CASE d = a
        BY <1>3, <2>1, <2>2, <3>1, <4>1
      <4>2. CASE d # a
        BY <1>3, <3>1, <4>2 DEF JobOK, Only, Others
      <4> QED BY <4>1, <4>2
    <3>4. job[c].rkey < NextRkey'
      BY <1>5, <1>8
    <3>5. Contents' = Contents
      BY <1>2 DEF Contents, Unique
    <3> QED BY <1>2, <1>9, <3>1, <3>2, <3>3, <3>4, <3>5 DEF JobOK
  <2>4. JobOK(a)'
    <3>1. Creating(a)' => Only(a)'
      <4> SUFFICES ASSUME Creating(a)', NEW d \in Request \ {a}, pc'[d] # "idle"
                   PROVE  job'[d].rkey # job'[a].rkey
        BY DEF Only
      <4> QED BY <1>3, <2>1 DEF Creating, Others
    <3>2. ~Creating(a)' /\ ~Unheard => Told(k)'
      <4>1. op = "create" => Creating(a)'
        BY <1>3 DEF Creating, RowFirst
      <4> QED BY <1>9, <4>1 DEF LogOK
    <3>3. Contents' = Contents
      BY <1>2 DEF Contents, Unique
    <3>4. pc'[a] \in {"pds", "row"} /\ (pc'[a] = "row" => RowFirst(op))
      BY <1>3
    <3>6. job'[a] = [op |-> job'[a].op, rkey |-> job'[a].rkey, body |-> job'[a].body, at |-> job'[a].at]
      BY <1>3
    <3>5. /\ job'[a].op = op /\ job'[a].rkey = k /\ job'[a].body = b /\ job'[a].at = 0
          /\ 0 \in 0..Len(log')
      BY <1>2, <1>3, <1>4
    <3> QED BY <1>6, <1>9, <3>1, <3>2, <3>3, <3>4, <3>5, <3>6 DEF JobOK
  <2> QED BY <2>3, <2>4 DEF Jobs
<1>14. ASSUME ~blemished' PROVE Kept'
  <2>1. Kept
    BY <1>2, <1>14
  <2>2. pc'[a] = "row" => RowFirst(job'[a].op) /\ job'[a].op # "create"
    BY <1>3, <1>9 DEF RowFirst
  <2>3. \A c \in Request \ {a} : Inserting(c) /\ pc[c] = "row" /\ job[c].op = "create" =>
          job'[a].rkey # job[c].rkey
    BY <1>3, <1>5, <1>8 DEF Inserting
  <2>4. \A c \in {a} : \A d \in Request \ {a} :
          pc'[c] # "idle" => (pc[c] # "idle" /\ job'[c].rkey = job[c].rkey)
                             \/ (Inserting(d) /\ pc[d] = "row" /\ job[d].op = "create"
                                   => job'[c].rkey # job[d].rkey)
    BY <2>3
  <2>5. \A c \in {a} : /\ ~(pc[c] = "pds" /\ RowFirst(job[c].op)) /\ ~(pc[c] = "row" /\ Unheard)
                       /\ pc'[c] = "row" => RowFirst(job'[c].op) /\ job'[c].op # "create"
    BY <1>1, <2>2
  <2>6. {a} \in SUBSET Request /\ Types
    OBVIOUS
  <2>7. UNCHANGED <<coll, records, rows, log, pos>>
    BY <1>2
  <2>8. Others({a})
    BY <1>3
  <2> HIDE KeyedParts
  <2> QED BY <2>1, <2>4, <2>5, <2>6, <2>7, <2>8, QuietKept, Zenon
<1> QED BY <1>2, <1>9, <1>11, <1>12, <1>13, <1>14, KeyedNext

(* Every request of a page starts in order. *)
LEMMA RequestsMInv ==
  ASSUME MInv, coll # "profile", NEW a \in Request, Requests(a) PROVE MInv'
<1> USE KeyedParts
<1>0. rows \subseteq RowType
  BY DEF Types, RowType
<1>1. ASSUME NEW c, NEW b \in Contents, Create(a, c, b) PROVE MInv'
  BY <1>1, CallMInv DEF Create
<1>2. ASSUME NEW c, NEW r \in rows, Delete(a, c, r) PROVE MInv'
  <2>1. r.body \in Contents
    BY <1>0, RowFields
  <2> QED BY <1>2, <2>1, CallMInv DEF Delete
<1>3. ASSUME NEW c, c \in {"string", "issue", "comment"}, NEW r \in rows, NEW b \in Body,
             Edit(a, c, r, b)
      PROVE  MInv'
  <2>1. coll = c /\ Call(a, "edit", r.rkey, b)
    BY <1>3 DEF Edit
  <2>2. ~Unique /\ Contents = Body
    BY <1>3, <2>1 DEF Unique, Contents
  <2> QED BY <2>1, <2>2, CallMInv
<1>4. CASE \E b \in Contents :
             \/ Star(a, b) \/ Follow(a, b) \/ AttachArtifact(a, b) \/ addKey(a, b)
             \/ createString(a, b) \/ NewIssue(a, b) \/ NewIssueComment(a, b) \/ React(a, b)
  BY <1>1, <1>4 DEF Star, Follow, AttachArtifact, addKey, createString, NewIssue,
                    NewIssueComment, React
<1>5. CASE \E r \in rows :
             \/ Unstar(a, r) \/ Unfollow(a, r) \/ DeleteArtifact(a, r) \/ deleteKey(a, r)
             \/ deleteString(a, r) \/ DeleteIssue(a, r) \/ DeleteIssueComment(a, r) \/ Unreact(a, r)
  BY <1>2, <1>5 DEF Unstar, Unfollow, DeleteArtifact, deleteKey, deleteString,
                    DeleteIssue, DeleteIssueComment, Unreact
<1>6. CASE \E r \in rows : \E b \in Body :
             editString(a, r, b) \/ EditIssue(a, r, b) \/ EditIssueComment(a, r, b)
  BY <1>3, <1>6 DEF editString, EditIssue, EditIssueComment
<1> QED BY <1>4, <1>5, <1>6 DEF Requests

----------------------------------------------------------------------------
(***************************************************************************)
(* Changes of a record, by the requests of M that work on it, or by        *)
(* another client.                                                         *)
(***************************************************************************)
LEMMA CommitShared ==
  ASSUME MInv, coll # "profile", NEW k \in Rkey, NEW b \in Contents \cup {None},
         Commit(k, b), UNCHANGED <<coll, rows>>,
         b # None => records[k] # None \/ ~Used(k)
  PROVE  /\ LogOK'
         /\ Len(log') \in Nat /\ Len(log) <= Len(log')
         /\ \A q : Told(q) => Told(q)'
         /\ \A q \in Rkey : q # k => (Used(q)' => Used(q))
         /\ b # None /\ ~Unheard => Told(k)'
<1> USE KeyedParts
<1>1. LogOK'
  BY CommitLogOK
<1>2. Len(log') \in Nat /\ Len(log) <= Len(log') /\ Len(log) \in Nat
  BY CommitLog
<1>3. \A i \in 1..Len(log) : i \in 1..Len(log') /\ log'[i] = log[i]
  BY <1>2, CommitLog
<1>4. \A q : Told(q) => Told(q)'
  BY <1>3 DEF Told
<1>5. ASSUME NEW q \in Rkey, q # k, Used(q)' PROVE Used(q)
  <2>1. records'[q] = records[q]
    BY <1>5, CommitLog
  <2>2. ASSUME NEW i \in 1..Len(log'), log'[i].rkey = q PROVE Told(q)
    <3>1. i \in 1..Len(log)
      BY <1>2, <1>5, <2>2, CommitLog
    <3> QED BY <1>3, <2>2, <3>1 DEF Told
  <2>3. Told(q)' => Told(q)
    BY <2>2 DEF Told
  <2> QED BY <1>5, <2>1, <2>3 DEF Used
<1>6. b # None /\ ~Unheard => Told(k)'
  BY <1>1, CommitLog DEF LogOK, Unheard
<1> QED BY <1>1, <1>2, <1>4, <1>5, <1>6

(* A commit of a content that no other record has leaves the mirror to the *)
(* event of the commit.                                                    *)
LEMMA CommitKept ==
  ASSUME MInv, coll # "profile", Kept,
         NEW k \in Rkey, NEW b \in Contents \cup {None}, Commit(k, b), ~Twin(k, b),
         UNCHANGED <<coll, rows, pos>>,
         b # None => records[k] # None \/ ~Used(k),
         NEW M \in SUBSET Request, Others(M),
         \A c \in M : pc[c] # "idle" /\ job[c].rkey = k
  PROVE  /\ \A q \in Rkey \ {k} : Mirrored(q)'
         /\ ~Unheard /\ (\A c \in M : Owes(c, k) => Target(c) = b) => Mirrored(k)'
         /\ (\A c \in M : pc[c] = "pds" /\ job[c].op = "delete" => b = None) => GoneOK'
         /\ (Unheard => \A c \in Request \ M : job[c].rkey = k /\ pc[c] = "row" =>
               b = Target(c)) => \A c \in Request \ M : Written(c)'
         /\ Unique' => LastLive'
<1> USE KeyedParts
<1>1. /\ \A q, x : Shows(q, x)' <=> Shows(q, x)
      /\ Unheard' = Unheard /\ Unique' = Unique
      /\ \A op : RowFirst(op)' = RowFirst(op)
  BY DEF Shows, Unheard, Unique, RowFirst
<1>2. records'[k] = b /\ \A q \in Rkey : q # k => records'[q] = records[q]
  BY CommitLog
<1>3. \A c \in Request \ M : pc'[c] = pc[c] /\ job'[c] = job[c] /\ Target(c)' = Target(c)
  BY DEF Others, Target
<1>4. \A q : \A c \in Request \ M : Owes(c, q) => Owes(c, q)'
  BY <1>1, <1>3 DEF Owes
<1>5. ASSUME NEW q \in Rkey \ {k} PROVE Mirrored(q)'
  <2>1. CASE Unread(q)
    BY <2>1, CommitUnread DEF Mirrored
  <2>2. CASE Shows(q, records[q])
    BY <1>1, <1>2, <2>2 DEF Mirrored
  <2>3. CASE \E c \in Request : Owes(c, q)
    BY <1>4, <2>3 DEF Owes, Mirrored
  <2> QED BY <2>1, <2>2, <2>3 DEF Kept, Mirrored
<1>6. ASSUME ~Unheard, \A c \in M : Owes(c, k) => Target(c) = b PROVE Mirrored(k)'
  <2>1. CASE records[k] # b
    BY <1>6, <2>1, CommitUnread DEF Mirrored
  <2>2. CASE records[k] = b
    <3>1. CASE Unread(k)
      BY <3>1, CommitUnread DEF Mirrored
    <3>2. CASE Shows(k, records[k])
      BY <1>1, <1>2, <2>2, <3>2 DEF Mirrored
    <3>3. ASSUME NEW c \in Request, Owes(c, k) PROVE Mirrored(k)'
      <4>1. CASE c \in M
        <5>1. Shows(k, b)
          BY <1>6, <3>3, <4>1 DEF Owes
        <5> QED BY <1>1, <1>2, <5>1 DEF Mirrored
      <4>2. CASE c \notin M
        BY <1>4, <3>3, <4>2 DEF Mirrored
      <4> QED BY <4>1, <4>2
    <3> QED BY <3>1, <3>2, <3>3 DEF Kept, Mirrored
  <2> QED BY <2>1, <2>2
<1>7. ASSUME \A c \in M : pc[c] = "pds" /\ job[c].op = "delete" => b = None PROVE GoneOK'
  <2> SUFFICES ASSUME NEW r \in rows, r.gone, records'[r.rkey] # None
               PROVE  \E c \in Request : pc'[c] = "pds" /\ job'[c].op = "delete" /\ job'[c].rkey = r.rkey
    BY <1>1 DEF Kept, GoneOK
  <2>1. r.rkey \in Rkey
    BY RowFields DEF Types, RowType
  <2>2. records[r.rkey] # None
    BY <1>2, <2>1 DEF Used
  <2>3. PICK c \in Request : pc[c] = "pds" /\ job[c].op = "delete" /\ job[c].rkey = r.rkey
    BY <2>2 DEF Kept, GoneOK
  <2>4. c \notin M
    BY <1>2, <1>7, <2>3
  <2> QED BY <1>3, <2>3, <2>4
<1>8. ASSUME Unheard => \A c \in Request \ M : job[c].rkey = k /\ pc[c] = "row" => b = Target(c),
             NEW c \in Request \ M
      PROVE  Written(c)'
  <2> SUFFICES ASSUME pc[c] = "row", ~RowFirst(job[c].op)
               PROVE  \/ records'[job[c].rkey] = Target(c)
                      \/ \E i \in (job[c].at + 1)..Len(log') : log'[i].rkey = job[c].rkey
    BY <1>1, <1>3 DEF Written
  <2>0. job[c].rkey \in Rkey /\ job[c].at \in 0..Len(log)
    BY DEF Jobs, JobOK
  <2>1. /\ job[c].rkey \in Rkey /\ job[c].at \in 0..Len(log)
        /\ Len(log) \in Nat /\ Len(log') \in Nat /\ Len(log) <= Len(log')
    BY <2>0, CommitLog
  <2>2. ASSUME NEW i \in (job[c].at + 1)..Len(log), log[i].rkey = job[c].rkey
        PROVE  \E j \in (job[c].at + 1)..Len(log') : log'[j].rkey = job[c].rkey
    <3>1. i \in (job[c].at + 1)..Len(log') /\ i \in 1..Len(log)
      BY <2>1
    <3> QED BY <2>2, <3>1, CommitLog
  <2>3. CASE records'[job[c].rkey] = records[job[c].rkey]
    BY <2>2, <2>3 DEF Kept, Written
  <2>4. CASE records'[job[c].rkey] # records[job[c].rkey]
    <3>1. job[c].rkey = k /\ records[k] # b
      BY <1>2, <2>1, <2>4
    <3>2. CASE Unheard
      BY <1>2, <1>8, <3>1, <3>2
    <3>3. CASE ~Unheard
      <4>1. /\ Len(log') = Len(log) + 1 /\ log'[Len(log) + 1].rkey = k
        BY <3>1, <3>3, CommitLog
      <4>2. Len(log) + 1 \in (job[c].at + 1)..Len(log')
        BY <2>1, <4>1
      <4> QED BY <3>1, <4>1, <4>2
    <3> QED BY <3>2, <3>3
  <2> QED BY <2>3, <2>4
<1>9. ASSUME Unique PROVE LastLive'
  <2>1. LastLive
    BY <1>9 DEF Kept
  <2>2. CASE b = None
    <3>1. \A q \in Rkey : records'[q] # None => q # k /\ records[q] # None
      BY <1>2, <2>2
    <3>2. ASSUME ~Unheard, NEW q \in Rkey, records'[q] # None
          PROVE  log'[Len(log')].rkey = q /\ \A i \in 1..(Len(log') - 1) : log'[i].rkey # q
      <4>1. records[k] = b
        BY <2>1, <2>2, <3>1, <3>2 DEF LastLive
      <4>2. log' = log
        BY <4>1, CommitLog
      <4> QED BY <2>1, <3>1, <3>2, <4>2 DEF LastLive
    <3>3. \A p, q \in Rkey : records'[p] # None /\ records'[q] # None => p = q
      BY <2>1, <3>1 DEF LastLive
    <3>4. \A q \in Rkey : ~Unheard /\ records'[q] # None =>
            log'[Len(log')].rkey = q /\ \A i \in 1..(Len(log') - 1) : log'[i].rkey # q
      BY <3>2
    <3> QED BY <1>1, <3>3, <3>4 DEF LastLive
  <2>3. CASE b # None
    <3>1. \A q \in Rkey : records'[q] # None => q = k
      <4>1. b = Subject /\ \A q \in Rkey : records[q] \in {Subject, None}
        BY <1>9, <2>3, Classes DEF Types
      <4> QED BY <1>2, <1>9, <2>3, <4>1 DEF Twin
    <3>2. ASSUME ~Unheard, records'[k] # None
          PROVE  log'[Len(log')].rkey = k /\ \A i \in 1..(Len(log') - 1) : log'[i].rkey # k
      <4>1. CASE records[k] = b
        <5>1. log' = log
          BY <4>1, CommitLog
        <5> QED BY <2>1, <2>3, <3>2, <4>1, <5>1 DEF LastLive
      <4>2. CASE records[k] # b
        <5>1. ~Used(k)
          <6>1. b = Subject /\ records[k] \in {Subject, None}
            BY <1>9, <2>3, Classes DEF Types
          <6> QED BY <2>3, <4>2, <6>1
        <5>2. /\ Len(log') = Len(log) + 1 /\ log'[Len(log) + 1].rkey = k /\ Len(log) \in Nat
              /\ \A i \in 1..Len(log) : log'[i] = log[i]
          BY <3>2, <4>2, CommitLog
        <5> QED BY <5>1, <5>2 DEF Used, Told
      <4> QED BY <4>1, <4>2
    <3>3. \A p, q \in Rkey : records'[p] # None /\ records'[q] # None => p = q
      BY <3>1
    <3>4. \A q \in Rkey : ~Unheard /\ records'[q] # None =>
            log'[Len(log')].rkey = q /\ \A i \in 1..(Len(log') - 1) : log'[i].rkey # q
      BY <3>1, <3>2
    <3> QED BY <1>1, <3>3, <3>4 DEF LastLive
  <2> QED BY <2>2, <2>3
<1> QED BY <1>1, <1>5, <1>6, <1>7, <1>8, <1>9

----------------------------------------------------------------------------
(***************************************************************************)
(* The calls of the PDS.                                                   *)
(***************************************************************************)
LEMMA StepJobs ==
  ASSUME MInv, coll # "profile", NEW a \in Request, pc[a] # "idle", Others({a}), 
         UNCHANGED <<coll, calls, others>>,
         Len(log') \in Nat, Len(log) <= Len(log'), \A q : Told(q) => Told(q)',
         pc'[a] # "idle" => job'[a].rkey = job[a].rkey,
         JobOK(a)'
  PROVE  Jobs'
<1> USE KeyedParts
<1>1. NextRkey \in Nat /\ NextRkey' = NextRkey
  BY RkeyNat DEF NextRkey
<1>2. \A b \in Request \ {a} : JobOK(b)'
  <2>1. {a} \in SUBSET Request /\ NextRkey <= NextRkey' /\ NextRkey' \in Nat
    BY <1>1
  <2>2. \A c \in {a} : \A b \in Request \ {a} :
          pc'[c] # "idle" => (pc[c] # "idle" /\ job'[c].rkey = job[c].rkey)
                             \/ (pc[b] # "idle" => job'[c].rkey # job[b].rkey)
    OBVIOUS
  <2> QED BY <1>1, <2>1, <2>2, OthersOK
<1> QED BY <1>2 DEF Jobs

(* A step of a request that no longer creates its key keeps keys apart. *)
LEMMA StepKeys ==
  ASSUME MInv, coll # "profile", NEW a \in Request, pc[a] # "idle", Others({a}),
         UNCHANGED <<calls, others>>,
         \A q \in Rkey : q # job[a].rkey => (Used(q)' => Used(q)),
         ~(pc'[a] = "pds" /\ job'[a].op = "create")
  PROVE  KeysOK'
<1> USE KeyedParts
<1>1. NextRkey \in Nat /\ NextRkey' = NextRkey
  BY RkeyNat DEF NextRkey
<1>2. job[a].rkey \in Rkey /\ job[a].rkey < NextRkey
  BY DEF Jobs, JobOK
<1>3. \A c \in Request \ {a} : Creating(c) => job[c].rkey # job[a].rkey
  BY DEF Jobs, JobOK, Creating, Only
<1>4. {a} \in SUBSET Request /\ NextRkey <= NextRkey' /\ NextRkey' \in Nat /\ job[a].rkey < NextRkey'
  BY <1>1, <1>2
<1> QED BY <1>1, <1>2, <1>3, <1>4, KeysKept

(* A step that ends a request, or takes it to its rollback, and changes    *)
(* neither a row nor a record.                                             *)
LEMMA QuietStep ==
  ASSUME MInv, coll # "profile", NEW a \in Request, pc[a] # "idle",
         NEW l \in {"idle", "undo"}, Goto(a, l), 
         l = "undo" => job[a].op = "create" /\ pc[a] = "row" /\ ~Unheard,
         UNCHANGED <<records, tables, log, stream, calls, others>>, blemished' \in BOOLEAN,
         ~blemished' => /\ ~blemished
                        /\ ~(pc[a] = "pds" /\ RowFirst(job[a].op))
                        /\ ~(pc[a] = "row" /\ Unheard)
  PROVE  MInv'
<1> USE KeyedParts
<1>1. UNCHANGED <<coll, rows, seq, pos, saved>>
  BY DEF tables, stream
<1>2. /\ pc' \in [Request -> Places] /\ DOMAIN job' = Request
      /\ Others({a}) /\ pc'[a] = l /\ (l # "idle" => job'[a] = job[a])
  BY GotoMoves DEF Places
<1>3. /\ LogOK' /\ \A k : (Told(k)' <=> Told(k)) /\ (Used(k)' <=> Used(k))
      /\ Unheard' = Unheard /\ Unique' = Unique
      /\ \A op : RowFirst(op)' = RowFirst(op)
  BY <1>1, SameLog
<1>4. Types'
  BY <1>1, <1>2 DEF Types, Places, Contents, Unique
<1>5. Len(log') \in Nat /\ Len(log) <= Len(log')
  BY DEF Types
<1>6. JobOK(a)'
  <2>1. CASE l = "idle"
    BY <1>2, <2>1 DEF JobOK
  <2>2. CASE l = "undo"
    <3>1. JobOK(a) /\ ~Creating(a)' /\ ~Creating(a)
      BY <1>2, <2>2 DEF Jobs, Creating
    <3>2. NextRkey' = NextRkey /\ Contents' = Contents
      BY <1>1 DEF NextRkey, Contents, Unique
    <3> QED BY <1>1, <1>2, <1>3, <2>2, <3>1, <3>2 DEF JobOK
  <2> QED BY <2>1, <2>2
<1>7. Jobs'
  BY <1>1, <1>2, <1>3, <1>5, <1>6, StepJobs
<1>8. KeysOK'
  BY <1>2, <1>3, StepKeys
<1>9. ASSUME ~blemished' PROVE Kept'
  <2>1. {a} \in SUBSET Request /\ Kept /\ UNCHANGED <<coll, records, rows, log, pos>>
    BY <1>1, <1>9
  <2>2. \A c \in {a} : /\ ~(pc[c] = "pds" /\ RowFirst(job[c].op)) /\ ~(pc[c] = "row" /\ Unheard)
                       /\ pc'[c] = "row" => RowFirst(job'[c].op) /\ job'[c].op # "create"
    BY <1>2, <1>9
  <2>3. \A c \in {a} : \A b \in Request \ {a} :
          pc'[c] # "idle" => (pc[c] # "idle" /\ job'[c].rkey = job[c].rkey)
                             \/ (Inserting(b) /\ pc[b] = "row" /\ job[b].op = "create"
                                   => job'[c].rkey # job[b].rkey)
    BY <1>2
  <2> QED BY <1>2, <2>1, <2>2, <2>3, QuietKept
<1> QED BY <1>1, <1>3, <1>4, <1>7, <1>8, <1>9, KeyedNext

(* A call of the PDS that fails gives the mirror up if the row is written. *)
LEMMA PdsErrorMInv ==
  ASSUME MInv, coll # "profile", NEW a \in Request, PdsError(a) PROVE MInv'
<1>1. /\ pc[a] = "pds" /\ UNCHANGED <<calls, others, records, tables, log, stream>>
      /\ Goto(a, "idle") /\ blemished' = (blemished \/ RowFirst(job[a].op))
  BY DEF PdsError, Fail, Blemish
<1>2. blemished' \in BOOLEAN
  BY <1>1
<1> QED BY <1>1, <1>2, QuietStep

(* A row that is not written is left to the firehose, or to the rollback. *)
LEMMA RowErrorMInv ==
  ASSUME MInv, coll # "profile", NEW a \in Request, RowError(a) PROVE MInv'
<1>1. /\ pc[a] = "row" /\ UNCHANGED <<calls, others, records, tables, log, stream>>
      /\ blemished' = (blemished \/ Unheard)
      /\ \/ Goto(a, "idle")
         \/ Goto(a, "undo") /\ job[a].op = "create" /\ ~Unheard
  BY DEF RowError, Fail, Blemish, Unheard
<1>2. blemished' \in BOOLEAN
  BY <1>1
<1> QED BY <1>1, <1>2, QuietStep

(* The request's own part of a change it makes to its record. *)
LEMMA PutMInv ==
  ASSUME MInv, coll # "profile", NEW a \in Request, pc[a] \in {"pds", "undo"},
         NEW k, k = job[a].rkey, NEW b \in Contents \cup {None}, Put(k, b),
         UNCHANGED <<tables, stream, calls, others>>,
         b # None => /\ records[k] # None \/ ~Used(k)
                     /\ b = job[a].body,
         pc[a] = "pds" => b = Target(a),
         \/ pc'[a] = "idle" /\ (pc[a] = "pds" => RowFirst(job[a].op))
         \/ /\ pc'[a] = "row" /\ pc[a] = "pds" /\ ~RowFirst(job[a].op)
            /\ job'[a] = [job[a] EXCEPT !.at = Len(log')],
         pc' \in [Request -> Places], DOMAIN job' = Request, Others({a})
  PROVE  MInv'
<1> USE KeyedParts
<1>1. UNCHANGED <<coll, rows, seq, pos, saved>>
  BY DEF tables, stream
<1>2. JobOK(a) /\ k \in Rkey
  BY DEF Jobs, JobOK
<1>3. Commit(k, b) /\ blemished' = (blemished \/ Twin(k, b))
  BY DEF Put, Blemish
<1>4. /\ LogOK'
      /\ Len(log') \in Nat /\ Len(log) <= Len(log') /\ Len(log) \in Nat
      /\ \A q : Told(q) => Told(q)'
      /\ \A q \in Rkey : q # k => (Used(q)' => Used(q))
      /\ b # None /\ ~Unheard => Told(k)'
  BY <1>1, <1>2, <1>3, CommitShared, CommitLog
<1>5. /\ Unheard' = Unheard /\ Unique' = Unique /\ Contents' = Contents
      /\ \A op : RowFirst(op)' = RowFirst(op)
  BY <1>1 DEF Unheard, Unique, RowFirst, Contents
<1>6. Types'
  <2>1. records' \in [Rkey -> Contents \cup {None}] /\ log' \in Seq(LogType)
    BY <1>2, <1>3, CommitLog
  <2>2. pos' \in 1..(Len(log') + 1) /\ saved' \in 1..(Len(log') + 1)
    BY <1>1, <1>4 DEF Types
  <2> QED BY <1>1, <1>3, <1>5, <2>1, <2>2 DEF Types, Places, LogType
<1>7. pc'[a] = "row" =>
        /\ job'[a] = [op |-> job[a].op, rkey |-> k, body |-> job[a].body, at |-> Len(log')]
        /\ job'[a].op = job[a].op /\ job'[a].rkey = k /\ job'[a].body = job[a].body
        /\ job'[a].at = Len(log')
  BY <1>2 DEF JobOK
<1>8. JobOK(a)'
  <2>1. CASE pc'[a] = "idle"
    BY <2>1 DEF JobOK
  <2>2. CASE pc'[a] = "row"
    <3>1. NextRkey' = NextRkey /\ ~Creating(a)'
      BY <2>2 DEF NextRkey, Creating
    <3>2. pc[a] = "pds" /\ ~RowFirst(job[a].op)
      BY <2>2
    <3>3. ~Unheard => Told(k)'
      <4>1. CASE job[a].op = "create"
        <5>1. b # None
          BY <1>2, <3>2, <4>1, Classes DEF Target, JobOK
        <5> QED BY <1>4, <5>1
      <4>2. CASE job[a].op # "create"
        BY <1>2, <1>4, <3>2, <4>2 DEF JobOK, Creating
      <4> QED BY <4>1, <4>2
    <3>4. ~Unheard => Len(log') > 0
      BY <1>4, <3>3 DEF Told
    <3>5. Len(log') \in 0..Len(log')
      BY <1>4
    <3>6. /\ job[a].op \in {"create", "edit", "delete"} /\ k \in Rkey /\ k < NextRkey
          /\ job[a].body \in Contents /\ (job[a].op = "edit" => ~Unique)
      BY <1>2, <3>2 DEF JobOK
    <3>7. /\ job'[a] = [op |-> job'[a].op, rkey |-> job'[a].rkey, body |-> job'[a].body, at |-> job'[a].at]
          /\ job'[a].op \in {"create", "edit", "delete"}
          /\ job'[a].rkey \in Rkey /\ job'[a].rkey < NextRkey'
          /\ job'[a].body \in Contents' /\ job'[a].at \in 0..Len(log')
          /\ job'[a].op = "edit" => ~Unique'
          /\ ~Unheard' => Told(job[a].rkey)'
          /\ ~Unheard' => job'[a].at > 0
      BY <1>5, <1>7, <2>2, <3>1, <3>3, <3>4, <3>5, <3>6
    <3> QED BY <2>2, <3>1, <3>7 DEF JobOK
  <2> QED BY <2>1, <2>2
<1>9. Jobs'
  <2>1. pc'[a] # "idle" => job'[a].rkey = job[a].rkey
    BY <1>7
  <2> QED BY <1>1, <1>4, <1>8, <2>1, StepJobs
<1>10. KeysOK'
  BY <1>4, StepKeys
<1>11. ASSUME ~blemished' PROVE Kept'
  <2>1. Kept /\ ~Twin(k, b)
    BY <1>3, <1>11
  <2> DEFINE M == {a}
  <2>2. /\ M \in SUBSET Request /\ Others(M) /\ \A c \in M : pc[c] # "idle" /\ job[c].rkey = k
        /\ UNCHANGED <<coll, rows, pos>> /\ (b # None => records[k] # None \/ ~Used(k))
    BY <1>1
  <2>3. /\ \A q \in Rkey \ {k} : Mirrored(q)'
        /\ ~Unheard /\ (\A c \in M : Owes(c, k) => Target(c) = b) => Mirrored(k)'
        /\ (\A c \in M : pc[c] = "pds" /\ job[c].op = "delete" => b = None) => GoneOK'
        /\ (Unheard => \A c \in Request \ M : job[c].rkey = k /\ pc[c] = "row" =>
              b = Target(c)) => \A c \in Request \ M : Written(c)'
        /\ Unique' => LastLive'
    BY <1>2, <1>3, <2>1, <2>2, CommitKept
  <2>4. \A c \in M : Owes(c, k) => Target(c) = b
    BY DEF Owes
  <2>5. \A c \in M : pc[c] = "pds" /\ job[c].op = "delete" => b = None
    BY DEF Target
  <2>6. Unheard => pc[a] = "pds" /\ pc'[a] = "row"
    <3>1. Unheard => pc[a] # "undo" /\ ~RowFirst(job[a].op)
      BY <1>2 DEF Unheard, RowFirst, JobOK
    <3> QED BY <3>1
  <2>7. Mirrored(k)'
    <3>1. CASE Unheard
      <4>1. pc'[a] = "row" /\ job'[a].rkey = k
        BY <1>7, <2>6, <3>1
      <4> QED BY <1>5, <3>1, <4>1 DEF Mirrored, Owes
    <3>2. CASE ~Unheard
      BY <2>3, <2>4, <3>2
    <3> QED BY <3>1, <3>2
  <2>8. ASSUME Unheard, NEW c \in Request \ M, job[c].rkey = k, pc[c] = "row" PROVE b = Target(c)
    <3>1. job[c].op \in {"create", "delete"} /\ job[a].op \in {"create", "delete"}
      BY <1>2, <2>6, <2>8 DEF Jobs, JobOK, Unheard, Unique
    <3>2. job[c].op # "create"
      BY <2>1, <2>6, <2>8 DEF Kept, Inserting, Only
    <3>3. job[a].op # "create"
      BY <1>2, <2>6, <2>8 DEF JobOK, Creating, Only
    <3>4. job[a].op = "delete" /\ job[c].op = "delete"
      BY <3>1, <3>2, <3>3
    <3> QED BY <2>6, <2>8, <3>4 DEF Target
  <2>9. ASSUME NEW c \in Request PROVE Written(c)'
    <3>1. CASE c = a
      <4> SUFFICES ASSUME pc'[a] = "row" PROVE records'[k] = Target(a)'
        BY <1>7, <3>1 DEF Written
      <4>1. Target(a)' = Target(a) /\ Target(a) = b
        BY <1>7 DEF Target
      <4> QED BY <1>2, <1>3, <4>1, CommitLog
    <3>2. CASE c # a
      BY <2>3, <2>8, <3>2
    <3> QED BY <3>1, <3>2
  <2>10. ASSUME Unheard', NEW c \in Request PROVE Inserting(c)'
    <3> SUFFICES ASSUME pc'[c] = "row", job'[c].op = "create"
                 PROVE  Only(c)' /\ \A r \in rows : r.rkey # job'[c].rkey
      BY <1>1 DEF Inserting
    <3>1. /\ job'[c].rkey = job[c].rkey /\ pc[c] # "idle"
          /\ Only(c) /\ \A r \in rows : r.rkey # job[c].rkey
      <4>1. CASE c = a
        <5>1. Creating(a) /\ Only(a)
          BY <1>2, <1>7, <4>1 DEF Creating, JobOK
        <5>2. ~Used(k)
          BY <1>2, <5>1 DEF KeysOK
        <5> QED BY <1>7, <4>1, <5>1, <5>2 DEF Used
      <4>2. CASE c # a
        <5>1. pc[c] = "row" /\ job'[c] = job[c]
          BY <4>2 DEF Others
        <5> QED BY <1>5, <2>1, <2>10, <5>1 DEF Kept, Inserting
      <4> QED BY <4>1, <4>2
    <3>2. ASSUME NEW d \in Request \ {c}, pc'[d] # "idle" PROVE job'[d].rkey # job'[c].rkey
      <4>1. pc[d] # "idle" /\ job'[d].rkey = job[d].rkey
        BY <1>7, <3>2 DEF Others
      <4> QED BY <3>1, <3>2, <4>1 DEF Only
    <3> QED BY <3>1, <3>2 DEF Only
  <2>11. \A q \in Rkey : Mirrored(q)'
    BY <2>3, <2>7
  <2> QED BY <2>3, <2>5, <2>9, <2>10, <2>11 DEF Kept
<1> QED BY <1>1, <1>4, <1>6, <1>9, <1>10, <1>11, KeyedNext

(* The call of the PDS puts or deletes the record of the request. *)
LEMMA PdsWriteMInv ==
  ASSUME MInv, coll # "profile", NEW a \in Request, PdsWrite(a) PROVE MInv'
<1> USE KeyedParts
<1> DEFINE j == job[a]
           missing == j.op = "edit" /\ records[j.rkey] = None
<1>1. /\ pc[a] = "pds"
      /\ IF missing THEN Blemish(RowFirst("edit")) /\ UNCHANGED <<records, log>>
         ELSE Put(j.rkey, IF j.op = "delete" THEN None ELSE j.body)
      /\ IF missing \/ RowFirst(j.op) THEN Goto(a, "idle")
         ELSE /\ pc' = [pc EXCEPT ![a] = "row"]
              /\ job' = [job EXCEPT ![a].at = Len(log')]
      /\ UNCHANGED <<tables, stream, calls, others>>
  BY DEF PdsWrite, bounds
<1>2. JobOK(a)
  BY DEF Jobs
<1>3. CASE missing
  <2>1. /\ Goto(a, "idle") /\ blemished' = (blemished \/ RowFirst(j.op))
        /\ UNCHANGED <<records, tables, log, stream, calls, others>>
    BY <1>1, <1>3 DEF Blemish
  <2>2. blemished' \in BOOLEAN
    BY <2>1
  <2> QED BY <1>1, <2>1, <2>2, QuietStep
<1>4. CASE ~missing
  <2>1. Put(j.rkey, Target(a))
    BY <1>1, <1>4 DEF Target
  <2>2. Target(a) \in Contents \cup {None}
    BY <1>1, <1>2 DEF Target, JobOK
  <2>3. Target(a) # None => (records[j.rkey] # None \/ ~Used(j.rkey)) /\ Target(a) = j.body
    <3>1. j.op = "create" => ~Used(j.rkey)
      <4>1. j.rkey \in Rkey /\ (j.op = "create" => Creating(a))
        BY <1>1, <1>2 DEF JobOK, Creating
      <4> QED BY <4>1 DEF KeysOK
    <3>2. j.op \in {"create", "edit", "delete"}
      BY <1>1, <1>2 DEF JobOK
    <3> QED BY <1>4, <3>1, <3>2 DEF Target
  <2>4. /\ \/ pc'[a] = "idle" /\ RowFirst(j.op)
           \/ /\ pc'[a] = "row" /\ ~RowFirst(j.op)
              /\ job'[a] = [job[a] EXCEPT !.at = Len(log')]
        /\ pc' \in [Request -> Places] /\ DOMAIN job' = Request /\ Others({a})
    <3>1. CASE RowFirst(j.op)
      <4>1. Goto(a, "idle")
        BY <1>1, <3>1
      <4> QED BY <3>1, <4>1, GotoMoves DEF Places
    <3>2. CASE ~RowFirst(j.op)
      <4>1. pc' = [pc EXCEPT ![a] = "row"] /\ job' = [job EXCEPT ![a].at = Len(log')]
        BY <1>1, <1>4, <3>2
      <4> QED BY <3>2, <4>1 DEF Types, Places, Others
    <3> QED BY <3>1, <3>2
  <2>5. UNCHANGED <<tables, stream, calls, others>> /\ pc[a] \in {"pds", "undo"}
    BY <1>1
  <2> HIDE DEF j
  <2> QED BY <1>1, <2>1, <2>2, <2>3, <2>4, <2>5, PutMInv DEF j
<1> QED BY <1>3, <1>4

(* The rollback deletes the record that was created, or fails and leaves   *)
(* it.                                                                     *)
LEMMA RollbackMInv ==
  ASSUME MInv, coll # "profile", NEW a \in Request, rollbackRecord(a) PROVE MInv'
<1> USE KeyedParts
<1>1. pc[a] = "undo" /\ Goto(a, "idle") /\ UNCHANGED <<tables, stream>>
  BY DEF rollbackRecord
<1>2. CASE Put(job[a].rkey, None) /\ UNCHANGED bounds
  <2>1. /\ pc'[a] = "idle" /\ pc' \in [Request -> Places] /\ DOMAIN job' = Request
        /\ Others({a})
    BY <1>1, GotoMoves DEF Places
  <2>2. None \in Contents \cup {None} /\ UNCHANGED <<calls, others>>
    BY <1>2 DEF bounds
  <2> QED BY <1>1, <1>2, <2>1, <2>2, PutMInv
<1>3. CASE Fail /\ UNCHANGED <<records, log, blemished>>
  <2>1. UNCHANGED <<records, tables, log, stream, calls, others>> /\ blemished' \in BOOLEAN
    BY <1>1, <1>3 DEF Fail, Types
  <2> QED BY <1>1, <1>3, <2>1, QuietStep
<1> QED BY <1>1, <1>2, <1>3 DEF rollbackRecord

(* Another client writes a new record, or one that is there. *)
LEMMA OtherClientMInv ==
  ASSUME MInv, coll # "profile", NEW k \in Rkey, NEW b \in Contents \cup {None},
         OtherClient(k, b),
         k = NextRkey \/ records[k] # None
  PROVE  MInv'
<1> USE KeyedParts
<1>1. /\ others < MaxOthers /\ others' = others + 1
      /\ Commit(k, b) /\ blemished' = (blemished \/ Twin(k, b) \/ Unheard)
      /\ UNCHANGED <<coll, rows, seq, pos, saved, pc, job, calls>>
  BY DEF OtherClient, Blemish, tables, stream
<1>2. /\ calls \in 0..MaxCalls /\ others \in 0..MaxOthers /\ MaxCalls \in Nat /\ MaxOthers \in Nat
  BY RecordsAssumption DEF Types
<1>3. /\ NextRkey \in Nat /\ NextRkey' = NextRkey + 1 /\ others' \in 0..MaxOthers
  BY <1>1, <1>2 DEF NextRkey
<1>4. k \in Nat
  BY RkeyNat
<1>5. records[k] # None \/ ~Used(k)
  BY <1>3, <1>4 DEF KeysOK
<1>6. /\ LogOK'
      /\ Len(log') \in Nat /\ Len(log) <= Len(log') /\ Len(log) \in Nat
      /\ \A q : Told(q) => Told(q)'
      /\ \A q \in Rkey : q # k => (Used(q)' => Used(q))
  BY <1>1, <1>5, CommitShared, CommitLog
<1>7. /\ Unheard' = Unheard /\ Unique' = Unique /\ Contents' = Contents
      /\ \A op : RowFirst(op)' = RowFirst(op)
  BY <1>1 DEF Unheard, Unique, RowFirst, Contents
<1>8. Types'
  <2>1. records' \in [Rkey -> Contents \cup {None}] /\ log' \in Seq(LogType)
    BY <1>1, CommitLog
  <2>2. pos' \in 1..(Len(log') + 1) /\ saved' \in 1..(Len(log') + 1)
    BY <1>1, <1>6 DEF Types
  <2> QED BY <1>1, <1>3, <1>7, <2>1, <2>2 DEF Types, LogType
<1>9. {} \in SUBSET Request /\ Others({})
  BY <1>1 DEF Others
<1>10. Jobs'
  <2>1. \A c \in Request \ {} : JobOK(c)'
    <3>1. NextRkey <= NextRkey' /\ NextRkey' \in Nat
      BY <1>3
    <3> QED BY <1>1, <1>3, <1>6, <1>9, <3>1, OthersOK
  <2> QED BY <2>1 DEF Jobs
<1>11. KeysOK'
  <2>1. k < NextRkey' /\ NextRkey <= NextRkey' /\ NextRkey' \in Nat
    <3>1. records[k] # None => k < NextRkey
      BY DEF KeysOK, Used
    <3> QED BY <1>3, <1>4, <3>1
  <2>2. \A c \in Request : Creating(c) => job[c].rkey # k
    <3>1. ASSUME NEW c \in Request, Creating(c), job[c].rkey = k PROVE FALSE
      <4>1. job[c].rkey < NextRkey
        BY <3>1 DEF Jobs, JobOK, Creating
      <4>2. records[k] # None
        BY <1>3, <1>4, <3>1, <4>1
      <4> QED BY <3>1, <4>2 DEF KeysOK, Used
    <3> QED BY <3>1
  <2> QED BY <1>3, <1>6, <1>9, <2>1, <2>2, KeysKept
<1>12. ASSUME ~blemished' PROVE Kept'
  <2>1. Kept /\ ~Twin(k, b) /\ ~Unheard /\ ~Unheard'
    BY <1>1, <1>7, <1>12
  <2> DEFINE M == {}
  <2>2. /\ M \in SUBSET Request /\ Others(M) /\ \A c \in M : pc[c] # "idle" /\ job[c].rkey = k
        /\ UNCHANGED <<coll, rows, pos>> /\ (b # None => records[k] # None \/ ~Used(k))
    BY <1>1, <1>5, <1>9
  <2>3. /\ \A q \in Rkey \ {k} : Mirrored(q)'
        /\ ~Unheard /\ (\A c \in M : Owes(c, k) => Target(c) = b) => Mirrored(k)'
        /\ (\A c \in M : pc[c] = "pds" /\ job[c].op = "delete" => b = None) => GoneOK'
        /\ (Unheard => \A c \in Request \ M : job[c].rkey = k /\ pc[c] = "row" =>
              b = Target(c)) => \A c \in Request \ M : Written(c)'
        /\ Unique' => LastLive'
    BY <1>1, <2>1, <2>2, CommitKept
  <2>4. \A q \in Rkey : Mirrored(q)'
    BY <2>1, <2>3
  <2> QED BY <2>1, <2>3, <2>4 DEF Kept
<1> QED BY <1>1, <1>6, <1>8, <1>10, <1>11, <1>12, KeyedNext

----------------------------------------------------------------------------
(***************************************************************************)
(* The statements of the handlers on the row.                              *)
(***************************************************************************)

(* What a statement leaves of another key still mirrors its record. *)
LEMMA MirroredElsewhere ==
  ASSUME NEW a \in Request, NEW q, Mirrored(q), job[a].rkey # q, Others({a}),
         UNCHANGED <<coll, records, log, pos>>,
         \A x : Shows(q, x) => Shows(q, x)'
  PROVE  Mirrored(q)'
<1>1. /\ Unheard' = Unheard /\ \A op : RowFirst(op)' = RowFirst(op)
      /\ Unread(q) => Unread(q)'
  BY DEF Unheard, RowFirst, Unread
<1>2. ASSUME NEW c \in Request, Owes(c, q) PROVE Owes(c, q)'
  <2>1. c # a
    BY <1>2 DEF Owes
  <2>2. pc'[c] = pc[c] /\ job'[c] = job[c] /\ Target(c)' = Target(c)
    BY <2>1 DEF Others, Target
  <2> QED BY <1>1, <1>2, <2>2 DEF Owes
<1>3. Shows(q, records[q]) => Shows(q, records[q])'
  OBVIOUS
<1> QED BY <1>1, <1>2, <1>3 DEF Mirrored

(* A handler that no later event has overtaken writes what the record is. *)
LEMMA WritesRecord ==
  ASSUME MInv, coll # "profile", Kept, NEW a \in Request, pc[a] = "row",
         ~RowFirst(job[a].op), ~Overtaken(a), ~Unread(job[a].rkey)
  PROVE  records[job[a].rkey] = Target(a)
<1> USE KeyedParts
<1>1. /\ \/ records[job[a].rkey] = Target(a)
         \/ \E i \in (job[a].at + 1)..Len(log) : log[i].rkey = job[a].rkey
      /\ JobOK(a)
  BY DEF Kept, Written, Jobs
<1>2. job[a].at \in 0..Len(log) /\ (~Unheard => job[a].at > 0)
  BY <1>1 DEF JobOK
<1>3. Len(log) \in Nat /\ pos \in 1..(Len(log) + 1)
  BY DEF Types
<1>4. ASSUME NEW i \in (job[a].at + 1)..Len(log), log[i].rkey = job[a].rkey PROVE FALSE
  <2>1. ~Unheard
    BY <1>2, <1>4 DEF LogOK
  <2>2. ~(job[a].at < pos - 1)
    BY <1>2, <2>1 DEF Overtaken
  <2>3. i \in pos..Len(log)
    BY <1>2, <1>3, <2>2
  <2> QED BY <1>4, <2>3 DEF Unread
<1> QED BY <1>1, <1>4

(* A row that a handler writes has the key of its request. *)
LEMMA RowWriteRows ==
  ASSUME MInv, coll # "profile", NEW a \in Request, RowWrite(a)
  PROVE  /\ rows' \subseteq RowType /\ seq' \in Nat /\ coll' = coll
         /\ \A r \in rows' : r.rkey = job[a].rkey \/ \E o \in rows : o.rkey = r.rkey
<1> USE KeyedParts
<1> DEFINE k == job[a].rkey
<1>1. pc[a] = "row" /\ JobOK(a) /\ seq \in Nat /\ rows \subseteq RowType
  BY DEF RowWrite, Jobs, Types, RowType
<1>2. k \in Rkey /\ job[a].body \in Contents
  BY <1>1 DEF JobOK
<1>3. CASE PutRow(k, job[a].body)
  <2>1. CASE Unique
    <3>1. NewRow(k, Subject, 0).rkey = k
      BY DEF NewRow
    <3> QED BY <1>1, <1>2, <1>3, <2>1, <3>1, PutUnique
  <2>2. CASE ~Unique
    <3>1. Body3
      BY <2>2, Classes
    <3>2. rows' \subseteq RowType /\ seq' \in Nat /\ coll' = coll /\ Elsewhere(k)
      BY <1>2, <1>3, <3>1, PutBody
    <3> QED BY <3>2 DEF Elsewhere
  <2> QED BY <2>1, <2>2
<1>4. CASE DeleteRow(k)
  BY <1>1, <1>2, <1>4, DeleteRowShows
<1>5. CASE ByContent /\ DeleteByContent(job[a].body)
  BY <1>1, <1>2, <1>5, DeleteContent DEF ByContent, Unique
<1> QED BY <1>3, <1>4, <1>5 DEF RowWrite

(* No row is marked but a comment's. *)
LEMMA GoneComment ==
  ASSUME Kept, coll # "comment", NEW r \in rows PROVE ~r.gone
BY DEF Kept, GoneOK

(* A handler that writes the row of a string, issue or comment. *)
LEMMA RowWriteBody ==
  ASSUME MInv, Body3, Kept, NEW a \in Request, RowWrite(a), ~Overtaken(a),
         NEW k, k = job[a].rkey, NEW b, b = job[a].body, NEW x, x = Target(a)
  PROVE  (\A q \in Rkey : Mirrored(q)') /\ GoneOK'
<1> USE KeyedParts
<1>0. coll # "profile" /\ ~Unique /\ ~Unheard /\ ~ByContent /\ coll # "key"
  BY DEF Body3, Unique, Unheard, ByContent
<1>1. /\ pc[a] = "row" /\ JobOK(a) /\ UNCHANGED <<records, log, pos>>
      /\ Goto(a, IF RowFirst(job[a].op) /\ coll # "string" THEN "pds" ELSE "idle")
      /\ IF job[a].op # "delete" THEN PutRow(k, b) ELSE DeleteRow(k)
  BY <1>0 DEF RowWrite, Jobs, stream
<1>2. /\ k \in Rkey /\ b \in Contents /\ job[a].op \in {"create", "edit", "delete"}
      /\ b # None
  BY <1>0, <1>1, Classes DEF JobOK
<1>3. coll' = coll /\ rows' \subseteq RowType /\ rows \subseteq RowType
  BY <1>0, RowWriteRows DEF Types, RowType
<1>4. /\ Others({a})
      /\ pc'[a] = IF RowFirst(job[a].op) /\ coll # "string" THEN "pds" ELSE "idle"
      /\ pc'[a] = "pds" => job'[a] = job[a]
  <2>1. CASE RowFirst(job[a].op) /\ coll # "string"
    <3>1. Goto(a, "pds")
      BY <1>1, <2>1
    <3> QED BY <1>0, <2>1, <3>1, GotoMoves DEF Places
  <2>2. CASE ~(RowFirst(job[a].op) /\ coll # "string")
    <3>1. Goto(a, "idle")
      BY <1>1, <2>2
    <3> QED BY <1>0, <2>2, <3>1, GotoMoves DEF Places
  <2> QED BY <2>1, <2>2
<1>5. Elsewhere(k)
  BY <1>0, <1>1, <1>2, PutBody, DeleteRowShows
<1>6. /\ Unheard' = Unheard /\ \A op : RowFirst(op)' = RowFirst(op)
      /\ \A q : Unread(q) <=> Unread(q)'
  BY <1>1, <1>3 DEF Unheard, RowFirst, Unread
<1>7. job[a].op = "delete" =>
        Shows(k, None)' /\ (coll # "comment" => \A r \in rows' : r.rkey # k)
  BY <1>0, <1>1, <1>2, DeleteRowShows DEF Shows
<1>8. ASSUME job[a].op # "delete"
      PROVE  \/ Shows(k, b)'
             \/ /\ coll = "comment" /\ Shows(k, None)'
                /\ \/ records[k] = None
                   \/ \E c \in Request \ {a} : pc[c] = "pds" /\ job[c].op = "delete" /\ job[c].rkey = k
  <2>1. /\ \E r \in rows' : r.rkey = k
        /\ \A r \in rows' : r.rkey = k =>
             r.body = b /\ (r.gone => \E o \in rows : o.rkey = k /\ o.gone)
        /\ (\E r \in rows : r.rkey = k) /\ Shows(k, None) => Shows(k, None)'
    BY <1>0, <1>1, <1>2, <1>8, PutBody
  <2>2. CASE \A r \in rows' : r.rkey = k => ~r.gone
    BY <1>2, <2>1, <2>2 DEF Shows
  <2>3. CASE \E o \in rows : o.rkey = k /\ o.gone
    <3> PICK o \in rows : o.rkey = k /\ o.gone
      BY <2>3
    <3>1. /\ coll = "comment" /\ Shows(k, None)
          /\ \/ records[k] = None
             \/ \E c \in Request : pc[c] = "pds" /\ job[c].op = "delete" /\ job[c].rkey = k
      BY DEF Kept, GoneOK
    <3> QED BY <1>1, <2>1, <3>1
  <2> QED BY <2>1, <2>2, <2>3
<1>9. \A c \in Request \ {a} : pc'[c] = pc[c] /\ job'[c] = job[c] /\ Target(c)' = Target(c)
  BY <1>4 DEF Others, Target
<1>10. ASSUME NEW q \in Rkey, q # k PROVE Mirrored(q)'
  <2>1. \A y : Shows(q, y) => Shows(q, y)'
    BY <1>3, <1>5, <1>10, ShowsElsewhere
  <2>2. Mirrored(q)
    BY DEF Kept
  <2> QED BY <1>1, <1>3, <1>4, <1>10, <2>1, <2>2, MirroredElsewhere
<1>11. Mirrored(k)'
  <2>1. CASE Unread(k)
    BY <1>6, <2>1 DEF Mirrored
  <2>2. CASE Shows(k, x)' /\ RowFirst(job[a].op) /\ coll # "string"
    <3>1. pc'[a] = "pds" /\ job'[a] = job[a] /\ Target(a)' = x
      BY <1>4, <2>2 DEF Target
    <3>2. Owes(a, k)'
      BY <1>6, <2>2, <3>1 DEF Owes
    <3> QED BY <3>2 DEF Mirrored
  <2>3. CASE Shows(k, x)' /\ ~Unread(k) /\ ~RowFirst(job[a].op)
    <3>1. records[k] = x
      BY <1>0, <1>1, <2>3, WritesRecord
    <3> QED BY <1>1, <2>3, <3>1 DEF Mirrored
  <2>4. CASE coll = "string" /\ RowFirst(job[a].op)
    <3>1. job[a].op = "delete"
      BY <2>4 DEF RowFirst
    <3>2. \A y : Shows(k, y)'
      BY <1>3, <1>7, <2>4, <3>1 DEF Shows
    <3> QED BY <3>2 DEF Mirrored
  <2>5. CASE ~ Shows(k, x)'
    <3>1. job[a].op # "delete"
      BY <1>7, <2>5 DEF Target
    <3>2. /\ coll = "comment" /\ Shows(k, None)'
          /\ \/ records[k] = None
             \/ \E c \in Request \ {a} : pc[c] = "pds" /\ job[c].op = "delete" /\ job[c].rkey = k
      BY <1>8, <2>5, <3>1 DEF Target
    <3>3. CASE records[k] = None
      BY <1>1, <3>2, <3>3 DEF Mirrored
    <3>4. ASSUME NEW c \in Request \ {a}, pc[c] = "pds", job[c].op = "delete", job[c].rkey = k
          PROVE  Mirrored(k)'
      <4>1. Target(c)' = None /\ RowFirst(job[c].op)'
        BY <1>3, <1>9, <3>2, <3>4 DEF Target, RowFirst
      <4>2. Owes(c, k)'
        BY <1>9, <3>2, <3>4, <4>1 DEF Owes
      <4> QED BY <4>2 DEF Mirrored
    <3> QED BY <3>2, <3>3, <3>4
  <2> QED BY <2>1, <2>2, <2>3, <2>4, <2>5
<1>12. GoneOK'
  <2> SUFFICES ASSUME NEW r \in rows', r.gone
               PROVE  /\ coll = "comment" /\ Shows(r.rkey, None)'
                      /\ \/ records[r.rkey] = None
                         \/ \E c \in Request : pc'[c] = "pds" /\ job'[c].op = "delete" /\ job'[c].rkey = r.rkey
    BY <1>1, <1>3 DEF GoneOK
  <2>1. CASE r.rkey # k
    <3>1. r \in rows
      BY <1>5, <2>1 DEF Elsewhere
    <3>2. /\ coll = "comment" /\ Shows(r.rkey, None)
          /\ \/ records[r.rkey] = None
             \/ \E c \in Request : pc[c] = "pds" /\ job[c].op = "delete" /\ job[c].rkey = r.rkey
      BY <3>1 DEF Kept, GoneOK
    <3>3. Shows(r.rkey, None)'
      BY <1>3, <1>5, <2>1, <3>2, ShowsElsewhere
    <3> QED BY <1>1, <1>9, <3>2, <3>3
  <2>2. CASE r.rkey = k /\ job[a].op = "delete"
    <3>1. coll = "comment" /\ Shows(k, None)'
      BY <1>7, <2>2
    <3>2. pc'[a] = "pds" /\ job'[a] = job[a]
      BY <1>4, <2>2, <3>1 DEF RowFirst
    <3> QED BY <2>2, <3>1, <3>2
  <2>3. CASE r.rkey = k /\ job[a].op # "delete"
    <3>1. ~ Shows(k, b)'
      BY <1>2, <2>3 DEF Shows
    <3> QED BY <1>8, <1>9, <2>3, <3>1
  <2> QED BY <2>1, <2>2, <2>3
<1> QED BY <1>10, <1>11, <1>12

(* The rows of a collection that is unique by content. *)
LEMMA UniqueRows ==
  ASSUME MInv, Unique, Kept
  PROVE  /\ coll \notin {"profile", "comment", "string"} /\ Contents = {Subject} /\ Subject # None
         /\ \A r \in rows : r.body = Subject /\ ~r.gone /\ r.rkey \in Rkey
         /\ \A q : Shows(q, None) <=> \A r \in rows : r.rkey # q
         /\ \A q : Shows(q, Subject) <=> \E r \in rows : r.rkey = q
<1>1. /\ coll \notin {"profile", "comment", "string"} /\ Types
      /\ Contents = {Subject} /\ Subject # None
  BY Classes, RecordsAssumption DEF Unique, MInv
<1>2. rows \subseteq RowType
  BY <1>1 DEF Types, RowType
<1>3. \A r \in rows : r.body = Subject /\ ~r.gone /\ r.rkey \in Rkey
  BY <1>1, <1>2, RowFields, GoneComment
<1> QED BY <1>1, <1>3 DEF Shows

(* When only the last event is unread, or none, a row is that of the live  *)
(* record.                                                                 *)
LEMMA RowIsOwn ==
  ASSUME MInv, Unique, Kept, ~Unheard,
         NEW k \in Rkey, records[k] # None, Len(log) <= pos, NEW r \in rows
  PROVE  r.rkey = k
<1>1. /\ Types /\ LogOK /\ LastLive /\ coll # "profile"
      /\ Len(log) \in Nat /\ pos \in 1..(Len(log) + 1)
  BY UniqueRows, KeyedParts DEF Kept, Types
<1> SUFFICES ASSUME NEW q \in Rkey, q = r.rkey, q # k PROVE FALSE
  BY UniqueRows
<1>2. records[q] = None /\ log[Len(log)].rkey = k
  BY <1>1 DEF LastLive
<1>3. ~Unread(q)
  <2>1. \A i \in pos..Len(log) : i = Len(log)
    BY <1>1
  <2> QED BY <1>2, <2>1 DEF Unread
<1>4. ~Shows(q, None)
  BY UniqueRows
<1>5. ASSUME NEW c \in Request, Owes(c, q) PROVE FALSE
  <2>1. job[c].op = "delete" /\ Shows(q, Target(c))
    BY <1>5, UniqueRows DEF Owes, RowFirst
  <2> QED BY <1>4, <2>1 DEF Target
<1> QED BY <1>2, <1>3, <1>4, <1>5 DEF Kept, Mirrored

(* The event of a live record is the last one.                             *)
LEMMA LiveIsLast ==
  ASSUME MInv, Unique, Kept, ~Unheard, NEW k \in Rkey, records[k] # None
  PROVE  /\ Len(log) \in 1..Len(log) /\ log[Len(log)].rkey = k
         /\ \A i \in 1..Len(log) : log[i].rkey = k => i = Len(log)
<1>1. Types /\ LogOK /\ LastLive /\ coll # "profile" /\ Len(log) \in Nat
  BY UniqueRows, KeyedParts DEF Kept, Types
<1>2. Len(log) \in 1..Len(log)
  <2>1. Told(k)
    BY <1>1 DEF LogOK
  <2> QED BY <1>1, <2>1 DEF Told
<1>3. ASSUME NEW i \in 1..Len(log), log[i].rkey = k PROVE i = Len(log)
  <2>1. i \notin 1..(Len(log) - 1)
    BY <1>1, <1>3 DEF LastLive
  <2> QED BY <1>1, <2>1
<1> QED BY <1>1, <1>2, <1>3 DEF LastLive

(* A handler that writes the row of a star, follow, artifact, key or       *)
(* reaction.                                                               *)
LEMMA RowWriteUnique ==
  ASSUME MInv, Unique, Kept, NEW a \in Request, RowWrite(a), ~Overtaken(a), ~Displaced(a),
         NEW k, k = job[a].rkey
  PROVE  (\A q \in Rkey : Mirrored(q)') /\ GoneOK'
<1> USE KeyedParts
<1>0. /\ coll \notin {"profile", "comment", "string"} /\ Contents = {Subject} /\ Subject # None
      /\ \A r \in rows : r.body = Subject /\ ~r.gone /\ r.rkey \in Rkey
  BY UniqueRows
<1>1. /\ pc[a] = "row" /\ JobOK(a) /\ UNCHANGED <<records, log, pos>>
      /\ Goto(a, IF RowFirst(job[a].op) /\ coll # "string" THEN "pds" ELSE "idle")
  BY <1>0 DEF RowWrite, Jobs, stream
<1>2. k \in Rkey /\ job[a].body = Subject /\ job[a].op \in {"create", "delete"}
  BY <1>0, <1>1 DEF JobOK
<1>3. coll' = coll /\ rows' \subseteq RowType /\ rows \subseteq RowType
  BY <1>0, RowWriteRows DEF Types, RowType
<1>4. /\ Others({a})
      /\ RowFirst(job[a].op) => pc'[a] = "pds" /\ job'[a] = job[a]
  <2>1. CASE RowFirst(job[a].op)
    <3>1. Goto(a, "pds")
      BY <1>0, <1>1, <2>1
    <3> QED BY <1>0, <2>1, <3>1, GotoMoves DEF Places
  <2>2. CASE ~RowFirst(job[a].op)
    <3>1. Goto(a, "idle")
      BY <1>1, <2>2
    <3> QED BY <1>0, <2>2, <3>1, GotoMoves DEF Places
  <2> QED BY <2>1, <2>2
<1>6. /\ \A op : RowFirst(op)' = RowFirst(op)
      /\ \A q : Unread(q) <=> Unread(q)'
  BY <1>1, <1>3 DEF RowFirst, Unread
<1>7. ASSUME Elsewhere(k), NEW q \in Rkey, q # k PROVE Mirrored(q)'
  <2>1. \A y : Shows(q, y) => Shows(q, y)'
    BY <1>3, <1>7, ShowsElsewhere
  <2>2. Mirrored(q)
    BY DEF Kept
  <2> QED BY <1>1, <1>3, <1>4, <1>7, <2>1, <2>2, MirroredElsewhere
<1>8. ASSUME \A r \in rows' : ~r.gone PROVE GoneOK'
  BY <1>8 DEF GoneOK
<1>9. CASE job[a].op = "create"
  <2>1. PutRow(k, Subject)
    BY <1>1, <1>2, <1>9 DEF RowWrite
  <2>2. \/ rows = {} /\ rows' = {NewRow(k, Subject, 0)}
        \/ rows # {} /\ rows' = rows
    BY <1>0, <1>2, <2>1, PutUnique
  <2>3. NewRow(k, Subject, 0).rkey = k /\ NewRow(k, Subject, 0).body = Subject
        /\ ~NewRow(k, Subject, 0).gone
    BY DEF NewRow
  <2>4. Elsewhere(k)
    BY <2>2, <2>3 DEF Elsewhere
  <2>5. \A r \in rows' : r.body = Subject /\ ~r.gone
    BY <1>0, <2>2, <2>3
  <2>6. Mirrored(k)'
    <3>1. CASE Unread(k)
      BY <1>6, <3>1 DEF Mirrored
    <3>2. CASE ~Unread(k)
      <4>1. records[k] = Subject
        BY <1>0, <1>1, <1>2, <1>9, <3>2, WritesRecord DEF RowFirst, Target
      <4>2. \A r \in rows : r.rkey = k
        <5>1. CASE Unheard
          BY <1>0, <1>2, <1>9, <5>1 DEF Displaced
        <5>2. CASE ~Unheard
          <6>1. Len(log) \in 1..Len(log) /\ log[Len(log)].rkey = k
            BY <1>0, <1>2, <4>1, <5>2, LiveIsLast
          <6>2. Len(log) <= pos
            BY <3>2, <6>1, <1>0 DEF Unread, Types
          <6> QED BY <1>0, <1>2, <4>1, <5>2, <6>2, RowIsOwn
        <5> QED BY <5>1, <5>2
      <4>3. \E r \in rows' : r.rkey = k
        BY <2>2, <2>3, <4>2
      <4>4. Shows(k, Subject)'
        BY <1>0, <2>5, <4>3 DEF Shows
      <4> QED BY <1>1, <4>1, <4>4 DEF Mirrored
    <3> QED BY <3>1, <3>2
  <2> QED BY <1>7, <1>8, <2>4, <2>5, <2>6
<1>10. CASE job[a].op = "delete" /\ ByContent
  <2>1. DeleteByContent(Subject)
    BY <1>1, <1>2, <1>10 DEF RowWrite
  <2>2. rows' = {}
    BY <1>0, <2>1, DeleteContent
  <2>3. \A q : Shows(q, None)'
    BY <2>2 DEF Shows
  <2>4. Mirrored(k)'
    <3>1. CASE Unread(k)
      BY <1>6, <3>1 DEF Mirrored
    <3>2. CASE RowFirst(job[a].op)
      <4>1. Owes(a, k)'
        BY <1>4, <1>6, <1>10, <2>3, <3>2 DEF Owes, Target
      <4> QED BY <4>1 DEF Mirrored
    <3>3. CASE ~Unread(k) /\ ~RowFirst(job[a].op)
      <4>1. records[k] = None
        BY <1>0, <1>1, <1>10, <3>3, WritesRecord DEF Target
      <4> QED BY <1>1, <2>3, <4>1 DEF Mirrored
    <3> QED BY <3>1, <3>2, <3>3
  <2>5. ASSUME NEW q \in Rkey, q # k PROVE Mirrored(q)'
    <3>1. CASE \E r \in rows : r.rkey = q
      <4>1. records[q] = None
        BY <1>0, <1>2, <1>10, <2>5, <3>1 DEF Displaced
      <4> QED BY <1>1, <2>3, <4>1 DEF Mirrored
    <3>2. CASE \A r \in rows : r.rkey # q
      <4>1. \A y : Shows(q, y) => Shows(q, y)'
        BY <1>0, <2>3, <3>2 DEF Shows
      <4>2. Mirrored(q)
        BY DEF Kept
      <4> QED BY <1>1, <1>3, <1>4, <2>5, <4>1, <4>2, MirroredElsewhere
    <3> QED BY <3>1, <3>2
  <2> QED BY <1>8, <2>2, <2>4, <2>5
<1>11. CASE job[a].op = "delete" /\ ~ByContent
  <2>1. DeleteRow(k)
    BY <1>1, <1>11 DEF RowWrite
  <2>2. Elsewhere(k) /\ \A r \in rows' : r.rkey # k
    BY <1>0, <1>2, <2>1, DeleteRowShows
  <2>3. Shows(k, None)' /\ \A r \in rows' : ~r.gone
    BY <1>0, <2>2 DEF Shows, Elsewhere
  <2>4. Mirrored(k)'
    <3>1. CASE Unread(k)
      BY <1>6, <3>1 DEF Mirrored
    <3>2. CASE ~Unread(k)
      <4>1. ~RowFirst(job[a].op)
        BY <1>0, <1>11 DEF RowFirst, ByContent
      <4>2. records[k] = None
        BY <1>0, <1>1, <1>11, <3>2, <4>1, WritesRecord DEF Target
      <4> QED BY <1>1, <2>3, <4>2 DEF Mirrored
    <3> QED BY <3>1, <3>2
  <2> QED BY <1>7, <1>8, <2>2, <2>3, <2>4
<1> QED BY <1>2, <1>9, <1>10, <1>11

(* A handler writes its row: the mirror is kept unless a later event has   *)
(* overtaken it or its statement hits the row of another record.           *)
LEMMA RowWriteMInv ==
  ASSUME MInv, coll # "profile", NEW a \in Request, RowWrite(a), NEW k, k = job[a].rkey
  PROVE  MInv'
<1> USE KeyedParts
<1>1. /\ pc[a] = "row" /\ JobOK(a)
      /\ UNCHANGED <<records, log, pos, saved, calls, others>>
      /\ Goto(a, IF RowFirst(job[a].op) /\ coll # "string" THEN "pds" ELSE "idle")
      /\ blemished' = (blemished \/ Overtaken(a) \/ Displaced(a))
  BY DEF RowWrite, Jobs, stream, bounds, Blemish
<1>2. k \in Rkey
  BY <1>1 DEF JobOK
<1>3. /\ coll' = coll /\ rows' \subseteq RowType /\ seq' \in Nat
      /\ \A r \in rows' : r.rkey = k \/ \E o \in rows : o.rkey = r.rkey
  BY RowWriteRows
<1>4. /\ Others({a}) /\ pc' \in [Request -> Places] /\ DOMAIN job' = Request
      /\ \/ pc'[a] = "idle"
         \/ pc'[a] = "pds" /\ job'[a] = job[a] /\ RowFirst(job[a].op)
  <2>1. CASE RowFirst(job[a].op) /\ coll # "string"
    <3>1. Goto(a, "pds")
      BY <1>1, <2>1
    <3> QED BY <2>1, <3>1, GotoMoves DEF Places
  <2>2. CASE ~(RowFirst(job[a].op) /\ coll # "string")
    <3>1. Goto(a, "idle")
      BY <1>1, <2>2
    <3> QED BY <2>2, <3>1, GotoMoves DEF Places
  <2> QED BY <2>1, <2>2
<1>5. /\ Unheard' = Unheard /\ Unique' = Unique /\ Contents' = Contents /\ NextRkey' = NextRkey
      /\ \A op : RowFirst(op)' = RowFirst(op)
      /\ \A q : Told(q)' <=> Told(q)
  BY <1>1, <1>3 DEF Unheard, Unique, RowFirst, Contents, NextRkey, Told
<1>6. Types'
  BY <1>1, <1>3, <1>4, <1>5 DEF Types, Places, RowType
<1>7. ~Unheard => Told(k)
  BY <1>1 DEF JobOK, Creating
<1>8. LogOK'
  <2>1. ~Unheard => \A r \in rows' : Told(r.rkey)
    BY <1>3, <1>7 DEF LogOK
  <2> QED BY <1>1, <1>5, <2>1 DEF LogOK
<1>9. JobOK(a)'
  <2>1. CASE pc'[a] = "idle"
    BY <2>1 DEF JobOK
  <2>2. CASE pc'[a] = "pds" /\ job'[a] = job[a] /\ RowFirst(job[a].op)
    <3>1. ~Creating(a)' /\ ~Creating(a)
      BY <1>1, <2>2 DEF Creating, RowFirst
    <3> QED BY <1>1, <1>5, <2>2, <3>1 DEF JobOK
  <2> QED BY <1>4, <2>1, <2>2
<1>10. Jobs'
  <2>1. Len(log') \in Nat /\ Len(log) <= Len(log') /\ (pc'[a] # "idle" => job'[a].rkey = job[a].rkey)
    BY <1>1, <1>4 DEF Types
  <2> QED BY <1>1, <1>3, <1>4, <1>5, <1>9, <2>1, StepJobs
<1>11. KeysOK'
  <2>1. \A q : q # k => (Used(q)' => Used(q))
    BY <1>1, <1>3, RowsUsed
  <2>2. ~(pc'[a] = "pds" /\ job'[a].op = "create")
    BY <1>4 DEF RowFirst
  <2> QED BY <1>1, <1>4, <2>1, <2>2, StepKeys
<1>12. ASSUME ~blemished' PROVE Kept'
  <2>1. Kept /\ ~Overtaken(a) /\ ~Displaced(a)
    BY <1>1, <1>12
  <2>2. (\A q \in Rkey : Mirrored(q)') /\ GoneOK'
    <3>1. CASE Unique
      BY <2>1, <3>1, RowWriteUnique
    <3>2. CASE ~Unique
      <4>1. Body3
        BY <3>2, Classes
      <4> QED BY <2>1, <4>1, RowWriteBody
    <3> QED BY <3>1, <3>2
  <2>3. ASSUME NEW c \in Request PROVE Written(c)'
    <3>1. CASE c = a
      BY <1>4, <3>1 DEF Written
    <3>2. CASE c # a
      <4>1. pc'[c] = pc[c] /\ job'[c] = job[c] /\ Target(c)' = Target(c) /\ Written(c)
        BY <1>4, <2>1, <3>2 DEF Others, Target, Kept
      <4> QED BY <1>1, <1>5, <4>1 DEF Written
    <3> QED BY <3>1, <3>2
  <2>4. Unique' => LastLive'
    BY <1>1, <1>5, <2>1 DEF Kept, LastLive
  <2>5. ASSUME Unheard', NEW c \in Request PROVE Inserting(c)'
    <3> SUFFICES ASSUME pc'[c] = "row", job'[c].op = "create"
                 PROVE  Only(c)' /\ \A r \in rows' : r.rkey # job'[c].rkey
      BY DEF Inserting
    <3>1. c # a /\ pc[c] = "row" /\ job'[c] = job[c] /\ Inserting(c)
      BY <1>4, <1>5, <2>1, <2>5 DEF Others, Kept
    <3>2. Only(c) /\ \A r \in rows : r.rkey # job[c].rkey
      BY <3>1 DEF Inserting
    <3>3. ASSUME NEW d \in Request \ {c}, pc'[d] # "idle" PROVE job'[d].rkey # job'[c].rkey
      <4>1. pc[d] # "idle" /\ job'[d].rkey = job[d].rkey
        BY <1>1, <1>4, <3>3 DEF Others
      <4> QED BY <3>1, <3>2, <3>3, <4>1 DEF Only
    <3>4. \A r \in rows' : r.rkey # job'[c].rkey
      <4>1. k # job[c].rkey
        BY <1>1, <3>1, <3>2 DEF Only
      <4> QED BY <1>3, <3>1, <3>2, <4>1
    <3> QED BY <3>3, <3>4 DEF Only
  <2> QED BY <2>2, <2>3, <2>4, <2>5 DEF Kept
<1> QED BY <1>3, <1>6, <1>8, <1>10, <1>11, <1>12, KeyedNext

----------------------------------------------------------------------------
(***************************************************************************)
(* The ingester and the cursor.                                            *)
(***************************************************************************)

(* Reading the last event of a key makes its row what the record is.       *)
LEMMA IngestShows ==
  ASSUME MInv, coll # "profile", Kept, ~Unheard, pos <= Len(log), pos' = pos + 1,
         UNCHANGED <<records, log, pc, job>>,
         NEW k, k = log[pos].rkey, NEW b, b = log[pos].body,
         IF b = None THEN DeleteRow(k) ELSE PutRow(k, b)
  PROVE  (\A q \in Rkey : Mirrored(q)') /\ GoneOK'
<1> USE KeyedParts
<1>1. Len(log) \in Nat /\ pos \in 1..Len(log) /\ rows \subseteq RowType
  BY DEF Types, RowType
<1>2. k \in Rkey /\ b \in Contents \cup {None} /\ \A y \in Contents : y # None
  BY <1>1, LogFields, Classes
<1>3. (b = None => records[k] = None)
  BY <1>1 DEF LogOK
<1>4. coll' = coll
  BY <1>2, PutUnique, PutBody, DeleteRowShows, Classes
<1>5. /\ Unheard' = Unheard /\ \A op : RowFirst(op)' = RowFirst(op)
      /\ \A c \in Request : Target(c)' = Target(c)
  BY <1>4 DEF Unheard, RowFirst, Target
<1>6. \A q : q # k => (Unread(q) => Unread(q)')
  <2> SUFFICES ASSUME NEW q, q # k, NEW i \in pos..Len(log), log[i].rkey = q
               PROVE  \E n \in (pos + 1)..Len(log) : log[n].rkey = q
    BY DEF Unread
  <2>1. i \in (pos + 1)..Len(log)
    BY <1>1
  <2> QED BY <2>1
<1>7. ~Unread(k)' => records[k] = b
  <2> SUFFICES ASSUME ~Unread(k)' PROVE records[k] = b
    OBVIOUS
  <2>1. \A n \in (pos + 1)..Len(log) : log[n].rkey # k
    BY DEF Unread
  <2> QED BY <1>1, <2>1 DEF LogOK
<1>8. ASSUME Elsewhere(k), NEW q \in Rkey, q # k PROVE Mirrored(q)'
  <2>1. \A y : Shows(q, y) => Shows(q, y)'
    BY <1>4, <1>8, ShowsElsewhere
  <2>2. ASSUME NEW c \in Request, Owes(c, q) PROVE Owes(c, q)'
    BY <1>5, <2>1, <2>2 DEF Owes
  <2>3. Shows(q, records[q]) => Shows(q, records[q])'
    BY <2>1
  <2> QED BY <1>6, <1>8, <2>2, <2>3 DEF Kept, Mirrored
<1>9. ASSUME Elsewhere(k), NEW r \in rows', r.gone, r.rkey # k
       PROVE  /\ coll' = "comment" /\ Shows(r.rkey, None)'
              /\ \/ records'[r.rkey] = None
                 \/ \E c \in Request : pc'[c] = "pds" /\ job'[c].op = "delete" /\ job'[c].rkey = r.rkey
  <2>1. r \in rows
    BY <1>9 DEF Elsewhere
  <2>2. Shows(r.rkey, None) <=> Shows(r.rkey, None)'
    BY <1>4, <1>9, ShowsElsewhere
  <2> QED BY <1>4, <1>9, <2>1, <2>2 DEF Kept, GoneOK
<1>10. CASE b = None
  <2>1. /\ Elsewhere(k) /\ Shows(k, None)'
        /\ \A r \in rows' : r.rkey = k => coll = "comment" /\ r.gone
    BY <1>2, <1>10, DeleteRowShows DEF Shows
  <2>2. Mirrored(k)'
    BY <1>3, <1>10, <2>1 DEF Mirrored
  <2>3. GoneOK'
    BY <1>3, <1>4, <1>9, <1>10, <2>1 DEF GoneOK
  <2> QED BY <1>8, <2>1, <2>2, <2>3
<1>11. CASE b # None /\ Body3
  <2>1. /\ Elsewhere(k)
        /\ \E r \in rows' : r.rkey = k
        /\ \A r \in rows' : r.rkey = k =>
             r.body = b /\ (r.gone => \E o \in rows : o.rkey = k /\ o.gone)
        /\ (\E r \in rows : r.rkey = k) /\ Shows(k, None) => Shows(k, None)'
    BY <1>2, <1>11, PutBody
  <2>2. ASSUME NEW o \in rows, o.rkey = k, o.gone
        PROVE  /\ coll = "comment" /\ Shows(k, None)'
               /\ \/ records[k] = None
                  \/ \E c \in Request : pc[c] = "pds" /\ job[c].op = "delete" /\ job[c].rkey = k
    BY <2>1, <2>2 DEF Kept, GoneOK
  <2>3. Mirrored(k)'
    <3>1. CASE Unread(k)'
      BY <3>1 DEF Mirrored
    <3>2. CASE ~Unread(k)' /\ \A r \in rows' : r.rkey = k => ~r.gone
      <4>1. Shows(k, b)'
        BY <1>11, <2>1, <3>2 DEF Shows
      <4> QED BY <1>7, <3>2, <4>1 DEF Mirrored
    <3>3. ASSUME ~Unread(k)', NEW o \in rows, o.rkey = k, o.gone PROVE Mirrored(k)'
      <4>1. coll = "comment" /\ Shows(k, None)'
        BY <2>2, <3>3
      <4>2. PICK c \in Request : pc[c] = "pds" /\ job[c].op = "delete" /\ job[c].rkey = k
        BY <1>7, <1>11, <2>2, <3>3
      <4>3. Owes(c, k)'
        BY <1>4, <1>5, <4>1, <4>2 DEF Owes, Target, RowFirst
      <4> QED BY <4>3 DEF Mirrored
    <3> QED BY <2>1, <3>1, <3>2, <3>3
  <2>4. GoneOK'
    <3> SUFFICES ASSUME NEW r \in rows', r.gone
                 PROVE  /\ coll' = "comment" /\ Shows(r.rkey, None)'
                        /\ \/ records'[r.rkey] = None
                           \/ \E c \in Request : pc'[c] = "pds" /\ job'[c].op = "delete" /\ job'[c].rkey = r.rkey
      BY DEF GoneOK
    <3>1. CASE r.rkey # k
      BY <1>9, <2>1, <3>1
    <3>2. CASE r.rkey = k
      BY <1>4, <2>1, <2>2, <3>2
    <3> QED BY <3>1, <3>2
  <2> QED BY <1>8, <2>1, <2>3, <2>4
<1>12. CASE b # None /\ Unique
  <2>0. /\ coll \notin {"profile", "comment", "string"} /\ Contents = {Subject} /\ Subject # None
        /\ \A r \in rows : r.body = Subject /\ ~r.gone
    BY <1>12, UniqueRows
  <2>1. \/ rows = {} /\ rows' = {NewRow(k, Subject, 0)}
        \/ rows # {} /\ rows' = rows
    BY <1>2, <1>12, PutUnique
  <2>2. NewRow(k, Subject, 0).rkey = k /\ NewRow(k, Subject, 0).body = Subject
        /\ ~NewRow(k, Subject, 0).gone
    BY DEF NewRow
  <2>3. Elsewhere(k)
    BY <2>1, <2>2 DEF Elsewhere
  <2>4. \A r \in rows' : r.body = Subject /\ ~r.gone
    BY <2>0, <2>1, <2>2
  <2>5. Mirrored(k)'
    <3>1. CASE Unread(k)'
      BY <3>1 DEF Mirrored
    <3>2. CASE ~Unread(k)'
      <4>1. records[k] = Subject
        BY <1>2, <1>7, <1>12, <2>0, <3>2
      <4>2. pos = Len(log)
        BY <1>1, <1>2, <1>12, <2>0, <4>1, LiveIsLast
      <4>3. \A r \in rows : r.rkey = k
        BY <1>1, <1>2, <1>12, <2>0, <4>1, <4>2, RowIsOwn
      <4>4. \E r \in rows' : r.rkey = k
        BY <2>1, <2>2, <4>3
      <4>5. Shows(k, Subject)'
        BY <2>0, <2>4, <4>4 DEF Shows
      <4> QED BY <4>1, <4>5 DEF Mirrored
    <3> QED BY <3>1, <3>2
  <2>6. GoneOK'
    BY <2>4 DEF GoneOK
  <2> QED BY <1>8, <2>3, <2>5, <2>6
<1> QED BY <1>10, <1>11, <1>12, Classes

(* What the ingester does not store is skipped, and the mirror given up.   *)
LEMMA IngestMInv ==
  ASSUME MInv, coll # "profile", NEW c, Ingest(c),
         NEW k, k = log[pos].rkey, NEW b, b = log[pos].body
  PROVE  MInv'
<1> USE KeyedParts
<1>1. /\ pos <= Len(log) /\ pos' = pos + 1
      /\ UNCHANGED <<records, log, saved, pc, job, calls, others>>
      /\ \/ /\ IF b = None THEN DeleteRow(k) ELSE PutRow(k, b)
            /\ UNCHANGED blemished
         \/ blemished' = TRUE /\ UNCHANGED <<coll, rows, seq>>
  BY DEF Ingest, bounds, Fail, Blemish, tables
<1>2. /\ Len(log) \in Nat /\ pos \in 1..Len(log) /\ seq \in Nat /\ rows \subseteq RowType
  BY <1>1 DEF Types, RowType
<1>3. k \in Rkey /\ b \in Contents \cup {None} /\ ~Unheard /\ Told(k) /\ Used(k)
  BY <1>2, LogFields DEF LogOK, Told, Used
<1>4. /\ coll' = coll /\ rows' \subseteq RowType /\ seq' \in Nat
      /\ \A r \in rows' : r.rkey = k \/ \E o \in rows : o.rkey = r.rkey
  <2>1. CASE PutRow(k, b) /\ b # None
    <3>1. CASE Unique
      <4>1. NewRow(k, Subject, 0).rkey = k
        BY DEF NewRow
      <4> QED BY <1>2, <1>3, <2>1, <3>1, <4>1, PutUnique
    <3>2. CASE ~Unique
      <4>1. Body3
        BY <3>2, Classes
      <4>2. rows' \subseteq RowType /\ seq' \in Nat /\ coll' = coll /\ Elsewhere(k)
        BY <1>3, <2>1, <4>1, PutBody
      <4> QED BY <4>2 DEF Elsewhere
    <3> QED BY <3>1, <3>2
  <2>2. CASE DeleteRow(k)
    BY <1>2, <1>3, <2>2, DeleteRowShows
  <2>3. CASE UNCHANGED <<coll, rows, seq>>
    BY <1>2, <2>3
  <2> QED BY <1>1, <2>1, <2>2, <2>3
<1>5. /\ Unheard' = Unheard /\ Unique' = Unique /\ Contents' = Contents /\ NextRkey' = NextRkey
      /\ \A op : RowFirst(op)' = RowFirst(op)
      /\ \A q : Told(q)' <=> Told(q)
  BY <1>1, <1>4 DEF Unheard, Unique, RowFirst, Contents, NextRkey, Told
<1>6. Types'
  <2>1. pos' \in 1..(Len(log') + 1) /\ saved' \in 1..(Len(log') + 1)
    BY <1>1, <1>2 DEF Types
  <2>2. blemished' \in BOOLEAN /\ rows' \subseteq [rkey : Rkey, body : Contents, gone : BOOLEAN, number : Nat]
    BY <1>1, <1>4 DEF Types, RowType
  <2> QED BY <1>1, <1>4, <1>5, <2>1, <2>2 DEF Types
<1>7. LogOK'
  <2>1. \A r \in rows' : Told(r.rkey)
    BY <1>3, <1>4 DEF LogOK
  <2> QED BY <1>1, <1>3, <1>5, <2>1 DEF LogOK
<1>8. {} \in SUBSET Request /\ Others({})
  BY <1>1 DEF Others
<1>9. NextRkey \in Nat /\ NextRkey <= NextRkey' /\ NextRkey' \in Nat
  BY <1>5, RkeyNat
<1>10. Jobs'
  <2>1. Len(log') \in Nat /\ Len(log) <= Len(log')
    BY <1>1, <1>2
  <2>2. \A d \in Request \ {} : JobOK(d)'
    BY <1>4, <1>5, <1>8, <1>9, <2>1, OthersOK
  <2> QED BY <2>2 DEF Jobs
<1>11. KeysOK'
  <2>1. \A q : q # k => (Used(q)' => Used(q))
    BY <1>1, <1>4, RowsUsed
  <2>2. k < NextRkey'
    BY <1>3, <1>5 DEF KeysOK
  <2> QED BY <1>3, <1>8, <1>9, <2>1, <2>2, KeysKept
<1>12. ASSUME ~blemished' PROVE Kept'
  <2>1. Kept /\ IF b = None THEN DeleteRow(k) ELSE PutRow(k, b)
    BY <1>1, <1>12
  <2>2. (\A q \in Rkey : Mirrored(q)') /\ GoneOK'
    BY <1>1, <1>3, <2>1, IngestShows
  <2>3. ASSUME NEW d \in Request PROVE Written(d)'
    <3>1. Target(d)' = Target(d) /\ Written(d)
      BY <1>1, <2>1 DEF Target, Kept
    <3> QED BY <1>1, <1>5, <3>1 DEF Written
  <2>4. Unique' => LastLive'
    BY <1>1, <1>5, <2>1 DEF Kept, LastLive
  <2> QED BY <1>3, <1>5, <2>2, <2>3, <2>4 DEF Kept
<1> QED BY <1>4, <1>6, <1>7, <1>10, <1>11, <1>12, KeyedNext

(* A cursor that moves back makes events unread, and nothing else.         *)
LEMMA CursorKept ==
  ASSUME MInv, coll # "profile", Kept, UNCHANGED <<coll, rows, records, log, pc, job>>,
         pos' \in 1..(Len(log) + 1), pos' <= pos
  PROVE  Kept'
<1> USE KeyedParts
<1>1. /\ \A k, b : Shows(k, b)' <=> Shows(k, b)
      /\ Unheard' = Unheard /\ Unique' = Unique
      /\ \A op : RowFirst(op)' = RowFirst(op)
  BY SameLog
<1>2. \A a \in Request : Target(a)' = Target(a)
  BY DEF Target
<1>3. \A a \in Request : \A k : Owes(a, k) => Owes(a, k)'
  BY <1>1, <1>2 DEF Owes
<1>4. \A k : Unread(k) => Unread(k)'
  <2>1. \A i \in pos..Len(log) : i \in pos'..Len(log)
    BY DEF Types
  <2> QED BY <2>1 DEF Unread
<1>5. \A k \in Rkey : Mirrored(k)'
  <2> SUFFICES ASSUME NEW k \in Rkey PROVE Mirrored(k)'
    OBVIOUS
  <2>1. Shows(k, records[k]) => Shows(k, records[k])'
    BY <1>1
  <2> QED BY <1>3, <1>4, <2>1 DEF Kept, Mirrored
<1>6. GoneOK'
  BY <1>1 DEF Kept, GoneOK
<1>7. \A a \in Request : Written(a)'
  BY <1>1, <1>2 DEF Kept, Written
<1>8. Unique' => LastLive'
  BY <1>1 DEF Kept, LastLive
<1>9. Unheard' => \A a \in Request : Inserting(a)'
  BY <1>1 DEF Kept, Inserting, Only
<1> QED BY <1>5, <1>6, <1>7, <1>8, <1>9 DEF Kept

(* Steps of the cursor. *)
LEMMA CursorMInv ==
  ASSUME MInv, coll # "profile", UNCHANGED <<coll, rows, seq, records, log, pc, job, calls, others>>,
         saved' \in 1..(Len(log) + 1), pos' \in 1..(Len(log) + 1), blemished' \in BOOLEAN,
         ~blemished' => ~blemished /\ pos' <= pos
  PROVE  MInv'
<1> USE KeyedParts
<1>1. LogOK' /\ \A k : (Told(k)' <=> Told(k)) /\ (Used(k)' <=> Used(k))
  BY SameLog
<1>2. Types'
  BY DEF Types, Contents, Unique
<1>3. {} \in SUBSET Request /\ Others({})
  BY DEF Others
<1>4. NextRkey \in Nat /\ NextRkey <= NextRkey' /\ NextRkey' \in Nat
  BY RkeyNat DEF NextRkey
<1>5. Jobs'
  <2>1. Len(log') \in Nat /\ Len(log) <= Len(log')
    BY DEF Types
  <2>2. \A d \in Request \ {} : JobOK(d)'
    BY <1>1, <1>3, <1>4, <2>1, OthersOK
  <2> QED BY <2>2 DEF Jobs
<1>6. KeysOK'
  <2>1. NextRkey' = NextRkey /\ \A a \in Request : Creating(a)' <=> Creating(a)
    BY DEF NextRkey, Creating
  <2> QED BY <1>1, <2>1 DEF KeysOK
<1>7. ~blemished' => Kept'
  BY CursorKept
<1> QED BY <1>1, <1>2, <1>5, <1>6, <1>7, KeyedNext

(* A restart ends all requests: none that owed something was left.         *)
LEMMA RestartMInv ==
  ASSUME MInv, coll # "profile", NEW from \in 1..(Len(log) + 1), Restart(from) PROVE MInv'
<1> USE KeyedParts
<1>1. /\ UNCHANGED <<coll, rows, seq, records, log, calls, others>>
      /\ pos' = from /\ saved' = from
      /\ pc' = [a \in Request |-> "idle"] /\ job' = [a \in Request |-> Idle]
      /\ blemished' = (blemished \/ pos < from \/ Torn)
  BY DEF Restart, Fail, Blemish, tables
<1>2. /\ LogOK' /\ \A k : (Told(k)' <=> Told(k)) /\ (Used(k)' <=> Used(k))
      /\ \A k, b : Shows(k, b)' <=> Shows(k, b)
      /\ Unheard' = Unheard /\ Unique' = Unique
      /\ \A op : RowFirst(op)' = RowFirst(op)
  BY <1>1, SameLog
<1>3. \A a \in Request : pc'[a] = "idle"
  BY <1>1
<1>4. Types'
  BY <1>1 DEF Types, Contents, Unique
<1>5. Jobs'
  BY <1>3 DEF Jobs, JobOK
<1>6. KeysOK'
  <2>1. NextRkey' = NextRkey /\ \A a \in Request : ~Creating(a)'
    BY <1>1, <1>3 DEF NextRkey, Creating
  <2> QED BY <1>2, <2>1 DEF KeysOK
<1>7. ASSUME ~blemished' PROVE Kept'
  <2>0. ~blemished /\ ~(pos < from) /\ ~Torn
    BY <1>1, <1>7
  <2>1. Kept /\ ~Torn /\ from <= pos
    <3>1. pos \in Int /\ from \in Int
      BY DEF Types
    <3> QED BY <2>0, <3>1
  <2>2. \A a \in Request : \A k : ~Owes(a, k)
    BY <2>1 DEF Torn, Owes
  <2>3. \A k : Unread(k) => Unread(k)'
    <3>1. \A i \in pos..Len(log) : i \in from..Len(log)
      BY <2>1 DEF Types
    <3> QED BY <1>1, <3>1 DEF Unread
  <2>4. \A k \in Rkey : Mirrored(k)'
    <3> SUFFICES ASSUME NEW k \in Rkey PROVE Mirrored(k)'
      OBVIOUS
    <3>1. Shows(k, records[k]) => Shows(k, records[k])'
      BY <1>1, <1>2
    <3> QED BY <2>1, <2>2, <2>3, <3>1 DEF Kept, Mirrored
  <2>5. GoneOK'
    <3> SUFFICES ASSUME NEW r \in rows, r.gone
                 PROVE  coll = "comment" /\ Shows(r.rkey, None) /\ records[r.rkey] = None
      BY <1>1, <1>2 DEF GoneOK
    <3>1. coll = "comment" => RowFirst("delete")
      BY DEF RowFirst
    <3> QED BY <2>1, <3>1 DEF Kept, GoneOK, Torn
  <2>6. \A a \in Request : Written(a)'
    BY <1>3 DEF Written
  <2>7. Unique' => LastLive'
    BY <1>1, <1>2, <2>1 DEF Kept, LastLive
  <2>8. \A a \in Request : Inserting(a)'
    BY <1>3 DEF Inserting
  <2> QED BY <2>4, <2>5, <2>6, <2>7, <2>8 DEF Kept
<1> QED BY <1>1, <1>2, <1>4, <1>5, <1>6, <1>7, KeyedNext

----------------------------------------------------------------------------
(***************************************************************************)
(* The profile.                                                            *)
(***************************************************************************)
LEMMA ProfileParts ==
  ASSUME MInv, coll = "profile"
  PROVE  /\ Types /\ ProfileLog /\ ProfileRows /\ ProfileShown
         /\ \A a \in Request : ProfileJob(a)
         /\ Contents = Profile /\ None \notin Profile /\ ~Unique /\ ~Unheard
         /\ \A op : ~RowFirst(op)
         /\ Len(log) \in Nat /\ pos \in 1..(Len(log) + 1) /\ rows \subseteq RowType
<1>1. Types /\ ProfileInv
  BY DEF MInv
<1>2. /\ Contents = Profile /\ None \notin Profile /\ ~Unique /\ ~Unheard
      /\ \A op : ~RowFirst(op)
  BY <1>1, Classes DEF RowFirst
<1> QED BY <1>1, <1>2 DEF ProfileInv, Types, RowType

(* The invariant of the profile after a step. *)
LEMMA ProfileNext ==
  ASSUME coll = "profile", coll' = coll, Types', ProfileLog', ProfileRows', ProfileShown',
         \A a \in Request : ProfileJob(a)'
  PROVE  MInv'
BY DEF MInv, ProfileInv

(* What the events say of the record stays true when it changes.           *)
LEMMA ProfileCommit ==
  ASSUME MInv, coll = "profile", Self \in Rkey, NEW b \in Profile \cup {None}, Commit(Self, b),
         UNCHANGED <<coll, rows, seq, pos, saved>>, ~blemished' => ~blemished
  PROVE  /\ records' \in [Rkey -> Contents' \cup {None}]
         /\ log' \in Seq([rkey : Rkey, body : Contents' \cup {None}])
         /\ pos' \in 1..(Len(log') + 1) /\ saved' \in 1..(Len(log') + 1)
         /\ rows' \subseteq [rkey : Rkey, body : Contents', gone : BOOLEAN, number : Nat]
         /\ Len(log') \in Nat /\ Len(log) <= Len(log') /\ (b # None => Len(log') > 0)
         /\ ProfileLog' /\ ProfileRows' /\ ProfileShown'
<1> USE ProfileParts
<1>1. Contents' = Contents /\ b \in Contents \cup {None}
  BY DEF Contents, Unique
<1>2. /\ records' \in [Rkey -> Contents \cup {None}] /\ log' \in Seq(LogType)
      /\ records'[Self] = b /\ \A q \in Rkey : q # Self => records'[q] = records[q]
      /\ Len(log') \in Nat /\ Len(log) <= Len(log')
      /\ \A i \in 1..Len(log) : log'[i] = log[i]
  BY <1>1, CommitLog
<1>3. \/ records[Self] = b /\ records' = records /\ log' = log
      \/ /\ Len(log') = Len(log) + 1
         /\ log'[Len(log')].rkey = Self /\ log'[Len(log')].body = b
  BY <1>1, CommitLog
<1>4. b # None => Len(log') > 0
  BY <1>3 DEF ProfileLog
<1>5. ProfileLog'
  <2>1. \A k \in Rkey : records'[k] # None => k = Self /\ Len(log') > 0
    BY <1>2, <1>4 DEF ProfileLog
  <2>2. \A i \in 1..Len(log') : log'[i].rkey = Self
    <3>1. \A i \in 1..Len(log') : i \in 1..Len(log) \/ (i = Len(log') /\ Len(log') = Len(log) + 1)
      BY <1>2, <1>3
    <3> QED BY <1>2, <1>3, <3>1 DEF ProfileLog
  <2>3. Len(log') > 0 => records'[Self] = log'[Len(log')].body
    BY <1>2, <1>3 DEF ProfileLog
  <2> QED BY <2>1, <2>2, <2>3 DEF ProfileLog
<1>6. ProfileRows'
  BY DEF ProfileRows
<1>7. ProfileShown'
  <2>1. CASE records' = records /\ log' = log
    BY <2>1 DEF ProfileShown
  <2>2. CASE Len(log') = Len(log) + 1
    <3>1. ~(pos' > Len(log'))
      BY <2>2
    <3> QED BY <3>1 DEF ProfileShown
  <2> QED BY <1>3, <2>1, <2>2
<1> QED BY <1>1, <1>2, <1>4, <1>5, <1>6, <1>7 DEF Types, LogType

(* The other requests are not disturbed.                                   *)
LEMMA ProfileJobs ==
  ASSUME MInv, coll = "profile", coll' = coll, NEW M \in SUBSET Request, Others(M),
         Len(log') \in Nat, Len(log) <= Len(log'),
         \A c \in M : ProfileJob(c)'
  PROVE  \A c \in Request : ProfileJob(c)'
<1> USE ProfileParts
<1> SUFFICES ASSUME NEW c \in Request \ M, pc[c] # "idle" PROVE ProfileJob(c)'
  BY DEF ProfileJob, Others
<1>1. pc'[c] = pc[c] /\ job'[c] = job[c] /\ ProfileJob(c)
  BY DEF Others
<1>2. job[c].at \in 0..Len(log')
  BY <1>1 DEF ProfileJob
<1> QED BY <1>1, <1>2 DEF ProfileJob

(* A step of one request that writes neither a row nor the record.         *)
LEMMA ProfileQuiet ==
  ASSUME MInv, coll = "profile", NEW a \in Request,
         UNCHANGED <<coll, rows, seq, records, log, pos, saved, others>>,
         calls' \in 0..MaxCalls,
         pc' \in [Request -> Places], DOMAIN job' = Request, Others({a}),
         ProfileJob(a)', blemished' \in BOOLEAN, ~blemished' => ~blemished
  PROVE  MInv'
<1> USE ProfileParts
<1>1. Types'
  BY DEF Types, Places, Contents, Unique
<1>2. ProfileLog' /\ ProfileRows' /\ ProfileShown'
  BY DEF ProfileLog, ProfileRows, ProfileShown
<1>3. {a} \in SUBSET Request /\ Len(log') \in Nat /\ Len(log) <= Len(log')
      /\ \A c \in {a} : ProfileJob(c)'
  OBVIOUS
<1>4. \A c \in Request : ProfileJob(c)'
  BY <1>3, ProfileJobs
<1> QED BY <1>1, <1>2, <1>4, ProfileNext

(* What GetProfile returns is a profile. *)
LEMMA StoredProfile ==
  ASSUME MInv, coll = "profile", NEW p \in {Stored, Blank}
  PROVE  p \in Profile /\ \A x \in Part : /\ [p EXCEPT !.bio = x] \in Profile
                                          /\ [p EXCEPT !.pins = x] \in Profile
                                          /\ [p EXCEPT !.avatar = x] \in Profile
<1>1. Blank \in Profile
  BY DEF Blank, Profile, Part
<1>2. Stored \in Profile
  <2>1. CASE rows = {}
    BY <1>1, <2>1 DEF Stored
  <2>2. CASE rows # {}
    <3>1. (CHOOSE r \in rows : TRUE) \in rows
      BY <2>2
    <3>2. (CHOOSE r \in rows : TRUE).body \in Profile
      BY <3>1, ProfileParts, RowFields
    <3> QED BY <2>2, <3>2 DEF Stored
  <2> QED BY <2>1, <2>2
<1> QED BY <1>1, <1>2 DEF Profile

(* A request of a profile page starts. *)
LEMMA CallProfileMInv ==
  ASSUME MInv, coll = "profile", NEW a \in Request, NEW op, NEW b, NEW x \in Part,
         CallProfile(a, op, b, x), op \in {"form", "avatar"}, op = "form" => b \in Profile
  PROVE  MInv'
<1> USE ProfileParts
<1>1. /\ pc[a] = "idle" /\ calls < MaxCalls /\ calls' = calls + 1
      /\ pc' = [pc EXCEPT ![a] = "get"]
      /\ job' = [job EXCEPT ![a] = [op |-> op, rkey |-> Self, body |-> b, at |-> 0,
                                    swap |-> None, avatar |-> x]]
      /\ UNCHANGED <<coll, rows, seq, records, log, pos, saved, blemished, others>>
  BY DEF CallProfile, tables, stream
<1>2. calls \in Nat /\ MaxCalls \in Nat /\ MaxOthers \in Nat
  BY RecordsAssumption DEF Types
<1>3. calls' \in 0..MaxCalls /\ Self \in Rkey
  BY <1>1, <1>2 DEF Self, Rkey
<1>4. /\ pc' \in [Request -> Places] /\ DOMAIN job' = Request /\ Others({a})
      /\ pc'[a] = "get"
      /\ job'[a] = [op |-> op, rkey |-> Self, body |-> b, at |-> 0, swap |-> None, avatar |-> x]
  BY <1>1 DEF Types, Places, Others
<1>5. /\ job'[a].op = op /\ job'[a].body = b /\ job'[a].at = 0 /\ job'[a].swap = None
      /\ job'[a].avatar = x
  BY <1>4
<1>6. ProfileJob(a)'
  <2>1. 0 \in 0..Len(log')
    BY <1>1
  <2> QED BY <1>3, <1>4, <1>5, <2>1 DEF ProfileJob
<1> QED BY <1>1, <1>3, <1>4, <1>6, ProfileQuiet DEF Types

(* Every request of the profile pages starts in order. *)
LEMMA ProfileRequestsMInv ==
  ASSUME MInv, NEW a \in Request, ProfileRequests(a) PROVE MInv'
<1>1. coll = "profile" /\ None \in Part /\ Subject \in Part
  BY DEF ProfileRequests, Part
<1>2. ASSUME NEW x \in Part, UpdateProfileBio(a, x) PROVE MInv'
  <2>1. PICK p \in {Stored, Blank} : CallProfile(a, "form", [p EXCEPT !.bio = x], None)
    BY <1>2 DEF UpdateProfileBio
  <2>2. [p EXCEPT !.bio = x] \in Profile
    BY <1>1, StoredProfile
  <2> QED BY <1>1, <2>1, <2>2, CallProfileMInv
<1>3. ASSUME NEW x \in Part, UpdateProfilePins(a, x) PROVE MInv'
  <2>1. PICK p \in {Stored, Blank} : CallProfile(a, "form", [p EXCEPT !.pins = x], None)
    BY <1>3 DEF UpdateProfilePins
  <2>2. [p EXCEPT !.pins = x] \in Profile
    BY <1>1, StoredProfile
  <2> QED BY <1>1, <2>1, <2>2, CallProfileMInv
<1>4. CASE UploadProfileAvatar(a) \/ RemoveProfileAvatar(a)
  BY <1>1, <1>4, CallProfileMInv DEF UploadProfileAvatar, RemoveProfileAvatar
<1> QED BY <1>2, <1>3, <1>4 DEF ProfileRequests

(* The call of the PDS fails, or the row is not written.                   *)
LEMMA ProfileEndMInv ==
  ASSUME MInv, coll = "profile", NEW a \in Request, PdsError(a) \/ RowError(a) PROVE MInv'
<1> USE ProfileParts
<1>1. ProfileJob(a)
  OBVIOUS
<1>2. /\ Goto(a, "idle") /\ UNCHANGED <<coll, rows, seq, records, log, pos, saved, calls, others>>
      /\ blemished' = (blemished \/ FALSE)
  BY <1>1 DEF PdsError, RowError, Fail, Blemish, tables, stream, ProfileJob
<1>3. /\ pc' \in [Request -> Places] /\ DOMAIN job' = Request /\ Others({a}) /\ pc'[a] = "idle"
  BY <1>2, GotoMoves DEF Places
<1>4. ProfileJob(a)' /\ calls' \in 0..MaxCalls
  BY <1>2, <1>3 DEF ProfileJob, Types
<1>5. blemished' \in BOOLEAN /\ (~blemished' => ~blemished)
  BY <1>2
<1> QED BY <1>2, <1>3, <1>4, <1>5, ProfileQuiet

(* The handler remembers the record it replaces, or none. *)
LEMMA GetRecordMInv ==
  ASSUME MInv, coll = "profile", NEW a \in Request, GetRecord(a) PROVE MInv'
<1> USE ProfileParts
<1>1. PICK found \in {records[Self], None} :
        /\ pc[a] = "get"
        /\ UNCHANGED <<coll, rows, seq, records, log, pos, saved, blemished, calls, others>>
        /\ IF found = None /\ job[a].op = "avatar" THEN Goto(a, "idle")
           ELSE /\ pc' = [pc EXCEPT ![a] = "pds"]
                /\ job' = [job EXCEPT ![a].swap = found]
  BY DEF GetRecord, Fail, bounds, tables, stream
<1>2. ProfileJob(a) /\ calls' \in 0..MaxCalls /\ blemished' \in BOOLEAN
  BY <1>1 DEF Types
<1>3. found \in Profile \cup {None}
  BY <1>1, <1>2 DEF Types, ProfileJob
<1>4. CASE found = None /\ job[a].op = "avatar"
  <2>1. Goto(a, "idle")
    BY <1>1, <1>4
  <2>2. /\ pc' \in [Request -> Places] /\ DOMAIN job' = Request /\ Others({a}) /\ pc'[a] = "idle"
    BY <2>1, GotoMoves DEF Places
  <2>3. ProfileJob(a)'
    BY <2>2 DEF ProfileJob
  <2> QED BY <1>1, <1>2, <2>2, <2>3, ProfileQuiet
<1>5. CASE ~(found = None /\ job[a].op = "avatar")
  <2>1. pc' = [pc EXCEPT ![a] = "pds"] /\ job' = [job EXCEPT ![a].swap = found]
    BY <1>1, <1>5
  <2>2. /\ pc' \in [Request -> Places] /\ DOMAIN job' = Request /\ Others({a}) /\ pc'[a] = "pds"
        /\ job'[a] = [job[a] EXCEPT !.swap = found]
    BY <2>1 DEF Types, Places, Others
  <2>3. /\ job'[a] = [op |-> job[a].op, rkey |-> Self, body |-> job[a].body, at |-> job[a].at,
                      swap |-> found, avatar |-> job[a].avatar]
        /\ job'[a].op = job[a].op /\ job'[a].body = job[a].body /\ job'[a].at = job[a].at
        /\ job'[a].swap = found /\ job'[a].avatar = job[a].avatar
    BY <1>1, <1>2, <2>2 DEF ProfileJob
  <2>4. ProfileJob(a)'
    BY <1>1, <1>2, <1>3, <1>5, <2>2, <2>3 DEF ProfileJob
  <2> QED BY <1>1, <1>2, <2>2, <2>4, ProfileQuiet
<1> QED BY <1>4, <1>5

(* The handler of the picture reads the row. *)
LEMMA LoadProfileMInv ==
  ASSUME MInv, coll = "profile", NEW a \in Request, LoadProfile(a) PROVE MInv'
<1> USE ProfileParts
<1>1. PICK p \in {Stored, Blank} :
        /\ pc[a] = "load" /\ pc' = [pc EXCEPT ![a] = "row"]
        /\ job' = [job EXCEPT ![a].body = [p EXCEPT !.avatar = job[a].avatar]]
        /\ UNCHANGED <<coll, rows, seq, records, log, pos, saved, blemished, calls, others>>
  BY DEF LoadProfile, tables, stream
<1>2. ProfileJob(a) /\ calls' \in 0..MaxCalls /\ blemished' \in BOOLEAN
  BY <1>1 DEF Types
<1>3. [p EXCEPT !.avatar = job[a].avatar] \in Profile
  BY <1>1, <1>2, StoredProfile DEF ProfileJob
<1>4. /\ pc' \in [Request -> Places] /\ DOMAIN job' = Request /\ Others({a}) /\ pc'[a] = "row"
      /\ job'[a] = [job[a] EXCEPT !.body = [p EXCEPT !.avatar = job[a].avatar]]
  BY <1>1 DEF Types, Places, Others
<1>5. /\ job'[a] = [op |-> job[a].op, rkey |-> Self, body |-> job'[a].body, at |-> job[a].at,
                    swap |-> job[a].swap, avatar |-> job[a].avatar]
      /\ job'[a].body \in Profile
      /\ job'[a].op = job[a].op /\ job'[a].at = job[a].at
      /\ job'[a].swap = job[a].swap /\ job'[a].avatar = job[a].avatar
  <2>1. job[a] = [op |-> job[a].op, rkey |-> Self, body |-> job[a].body, at |-> job[a].at,
                    swap |-> job[a].swap, avatar |-> job[a].avatar]
    BY <1>1, <1>2 DEF ProfileJob
  <2> QED BY <1>3, <1>4, <2>1
<1>6. ProfileJob(a)'
  BY <1>1, <1>2, <1>4, <1>5 DEF ProfileJob
<1> QED BY <1>1, <1>2, <1>4, <1>6, ProfileQuiet

(* The record is put on condition that it has not changed.                 *)
LEMMA SwapRecordMInv ==
  ASSUME MInv, coll = "profile", NEW a \in Request, SwapRecord(a) PROVE MInv'
<1> USE ProfileParts
<1> DEFINE j == job[a]
           stale == j.swap \notin {None, records[Self]}
           v == IF j.op = "form" THEN [j.body EXCEPT !.avatar = None]
                ELSE [j.swap EXCEPT !.avatar = j.avatar]
<1>1. /\ pc[a] = "pds" /\ UNCHANGED <<coll, rows, seq, pos, saved, calls, others>>
      /\ IF stale THEN Goto(a, "idle") /\ UNCHANGED <<records, log, blemished>>
         ELSE /\ Put(Self, v)
              /\ pc' = [pc EXCEPT ![a] = IF j.op = "form" THEN "row" ELSE "load"]
              /\ job' = [job EXCEPT ![a].at = Len(log')]
  BY DEF SwapRecord, tables, stream, bounds
<1>2. ProfileJob(a)
  OBVIOUS
<1>3. CASE stale
  <2>1. Goto(a, "idle") /\ UNCHANGED <<records, log, blemished>>
    BY <1>1, <1>3
  <2>2. /\ pc' \in [Request -> Places] /\ DOMAIN job' = Request /\ Others({a}) /\ pc'[a] = "idle"
    BY <2>1, GotoMoves DEF Places
  <2>3. ProfileJob(a)' /\ calls' \in 0..MaxCalls /\ blemished' \in BOOLEAN
    BY <1>1, <2>1, <2>2 DEF ProfileJob, Types
  <2> QED BY <1>1, <2>1, <2>2, <2>3, ProfileQuiet
<1>4. CASE ~stale
  <2>1. /\ Commit(Self, v) /\ blemished' = (blemished \/ Twin(Self, v))
        /\ pc' = [pc EXCEPT ![a] = IF j.op = "form" THEN "row" ELSE "load"]
        /\ job' = [job EXCEPT ![a].at = Len(log')]
    BY <1>1, <1>4 DEF Put, Blemish
  <2>2. v \in Profile /\ Self \in Rkey
    <3>1. Self \in Rkey
      BY <1>1, <1>2 DEF ProfileJob
    <3>2. CASE j.op = "form"
      <4>1. j.body \in Profile /\ None \in Part
        BY <1>1, <1>2, <3>2 DEF ProfileJob, Part
      <4> QED BY <3>1, <3>2, <4>1 DEF Profile
    <3>3. CASE j.op # "form"
      <4>1. j.swap \in Profile /\ j.avatar \in Part
        BY <1>1, <1>2, <3>3 DEF ProfileJob
      <4> QED BY <3>1, <3>3, <4>1 DEF Profile
    <3> QED BY <3>2, <3>3
  <2> HIDE DEF v
  <2>3. v # None
    BY <2>2
  <2>4. ~blemished' => ~blemished
    BY <2>1
  <2>5. /\ records' \in [Rkey -> Contents' \cup {None}]
        /\ log' \in Seq([rkey : Rkey, body : Contents' \cup {None}])
        /\ pos' \in 1..(Len(log') + 1) /\ saved' \in 1..(Len(log') + 1)
        /\ rows' \subseteq [rkey : Rkey, body : Contents', gone : BOOLEAN, number : Nat]
        /\ Len(log') \in Nat /\ Len(log) <= Len(log') /\ (v # None => Len(log') > 0)
        /\ ProfileLog' /\ ProfileRows' /\ ProfileShown'
    BY <1>1, <2>1, <2>2, <2>4, ProfileCommit
  <2>6. /\ pc' \in [Request -> Places] /\ DOMAIN job' = Request /\ Others({a})
        /\ pc'[a] = (IF j.op = "form" THEN "row" ELSE "load")
        /\ job'[a] = [job[a] EXCEPT !.at = Len(log')]
    BY <2>1 DEF Types, Places, Others
  <2>7. /\ job'[a] = [op |-> job[a].op, rkey |-> Self, body |-> job[a].body, at |-> Len(log'),
                      swap |-> job[a].swap, avatar |-> job[a].avatar]
        /\ job'[a].op = job[a].op /\ job'[a].body = job[a].body /\ job'[a].at = Len(log')
        /\ job'[a].swap = job[a].swap /\ job'[a].avatar = job[a].avatar
    BY <1>1, <1>2, <2>6 DEF ProfileJob
  <2>8. ProfileJob(a)'
    <3>1. Len(log') \in 0..Len(log') /\ Len(log') > 0
      BY <2>3, <2>5
    <3>2. /\ Self \in Rkey /\ job[a].op \in {"form", "avatar"} /\ job[a].avatar \in Part
          /\ job[a].op = "form" => job[a].body \in Profile
      BY <1>1, <1>2 DEF ProfileJob
    <3>3. /\ job[a].op = "form" => pc'[a] = "row"
          /\ job[a].op # "form" => pc'[a] = "load"
      BY <2>6
    <3>4. pc'[a] \in {"load", "row"} /\ (job[a].op = "form" \/ pc'[a] = "row" => job[a].body \in Profile)
      BY <3>2, <3>3
    <3> QED BY <2>7, <3>1, <3>2, <3>4 DEF ProfileJob
  <2>9. {a} \in SUBSET Request /\ \A c \in {a} : ProfileJob(c)'
    BY <2>8
  <2>10. \A c \in Request : ProfileJob(c)'
    BY <1>1, <2>5, <2>6, <2>9, ProfileJobs
  <2>11. Types'
    <3>1. seq' \in Nat /\ calls' \in 0..MaxCalls /\ others' \in 0..MaxOthers /\ coll' \in AllColl
      BY <1>1 DEF Types
    <3>2. blemished' \in BOOLEAN
      BY <2>1
    <3> QED BY <2>5, <2>6, <3>1, <3>2 DEF Types, Places
  <2> QED BY <1>1, <2>5, <2>10, <2>11, ProfileNext
<1> QED BY <1>3, <1>4

(* A handler writes the row of the profile: unless its own event was read  *)
(* before, the event is still to come and will write it again.             *)
LEMMA ProfileRowMInv ==
  ASSUME MInv, coll = "profile", NEW a \in Request, RowWrite(a) PROVE MInv'
<1> USE ProfileParts
<1>1. ProfileJob(a) /\ pc[a] = "row"
  BY DEF RowWrite
<1>2. /\ job[a].rkey = Self /\ job[a].op \in {"form", "avatar"} /\ job[a].body \in Profile
      /\ Self \in Rkey /\ job[a].at \in 0..Len(log) /\ job[a].at > 0
  BY <1>1 DEF ProfileJob
<1>3. /\ rows' = {NewRow(Self, job[a].body, 0)} /\ UNCHANGED <<coll, seq>>
      /\ blemished' = (blemished \/ Overtaken(a) \/ Displaced(a))
      /\ Goto(a, "idle") /\ UNCHANGED <<records, log, pos, saved, calls, others>>
  BY <1>2 DEF RowWrite, PutRow, UpsertProfile, Blemish, stream, bounds
<1>4. /\ NewRow(Self, job[a].body, 0) \in RowType
      /\ NewRow(Self, job[a].body, 0).rkey = Self /\ ~NewRow(Self, job[a].body, 0).gone
  BY <1>2, NewRowFields
<1>5. Contents' = Contents /\ rows' \subseteq RowType
  BY <1>3, <1>4 DEF Contents, Unique
<1>6. /\ pc' \in [Request -> Places] /\ DOMAIN job' = Request /\ Others({a}) /\ pc'[a] = "idle"
  BY <1>3, GotoMoves DEF Places
<1>7. Types'
  <2>1. blemished' \in BOOLEAN
    BY <1>3
  <2> QED BY <1>3, <1>5, <1>6, <2>1 DEF Types, RowType, Places
<1>8. ProfileLog' /\ ProfileRows'
  BY <1>3, <1>4 DEF ProfileLog, ProfileRows
<1>9. ProfileShown'
  <2> SUFFICES ASSUME ~blemished', pos > Len(log) PROVE FALSE
    BY <1>3 DEF ProfileShown
  <2>1. ~Overtaken(a)
    BY <1>3
  <2> QED BY <1>2, <2>1 DEF Overtaken
<1>10. \A c \in Request : ProfileJob(c)'
  <2>1. {a} \in SUBSET Request /\ (\A c \in {a} : ProfileJob(c)') /\ coll' = coll
        /\ Len(log') \in Nat /\ Len(log) <= Len(log')
    BY <1>3, <1>6 DEF ProfileJob
  <2> QED BY <1>6, <2>1, ProfileJobs
<1> QED BY <1>3, <1>7, <1>8, <1>9, <1>10, ProfileNext

(* Of another client the record alone changes.                             *)
LEMMA ProfileOtherMInv ==
  ASSUME MInv, coll = "profile", NEW k \in Rkey, NEW b \in Contents \cup {None},
         OtherClient(k, b), k = Self \/ records[k] # None
  PROVE  MInv'
<1> USE ProfileParts
<1>1. k = Self /\ Self \in Rkey /\ b \in Profile \cup {None}
  BY DEF ProfileLog
<1>2. /\ others < MaxOthers /\ others' = others + 1 /\ Commit(Self, b)
      /\ blemished' = (blemished \/ Twin(k, b) \/ Unheard)
      /\ UNCHANGED <<coll, rows, seq, pos, saved, pc, job, calls>>
  BY <1>1 DEF OtherClient, Blemish, tables, stream
<1>3. blemished' \in BOOLEAN /\ (~blemished' => ~blemished)
  BY <1>2
<1>4. /\ records' \in [Rkey -> Contents' \cup {None}]
      /\ log' \in Seq([rkey : Rkey, body : Contents' \cup {None}])
      /\ pos' \in 1..(Len(log') + 1) /\ saved' \in 1..(Len(log') + 1)
      /\ rows' \subseteq [rkey : Rkey, body : Contents', gone : BOOLEAN, number : Nat]
      /\ Len(log') \in Nat /\ Len(log) <= Len(log')
      /\ ProfileLog' /\ ProfileRows' /\ ProfileShown'
  BY <1>1, <1>2, <1>3, ProfileCommit
<1>5. \A c \in Request : ProfileJob(c)'
  <2>1. {} \in SUBSET Request /\ Others({}) /\ \A c \in {} : ProfileJob(c)'
    BY <1>2 DEF Others
  <2> QED BY <1>2, <1>4, <2>1, ProfileJobs
<1>6. Types'
  <2>1. others' \in 0..MaxOthers
    BY <1>2, RecordsAssumption DEF Types
  <2> QED BY <1>2, <1>3, <1>4, <2>1 DEF Types
<1> QED BY <1>2, <1>4, <1>5, <1>6, ProfileNext

(* Steps of the ingester and of the cursor.                                *)
LEMMA ProfileIngestMInv ==
  ASSUME MInv, coll = "profile", NEW c, Ingest(c),
         NEW b, b = log[pos].body
  PROVE  MInv'
<1> USE ProfileParts
<1>1. /\ pos <= Len(log) /\ pos' = pos + 1
      /\ UNCHANGED <<records, log, saved, pc, job, calls, others>>
      /\ \/ /\ IF b = None THEN DeleteRow(log[pos].rkey) ELSE PutRow(log[pos].rkey, b)
            /\ UNCHANGED blemished
         \/ blemished' = TRUE /\ UNCHANGED <<coll, rows, seq>>
  BY DEF Ingest, bounds, Fail, Blemish, tables
<1>2. pos \in 1..Len(log)
  BY <1>1
<1>3. log[pos].rkey = Self /\ Self \in Rkey /\ b \in Profile \cup {None}
  BY <1>2, LogFields DEF ProfileLog
<1>4. /\ UNCHANGED <<coll, seq>>
      /\ \/ /\ b # None /\ rows' = {NewRow(Self, b, 0)} /\ UNCHANGED blemished
         \/ /\ rows' = rows
            /\ b = None \/ blemished'
  <2>1. CASE PutRow(Self, b) /\ b # None /\ UNCHANGED blemished
    BY <2>1 DEF PutRow, UpsertProfile
  <2>2. CASE DeleteRow(Self) /\ b = None
    BY <2>2 DEF DeleteRow, RowsOf
  <2>3. CASE blemished' = TRUE /\ UNCHANGED <<coll, rows, seq>>
    BY <2>3
  <2> QED BY <1>1, <1>3, <2>1, <2>2, <2>3
<1>5. b # None => /\ NewRow(Self, b, 0) \in RowType
                  /\ NewRow(Self, b, 0).rkey = Self /\ NewRow(Self, b, 0).body = b
                  /\ ~NewRow(Self, b, 0).gone
  BY <1>3, NewRowFields
<1>6. Contents' = Contents /\ rows' \subseteq RowType
  BY <1>4, <1>5 DEF Contents, Unique
<1>7. Types'
  <2>1. pos' \in 1..(Len(log') + 1) /\ saved' \in 1..(Len(log') + 1)
    BY <1>1, <1>2 DEF Types
  <2>2. blemished' \in BOOLEAN /\ rows' \subseteq [rkey : Rkey, body : Contents, gone : BOOLEAN, number : Nat]
    BY <1>1, <1>6 DEF Types, RowType
  <2> QED BY <1>1, <1>4, <1>6, <2>1, <2>2 DEF Types
<1>8. ProfileLog' /\ ProfileRows'
  BY <1>1, <1>4, <1>5 DEF ProfileLog, ProfileRows
<1>9. ProfileShown'
  <2> SUFFICES ASSUME ~blemished', pos' > Len(log), records[Self] # None
               PROVE  rows' # {} /\ \A r \in rows' : r.body = records[Self]
    BY <1>1 DEF ProfileShown
  <2>1. records[Self] = b
    BY <1>1, <1>2 DEF ProfileLog
  <2> QED BY <1>4, <1>5, <2>1
<1>10. \A d \in Request : ProfileJob(d)'
  <2>1. {} \in SUBSET Request /\ Others({}) /\ (\A d \in {} : ProfileJob(d)') /\ coll' = coll
        /\ Len(log') \in Nat /\ Len(log) <= Len(log')
    BY <1>1, <1>4 DEF Others
  <2> QED BY <2>1, ProfileJobs
<1> QED BY <1>4, <1>7, <1>8, <1>9, <1>10, ProfileNext

(* The cursor and the restart. *)
LEMMA ProfileCursorMInv ==
  ASSUME MInv, coll = "profile", UNCHANGED <<coll, rows, seq, records, log, calls, others>>,
         \/ UNCHANGED <<pc, job>>
         \/ pc' = [a \in Request |-> "idle"] /\ job' = [a \in Request |-> Idle],
         saved' \in 1..(Len(log) + 1), pos' \in 1..(Len(log) + 1), blemished' \in BOOLEAN,
         ~blemished' => ~blemished /\ pos' <= pos
  PROVE  MInv'
<1> USE ProfileParts
<1>1. Contents' = Contents
  BY DEF Contents, Unique
<1>2. pc' \in [Request -> Places] /\ DOMAIN job' = Request
  BY DEF Types, Places
<1>3. Types'
  BY <1>1, <1>2 DEF Types, Places
<1>4. ProfileLog' /\ ProfileRows'
  BY DEF ProfileLog, ProfileRows
<1>5. ProfileShown'
  BY DEF ProfileShown
<1>6. \A c \in Request : ProfileJob(c)'
  BY DEF ProfileJob
<1> QED BY <1>3, <1>4, <1>5, <1>6, ProfileNext

----------------------------------------------------------------------------
(***************************************************************************)
(* All steps.                                                              *)
(***************************************************************************)
LEMMA InitMInv == Init => MInv
<1> SUFFICES ASSUME Init PROVE MInv
  OBVIOUS
<1>1. /\ coll \in AllColl /\ rows = {} /\ log = << >> /\ pos = 1 /\ saved = 1 /\ seq = 1
      /\ records = [k \in Rkey |-> None] /\ blemished = FALSE
      /\ pc = [a \in Request |-> "idle"] /\ job = [a \in Request |-> Idle]
      /\ calls = 0 /\ others = 0 /\ Len(log) = 0
  BY RecordsAssumption DEF Init
<1>2. Types
  <2>1. log \in Seq([rkey : Rkey, body : Contents \cup {None}])
    BY <1>1
  <2>2. records \in [Rkey -> Contents \cup {None}]
    BY <1>1
  <2>3. calls \in 0..MaxCalls /\ others \in 0..MaxOthers
    BY <1>1, RecordsAssumption
  <2>4. pos \in 1..(Len(log) + 1) /\ saved \in 1..(Len(log) + 1) /\ seq \in Nat
    BY <1>1
  <2>5. pc \in [Request -> Places] /\ DOMAIN job = Request
    BY <1>1 DEF Places
  <2>6. rows \subseteq [rkey : Rkey, body : Contents, gone : BOOLEAN, number : Nat]
        /\ blemished \in BOOLEAN /\ coll \in AllColl
    BY <1>1
  <2> QED BY <2>1, <2>2, <2>3, <2>4, <2>5, <2>6 DEF Types, Places
<1>3. \A k : ~Told(k) /\ ~ \E r \in rows : r.rkey = k
  BY <1>1 DEF Told
<1>4. \A k \in Rkey : records[k] = None
  BY <1>1
<1>5. \A a \in Request : pc[a] = "idle"
  BY <1>1
<1>6. ProfileInv
  BY <1>1, <1>4, <1>5 DEF ProfileInv, ProfileLog, ProfileRows, ProfileShown, ProfileJob
<1>7. KeyedInv
  <2>1. KeysOK
    BY <1>3, <1>4 DEF KeysOK, Used
  <2>2. LogOK
    BY <1>1, <1>4 DEF LogOK
  <2>3. \A a \in Request : JobOK(a) /\ Written(a) /\ Inserting(a)
    BY <1>5 DEF JobOK, Written, Inserting
  <2>4. \A k \in Rkey : Mirrored(k)
    BY <1>1, <1>4 DEF Mirrored, Shows
  <2>5. GoneOK
    BY <1>1 DEF GoneOK
  <2>6. LastLive
    BY <1>4 DEF LastLive
  <2> QED BY <2>1, <2>2, <2>3, <2>4, <2>5, <2>6 DEF KeyedInv, Kept
<1> QED BY <1>2, <1>6, <1>7 DEF MInv

(* Every step of a request preserves the invariant. *)
LEMMA StepMInv == ASSUME MInv, NEW a \in Request, Step(a) PROVE MInv'
<1>1. CASE coll = "profile"
  <2>1. ~PdsWrite(a) /\ ~rollbackRecord(a)
    BY <1>1, ProfileParts DEF PdsWrite, rollbackRecord, ProfileJob
  <2> QED BY <1>1, <2>1, ProfileEndMInv, GetRecordMInv, LoadProfileMInv, SwapRecordMInv,
             ProfileRowMInv DEF Step
<1>2. CASE coll # "profile"
  <2>1. ~GetRecord(a) /\ ~LoadProfile(a) /\ ~SwapRecord(a)
    BY <1>2, KeyedParts DEF Jobs, JobOK, GetRecord, LoadProfile, SwapRecord
  <2> QED BY <1>2, <2>1, PdsWriteMInv, PdsErrorMInv, RowWriteMInv, RowErrorMInv, RollbackMInv
          DEF Step
<1> QED BY <1>1, <1>2

(* Every start of a request does, none of them is for the profile. *)
LEMMA AllRequestsMInv == ASSUME MInv, NEW a \in Request, Requests(a) PROVE MInv'
<1>1. CASE coll = "profile"
  BY <1>1 DEF Requests, Create, Delete, Edit, Star, Follow, AttachArtifact, addKey, createString,
     NewIssue, NewIssueComment, React, Unstar, Unfollow, DeleteArtifact, deleteKey, deleteString,
     DeleteIssue, DeleteIssueComment, Unreact, editString, EditIssue, EditIssueComment
<1>2. CASE coll # "profile"
  BY <1>2, RequestsMInv
<1> QED BY <1>1, <1>2

(* So does every write of another client. *)
LEMMA OthersMInv ==
  ASSUME MInv, NEW k, NEW b \in Contents \cup {None}, OtherClient(k, b),
         k = Fresh \/ (k \in Rkey /\ records[k] # None)
  PROVE  MInv'
<1>1. Types /\ others < MaxOthers
  BY DEF MInv, OtherClient
<1>2. /\ calls \in 0..MaxCalls /\ others \in 0..MaxOthers /\ MaxCalls \in Nat /\ MaxOthers \in Nat
  BY <1>1, RecordsAssumption DEF Types
<1>3. Self \in Rkey /\ NextRkey \in Rkey
  BY <1>1, <1>2 DEF Self, NextRkey, Rkey
<1>4. k \in Rkey
  BY <1>3 DEF Fresh
<1>5. CASE coll = "profile"
  BY <1>4, <1>5, ProfileOtherMInv DEF Fresh
<1>6. CASE coll # "profile"
  BY <1>4, <1>6, OtherClientMInv DEF Fresh
<1> QED BY <1>5, <1>6

(* So does the ingester. *)
LEMMA IngestsMInv == ASSUME MInv, NEW c, Ingest(c) PROVE MInv'
BY IngestMInv, ProfileIngestMInv

(* The cursor is saved, is the present, or is what was saved.              *)
LEMMA CursorsMInv ==
  ASSUME MInv,
         SaveLastTimeUs \/ periodicLastTimeSave \/ Reconnect \/ UNCHANGED vars
  PROVE  MInv'
<1>1. Types
  BY DEF MInv
<1>2. Len(log) \in Nat /\ pos \in 1..(Len(log) + 1) /\ saved \in 1..(Len(log) + 1)
      /\ blemished \in BOOLEAN
  BY <1>1 DEF Types
<1>3. /\ UNCHANGED <<coll, rows, seq, records, log, pc, job, calls, others>>
      /\ saved' \in 1..(Len(log) + 1) /\ pos' \in 1..(Len(log) + 1)
  BY <1>2 DEF SaveLastTimeUs, periodicLastTimeSave, Reconnect, Fail, vars, tables, stream, bounds
<1>4. /\ blemished' \in BOOLEAN
      /\ ~blemished' => ~blemished /\ pos' <= pos
  <2>1. CASE Reconnect
    <3>1. blemished' = (blemished \/ pos < saved) /\ pos' = saved
      BY <2>1 DEF Reconnect, Blemish
    <3>2. blemished' \in BOOLEAN /\ (~blemished' => ~blemished /\ ~(pos < saved))
      BY <3>1
    <3>3. ~(pos < saved) => saved <= pos
      BY <1>2
    <3> QED BY <3>1, <3>2, <3>3
  <2>2. CASE SaveLastTimeUs \/ periodicLastTimeSave \/ UNCHANGED vars
    BY <1>2, <2>2 DEF SaveLastTimeUs, periodicLastTimeSave, vars, stream
  <2> QED BY <2>1, <2>2
<1> QED BY <1>3, <1>4, CursorMInv, ProfileCursorMInv

(* So does a restart, from the saved cursor or from the present. *)
LEMMA RestartsMInv ==
  ASSUME MInv, NEW from \in {saved, Len(log) + 1}, Restart(from) PROVE MInv'
<1>1. Types /\ from \in 1..(Len(log) + 1) /\ pos \in Int
  BY DEF MInv, Types
<1>2. CASE coll = "profile"
  <2>1. /\ UNCHANGED <<coll, rows, seq, records, log, calls, others>>
        /\ pos' = from /\ saved' = from
        /\ pc' = [a \in Request |-> "idle"] /\ job' = [a \in Request |-> Idle]
        /\ blemished' = (blemished \/ pos < from \/ Torn)
    BY DEF Restart, Fail, Blemish, tables
  <2>2. ~blemished' => ~blemished /\ ~(pos < from)
    BY <2>1
  <2>3. ~blemished' => ~blemished /\ pos' <= pos
    BY <1>1, <2>1, <2>2
  <2>4. blemished' \in BOOLEAN
    BY <2>1
  <2> QED BY <1>1, <1>2, <2>1, <2>3, <2>4, ProfileCursorMInv
<1>3. CASE coll # "profile"
  BY <1>1, <1>3, RestartMInv
<1> QED BY <1>2, <1>3

(* Every step, stuttering included, preserves the invariant. *)
LEMMA NextMInv == MInv /\ [Next]_vars => MInv'
<1> SUFFICES ASSUME MInv, [Next]_vars PROVE MInv'
  OBVIOUS
<1>1. ASSUME NEW a \in Request, Requests(a) \/ ProfileRequests(a) \/ Step(a) PROVE MInv'
  BY <1>1, AllRequestsMInv, ProfileRequestsMInv, StepMInv
<1>2. ASSUME NEW b \in Contents, OtherClient(Fresh, b) PROVE MInv'
  BY <1>2, OthersMInv
<1>3. ASSUME NEW k \in {q \in Rkey : records[q] # None}, NEW b \in Contents \cup {None},
             OtherClient(k, b)
      PROVE  MInv'
  BY <1>3, OthersMInv
<1>4. CASE \/ ingestStar \/ ingestFollow \/ ingestArtifact \/ ingestPublicKey \/ ingestString
           \/ ingestIssue \/ ingestIssueComment \/ ingestProfile
  BY <1>4, IngestsMInv
     DEF ingestStar, ingestFollow, ingestArtifact, ingestPublicKey, ingestString,
         ingestIssue, ingestIssueComment, ingestProfile
<1>5. CASE SaveLastTimeUs \/ periodicLastTimeSave \/ Reconnect \/ UNCHANGED vars
  BY <1>5, CursorsMInv
<1>6. ASSUME NEW from \in {saved, Len(log) + 1}, Restart(from) PROVE MInv'
  BY <1>6, RestartsMInv
<1> QED BY <1>1, <1>2, <1>3, <1>4, <1>5, <1>6 DEF Next

(* When everything is read and nothing runs, what the invariant still      *)
(* allows to be missing is not.                                            *)
LEMMA MirrorAtRest == MInv => RowsMirrorRecords
<1> SUFFICES ASSUME MInv, Drained, ~blemished
             PROVE  /\ \A r \in Live :
                         records[r.rkey] = r.body \/ (coll = "profile" /\ records[Self] = None)
                    /\ coll # "string" =>
                         \A k \in Rkey : records[k] # None => \E r \in Live : r.rkey = k
  BY DEF RowsMirrorRecords
<1>1. Types /\ pos = Len(log) + 1 /\ Len(log) \in Nat /\ rows \subseteq RowType
      /\ \A a \in Request : pc[a] = "idle"
  BY DEF MInv, Types, RowType, Drained
<1>2. \A r \in rows : r.rkey \in Rkey /\ r.body \in Contents
  BY <1>1, RowFields
<1>3. CASE coll = "profile"
  <2>1. Self \in Rkey /\ records[Self] # None => rows # {} /\ \A r \in rows : r.body = records[Self]
    BY <1>1, <1>3, ProfileParts DEF ProfileShown
  <2>2. \A r \in rows : r.rkey = Self /\ ~r.gone
    BY <1>3, ProfileParts DEF ProfileRows
  <2>3. \A k \in Rkey : records[k] # None => k = Self
    BY <1>3, ProfileParts DEF ProfileLog
  <2> QED BY <1>2, <1>3, <2>1, <2>2, <2>3 DEF Live
<1>4. CASE coll # "profile"
  <2>1. ASSUME NEW k \in Rkey PROVE Shows(k, records[k])
    <3>1. ~Unread(k)
      BY <1>1 DEF Unread
    <3>2. \A a \in Request : ~Owes(a, k)
      BY <1>1 DEF Owes
    <3> QED BY <1>4, <3>1, <3>2, KeyedParts DEF Kept, Mirrored
  <2>2. ASSUME NEW r \in Live PROVE records[r.rkey] = r.body
    BY <1>2, <2>1, <2>2 DEF Live, Shows
  <2>3. ASSUME coll # "string", NEW k \in Rkey, records[k] # None PROVE \E r \in Live : r.rkey = k
    BY <2>1, <2>3 DEF Live, Shows
  <2> QED BY <2>2, <2>3
<1> QED BY <1>3, <1>4

(* The handlers, the ingester and the cursor: whatever writes a table and  *)
(* a PDS in whatever order, once the firehose is read and no request runs  *)
(* the rows are the records, unless the code gave that up.                 *)
THEOREM RowsFollowRecords == Spec => []RowsMirrorRecords
BY InitMInv, NextMInv, MirrorAtRest, PTL DEF Spec

=============================================================================
