------------------------------- MODULE Codec -------------------------------
(***************************************************************************)
(* The CBOR codec of the records (api/tangled/cbor_gen.go).  The generated  *)
(* functions all have one form, which Write and Read give once; what each   *)
(* of them contributes is a table: for MarshalCBOR the literal field count, *)
(* the fields whose absence lowers it and the fields in the order they are  *)
(* written; for UnmarshalCBOR the size of nameBuf and the cases of the      *)
(* switch.  A text is its length, a nested struct one opaque value with its *)
(* own table, and the limits 1000000 (texts) and 8192 (slices) are          *)
(* MaxText and MaxSlice.                                                    *)
(***************************************************************************)
EXTENDS Integers, Sequences, FiniteSets

CONSTANTS Nil, MaxText, MaxSlice, IntBits

ASSUME CodecBounds == {MaxText, MaxSlice, IntBits} \subseteq Nat \ {0}

(* a field of a table *)
Field(key, kind) == [key |-> key, kind |-> kind, opt |-> FALSE, const |-> ""]
Text(key) == Field(key, "text")
Bytes(key) == Field(key, "bytes")
Bool(key) == Field(key, "bool")
Int64(key) == Field(key, "int")
Texts(key) == Field(key, "texts")
Struct(key) == Field(key, "struct")
Structs(key) == Field(key, "structs")
Const(nsid) == [Field("$type", "const") EXCEPT !.const = nsid]
Opt(f) == [f EXCEPT !.opt = TRUE]   \* MarshalCBOR: written only if t.F != nil
Ptr(f) == [f EXCEPT !.opt = TRUE]   \* UnmarshalCBOR: a null leaves t.F nil

Writes(fieldCount, minus, fields) == [fieldCount |-> fieldCount, minus |-> minus, fields |-> fields]
Reads(nameBuf, cases) == [nameBuf |-> nameBuf, cases |-> cases]
Codec(w, r) == [w |-> w, r |-> r]

Err == [n |-> 0, pairs |-> <<>>, ok |-> FALSE]

---------------------------------------------------------------------------
(* values *)

Inner == "struct"
Ints == -(2 ^ (IntBits - 1)) .. 2 ^ (IntBits - 1) - 1
SeqUpTo(S, n) == UNION {[1..k -> S] : k \in 0..n}

(* what a field of the Go struct may hold *)
Value(f) ==
  (IF f.opt THEN {Nil} ELSE {}) \cup
  (CASE f.kind \in {"text", "const"} -> 0..MaxText + 1
     [] f.kind = "bytes" -> {Nil} \cup 0..MaxText + 1
     [] f.kind = "bool" -> BOOLEAN
     [] f.kind = "int" -> Ints
     [] f.kind = "struct" -> {Nil, Inner}
     [] f.kind = "texts" -> {Nil} \cup SeqUpTo({0, MaxText + 1}, MaxSlice + 1)
     [] f.kind = "structs" -> {Nil} \cup SeqUpTo({Nil, Inner}, MaxSlice + 1))

(* the zero value of the type *)
Zero(f) ==
  CASE f.opt -> Nil
    [] f.kind = "text" -> 0
    [] f.kind = "bool" -> FALSE
    [] f.kind = "int" -> 0
    [] OTHER -> Nil

TooLong(f, v) ==
  CASE v = Nil \/ f.kind \in {"bool", "int", "struct", "const"} -> FALSE
    [] f.kind \in {"text", "bytes"} -> v > MaxText
    [] f.kind = "structs" -> Len(v) > MaxSlice
    [] f.kind = "texts" -> Len(v) > MaxSlice \/ \E i \in DOMAIN v : v[i] > MaxText

Signed(n) == ((n + 2 ^ (IntBits - 1)) % 2 ^ IntBits) - 2 ^ (IntBits - 1)
Unsigned(n) == n % 2 ^ IntBits

---------------------------------------------------------------------------
(* the two directions *)

Item(maj, arg) == [maj |-> maj, arg |-> arg]

Encode(f, v) ==
  CASE f.kind = "const" -> Item("text", f.const)
    [] f.kind \in {"texts", "structs"} -> Item("array", IF v = Nil THEN <<>> ELSE v)
    [] v = Nil -> Item("null", Nil)
    [] f.kind = "int" /\ v >= 0 -> Item("uint", v)
    [] f.kind = "int" /\ v < 0 -> Item("nint", Unsigned(Signed(-v) - 1))
    [] OTHER -> Item(f.kind, v)

(* mutant: the header counts the fields that are not written *)
Write_CountAll(c, val) ==
  LET fs == SelectSeq(c.w.fields, LAMBDA f : ~f.opt \/ val[f.key] # Nil)
  IN IF \E i \in DOMAIN fs : TooLong(fs[i], val[fs[i].key]) THEN Err
     ELSE [n |-> c.w.fieldCount, ok |-> TRUE,
           pairs |-> [i \in DOMAIN fs |-> [key |-> fs[i].key, item |-> Encode(fs[i], val[fs[i].key])]]]

(* a field of a nil pointer lowers the count and is skipped; a nil slice    *)
(* that is not optional is an empty array, a nil struct null                *)
Write(c, val) ==
  LET fs == SelectSeq(c.w.fields, LAMBDA f : ~f.opt \/ val[f.key] # Nil)
      n == c.w.fieldCount - Cardinality({k \in c.w.minus : val[k] = Nil})
  IN IF \E i \in DOMAIN fs : TooLong(fs[i], val[fs[i].key]) THEN Err
     ELSE [n |-> n, ok |-> TRUE,
           pairs |-> [i \in DOMAIN fs |-> [key |-> fs[i].key, item |-> Encode(fs[i], val[fs[i].key])]]]

Accepts(f, it) ==
  CASE it.maj = "null" -> f.opt \/ f.kind = "struct"
    [] f.kind = "int" -> it.maj \in {"uint", "nint"} /\ Signed(it.arg) >= 0
    [] f.kind \in {"texts", "structs"} -> it.maj = "array" /\ Len(it.arg) <= MaxSlice
    [] OTHER -> it.maj = f.kind

Decode(f, it) ==
  CASE it.maj = "null" -> Nil
    [] it.maj = "array" /\ it.arg = <<>> -> Nil
    [] it.maj = "bytes" /\ it.arg = 0 -> Nil
    [] it.maj = "nint" -> -1 - Signed(it.arg)
    [] OTHER -> it.arg

(* the first n pairs are read; a key longer than nameBuf, or of no case, is *)
(* skipped with its value                                                   *)
Read(c, wire) ==
  LET Case(i) == {f \in c.r.cases : f.key = wire.pairs[i].key /\ Len(f.key) <= c.r.nameBuf}
      At(f) == {i \in 1..wire.n : f \in Case(i)}
      Last(f) == CHOOSE i \in At(f) : \A j \in At(f) : j <= i
  IN IF wire.n > Len(wire.pairs)
          \/ \E i \in 1..wire.n : \E f \in Case(i) : ~Accepts(f, wire.pairs[i].item)
     THEN [ok |-> FALSE, left |-> 0, val |-> Nil]
     ELSE [ok |-> TRUE, left |-> Len(wire.pairs) - wire.n,
           val |-> [k \in {f.key : f \in c.r.cases} |->
                      LET f == CHOOSE g \in c.r.cases : g.key = k
                      IN IF At(f) = {} THEN Zero(f) ELSE Decode(f, wire.pairs[Last(f)].item)]]

---------------------------------------------------------------------------
(* the tables, one pair of definitions for each type *)

Marshal_ActorProfile ==
  Writes(9, {"avatar", "description", "links", "location", "pinnedRepositories", "pronouns", "stats"},
         <<Const("sh.tangled.actor.profile"), Opt(Texts("links")), Opt(Texts("stats")),
           Opt(Struct("avatar")), Bool("bluesky"), Opt(Text("location")), Opt(Text("pronouns")),
           Opt(Text("description")), Opt(Texts("pinnedRepositories"))>>)
Unmarshal_ActorProfile ==
  Reads(18, {Text("$type"), Texts("links"), Texts("stats"), Struct("avatar"), Bool("bluesky"),
           Ptr(Text("location")), Ptr(Text("pronouns")), Ptr(Text("description")),
           Texts("pinnedRepositories")})
Marshal_FeedReaction ==
  Writes(4, {}, <<Const("sh.tangled.feed.reaction"), Text("subject"), Text("reaction"),
           Text("createdAt")>>)
Unmarshal_FeedReaction ==
  Reads(9, {Text("$type"), Text("subject"), Text("reaction"), Text("createdAt")})
Marshal_FeedStar ==
  Writes(3, {}, <<Const("sh.tangled.feed.star"), Text("subject"), Text("createdAt")>>)
Unmarshal_FeedStar ==
  Reads(9, {Text("$type"), Text("subject"), Text("createdAt")})
Marshal_GitRefUpdate ==
  Writes(8, {}, <<Text("ref"), Struct("meta"), Const("sh.tangled.git.refUpdate"),
           Text("newSha"), Text("oldSha"), Text("repoDid"), Text("repoName"),
           Text("committerDid")>>)
Unmarshal_GitRefUpdate ==
  Reads(12, {Text("ref"), Struct("meta"), Text("$type"), Text("newSha"), Text("oldSha"),
           Text("repoDid"), Text("repoName"), Text("committerDid")})
Marshal_GitRefUpdate_CommitCountBreakdown ==
  Writes(1, {"byEmail"}, <<Opt(Structs("byEmail"))>>)
Unmarshal_GitRefUpdate_CommitCountBreakdown ==
  Reads(7, {Structs("byEmail")})
Marshal_GitRefUpdate_IndividualEmailCommitCount ==
  Writes(2, {}, <<Int64("count"), Text("email")>>)
Unmarshal_GitRefUpdate_IndividualEmailCommitCount ==
  Reads(5, {Int64("count"), Text("email")})
Marshal_GitRefUpdate_IndividualLanguageSize ==
  Writes(2, {}, <<Text("lang"), Int64("size")>>)
Unmarshal_GitRefUpdate_IndividualLanguageSize ==
  Reads(4, {Text("lang"), Int64("size")})
Marshal_GitRefUpdate_LangBreakdown ==
  Writes(1, {"inputs"}, <<Opt(Structs("inputs"))>>)
Unmarshal_GitRefUpdate_LangBreakdown ==
  Reads(6, {Structs("inputs")})
Marshal_GitRefUpdate_Meta ==
  Writes(3, {"langBreakdown"}, <<Struct("commitCount"), Bool("isDefaultRef"),
           Opt(Struct("langBreakdown"))>>)
Unmarshal_GitRefUpdate_Meta ==
  Reads(13, {Struct("commitCount"), Bool("isDefaultRef"), Struct("langBreakdown")})
Marshal_PijulRefUpdate ==
  Writes(7, {"languages", "oldState"}, <<Text("repo"), Const("sh.tangled.pijul.refUpdate"),
           Texts("changes"), Text("channel"), Text("newState"), Opt(Text("oldState")),
           Opt(Struct("languages"))>>)
Unmarshal_PijulRefUpdate ==
  Reads(9, {Text("repo"), Text("$type"), Texts("changes"), Text("channel"), Text("newState"),
           Ptr(Text("oldState")), Struct("languages")})
Marshal_GraphFollow ==
  Writes(3, {}, <<Const("sh.tangled.graph.follow"), Text("subject"), Text("createdAt")>>)
Unmarshal_GraphFollow ==
  Reads(9, {Text("$type"), Text("subject"), Text("createdAt")})
Marshal_Knot ==
  Writes(2, {}, <<Const("sh.tangled.knot"), Text("createdAt")>>)
Unmarshal_Knot ==
  Reads(9, {Text("$type"), Text("createdAt")})
Marshal_KnotMember ==
  Writes(4, {}, <<Const("sh.tangled.knot.member"), Text("domain"), Text("subject"),
           Text("createdAt")>>)
Unmarshal_KnotMember ==
  Reads(9, {Text("$type"), Text("domain"), Text("subject"), Text("createdAt")})
Marshal_LabelDefinition ==
  Writes(7, {"color", "multiple"}, <<Text("name"), Const("sh.tangled.label.definition"),
           Opt(Text("color")), Texts("scope"), Opt(Bool("multiple")), Text("createdAt"),
           Struct("valueType")>>)
Unmarshal_LabelDefinition ==
  Reads(9, {Text("name"), Text("$type"), Ptr(Text("color")), Texts("scope"),
           Ptr(Bool("multiple")), Text("createdAt"), Struct("valueType")})
Marshal_LabelDefinition_ValueType ==
  Writes(3, {"enum"}, <<Opt(Texts("enum")), Text("type"), Text("format")>>)
Unmarshal_LabelDefinition_ValueType ==
  Reads(6, {Texts("enum"), Text("type"), Text("format")})
Marshal_LabelOp ==
  Writes(5, {}, <<Structs("add"), Const("sh.tangled.label.op"), Structs("delete"),
           Text("subject"), Text("performedAt")>>)
Unmarshal_LabelOp ==
  Reads(11, {Structs("add"), Text("$type"), Structs("delete"), Text("subject"),
           Text("performedAt")})
Marshal_LabelOp_Operand ==
  Writes(2, {}, <<Text("key"), Text("value")>>)
Unmarshal_LabelOp_Operand ==
  Reads(5, {Text("key"), Text("value")})
Marshal_Pipeline ==
  Writes(3, {}, <<Const("sh.tangled.pipeline"), Structs("workflows"),
           Struct("triggerMetadata")>>)
Unmarshal_Pipeline ==
  Reads(15, {Text("$type"), Structs("workflows"), Struct("triggerMetadata")})
Marshal_Pipeline_CloneOpts ==
  Writes(3, {}, <<Bool("skip"), Int64("depth"), Bool("submodules")>>)
Unmarshal_Pipeline_CloneOpts ==
  Reads(10, {Bool("skip"), Int64("depth"), Bool("submodules")})
Marshal_Pipeline_ManualTriggerData ==
  Writes(1, {"inputs"}, <<Opt(Structs("inputs"))>>)
Unmarshal_Pipeline_ManualTriggerData ==
  Reads(6, {Structs("inputs")})
Marshal_Pipeline_Pair ==
  Writes(2, {}, <<Text("key"), Text("value")>>)
Unmarshal_Pipeline_Pair ==
  Reads(5, {Text("key"), Text("value")})
Marshal_Pipeline_PullRequestTriggerData ==
  Writes(4, {}, <<Text("action"), Text("sourceSha"), Text("sourceBranch"),
           Text("targetBranch")>>)
Unmarshal_Pipeline_PullRequestTriggerData ==
  Reads(12, {Text("action"), Text("sourceSha"), Text("sourceBranch"), Text("targetBranch")})
Marshal_Pipeline_PushTriggerData ==
  Writes(3, {}, <<Text("ref"), Text("newSha"), Text("oldSha")>>)
Unmarshal_Pipeline_PushTriggerData ==
  Reads(6, {Text("ref"), Text("newSha"), Text("oldSha")})
Marshal_PipelineStatus ==
  Writes(7, {"error", "exitCode"}, <<Const("sh.tangled.pipeline.status"), Opt(Text("error")),
           Text("status"), Opt(Int64("exitCode")), Text("pipeline"), Text("workflow"),
           Text("createdAt")>>)
Unmarshal_PipelineStatus ==
  Reads(9, {Text("$type"), Ptr(Text("error")), Text("status"), Ptr(Int64("exitCode")),
           Text("pipeline"), Text("workflow"), Text("createdAt")})
Marshal_Pipeline_TriggerMetadata ==
  Writes(5, {"manual", "pullRequest", "push"}, <<Text("kind"), Opt(Struct("push")),
           Struct("repo"), Opt(Struct("manual")), Opt(Struct("pullRequest"))>>)
Unmarshal_Pipeline_TriggerMetadata ==
  Reads(11, {Text("kind"), Struct("push"), Struct("repo"), Struct("manual"),
           Struct("pullRequest")})
Marshal_Pipeline_TriggerRepo ==
  Writes(4, {}, <<Text("did"), Text("knot"), Text("repo"), Text("defaultBranch")>>)
Unmarshal_Pipeline_TriggerRepo ==
  Reads(13, {Text("did"), Text("knot"), Text("repo"), Text("defaultBranch")})
Marshal_Pipeline_Workflow ==
  Writes(4, {}, <<Text("raw"), Text("name"), Struct("clone"), Text("engine")>>)
Unmarshal_Pipeline_Workflow ==
  Reads(6, {Text("raw"), Text("name"), Struct("clone"), Text("engine")})
Marshal_PublicKey ==
  Writes(4, {}, <<Text("key"), Text("name"), Const("sh.tangled.publicKey"), Text("createdAt")>>)
Unmarshal_PublicKey ==
  Reads(9, {Text("key"), Text("name"), Text("$type"), Text("createdAt")})
Marshal_Repo ==
  Writes(10, {"description", "labels", "source", "spindle", "topics", "website"},
         <<Text("knot"), Text("name"), Const("sh.tangled.repo"), Opt(Texts("labels")),
           Opt(Text("source")), Opt(Texts("topics")), Opt(Text("spindle")),
           Opt(Text("website")), Text("createdAt"), Opt(Text("description"))>>)
Unmarshal_Repo ==
  Reads(11, {Text("knot"), Text("name"), Text("$type"), Texts("labels"), Ptr(Text("source")),
           Texts("topics"), Ptr(Text("spindle")), Ptr(Text("website")), Text("createdAt"),
           Ptr(Text("description"))})
Marshal_RepoArtifact ==
  Writes(6, {"tag"}, <<Opt(Bytes("tag")), Text("name"), Text("repo"),
           Const("sh.tangled.repo.artifact"), Struct("artifact"), Text("createdAt")>>)
Unmarshal_RepoArtifact ==
  Reads(9, {Bytes("tag"), Text("name"), Text("repo"), Text("$type"), Struct("artifact"),
           Text("createdAt")})
Marshal_RepoCollaborator ==
  Writes(4, {}, <<Text("repo"), Const("sh.tangled.repo.collaborator"), Text("subject"),
           Text("createdAt")>>)
Unmarshal_RepoCollaborator ==
  Reads(9, {Text("repo"), Text("$type"), Text("subject"), Text("createdAt")})
Marshal_RepoDiscussion ==
  Writes(8, {"body", "mentions", "references", "targetChannel"},
         <<Opt(Text("body")),
           Text("repo"), Const("sh.tangled.repo.discussion"), Text("title"),
           Opt(Texts("mentions")), Text("createdAt"), Opt(Texts("references")),
           Opt(Text("targetChannel"))>>)
Unmarshal_RepoDiscussion ==
  Reads(13, {Ptr(Text("body")), Text("repo"), Text("$type"), Text("title"), Texts("mentions"),
           Text("createdAt"), Texts("references"), Ptr(Text("targetChannel"))})
Marshal_RepoDiscussionComment ==
  Writes(7, {"mentions", "references", "replyTo"}, <<Text("body"),
           Const("sh.tangled.repo.discussion.comment"), Opt(Text("replyTo")),
           Opt(Texts("mentions")), Text("createdAt"), Text("discussion"),
           Opt(Texts("references"))>>)
Unmarshal_RepoDiscussionComment ==
  Reads(10, {Text("body"), Text("$type"), Ptr(Text("replyTo")), Texts("mentions"),
           Text("createdAt"), Text("discussion"), Texts("references")})
Marshal_RepoDiscussionState ==
  Writes(4, {}, <<Const("sh.tangled.repo.discussion.state"), Text("state"), Text("createdAt"),
           Text("discussion")>>)
Unmarshal_RepoDiscussionState ==
  Reads(10, {Text("$type"), Text("state"), Text("createdAt"), Text("discussion")})
Marshal_RepoIssue ==
  Writes(7, {"body", "mentions", "references"}, <<Opt(Text("body")), Text("repo"),
           Const("sh.tangled.repo.issue"), Text("title"), Opt(Texts("mentions")),
           Text("createdAt"), Opt(Texts("references"))>>)
Unmarshal_RepoIssue ==
  Reads(10, {Ptr(Text("body")), Text("repo"), Text("$type"), Text("title"), Texts("mentions"),
           Text("createdAt"), Texts("references")})
Marshal_RepoIssueComment ==
  Writes(7, {"mentions", "references", "replyTo"}, <<Text("body"),
           Const("sh.tangled.repo.issue.comment"), Text("issue"), Opt(Text("replyTo")),
           Opt(Texts("mentions")), Text("createdAt"), Opt(Texts("references"))>>)
Unmarshal_RepoIssueComment ==
  Reads(10, {Text("body"), Text("$type"), Text("issue"), Ptr(Text("replyTo")),
           Texts("mentions"), Text("createdAt"), Texts("references")})
Marshal_RepoIssueState ==
  Writes(3, {}, <<Const("sh.tangled.repo.issue.state"), Text("issue"), Text("state")>>)
Unmarshal_RepoIssueState ==
  Reads(5, {Text("$type"), Text("issue"), Text("state")})
Marshal_RepoPull ==
  Writes(10, {"body", "mentions", "patch", "references", "source"},
         <<Opt(Text("body")), Const("sh.tangled.repo.pull"), Opt(Text("patch")), Text("title"),
           Opt(Struct("source")), Struct("target"), Opt(Texts("mentions")), Text("createdAt"),
           Struct("patchBlob"), Opt(Texts("references"))>>)
Unmarshal_RepoPull ==
  Reads(10, {Ptr(Text("body")), Text("$type"), Ptr(Text("patch")), Text("title"),
           Struct("source"), Struct("target"), Texts("mentions"), Text("createdAt"),
           Struct("patchBlob"), Texts("references")})
Marshal_RepoPullComment ==
  Writes(6, {"mentions", "references"}, <<Text("body"), Text("pull"),
           Const("sh.tangled.repo.pull.comment"), Opt(Texts("mentions")), Text("createdAt"),
           Opt(Texts("references"))>>)
Unmarshal_RepoPullComment ==
  Reads(10, {Text("body"), Text("pull"), Text("$type"), Texts("mentions"), Text("createdAt"),
           Texts("references")})
Marshal_RepoPull_Source ==
  Writes(3, {"repo"}, <<Text("sha"), Opt(Text("repo")), Text("branch")>>)
Unmarshal_RepoPull_Source ==
  Reads(6, {Text("sha"), Ptr(Text("repo")), Text("branch")})
Marshal_RepoPullStatus ==
  Writes(3, {}, <<Text("pull"), Const("sh.tangled.repo.pull.status"), Text("status")>>)
Unmarshal_RepoPullStatus ==
  Reads(6, {Text("pull"), Text("$type"), Text("status")})
Marshal_RepoPull_Target ==
  Writes(2, {}, <<Text("repo"), Text("branch")>>)
Unmarshal_RepoPull_Target ==
  Reads(6, {Text("repo"), Text("branch")})
Marshal_Spindle ==
  Writes(2, {}, <<Const("sh.tangled.spindle"), Text("createdAt")>>)
Unmarshal_Spindle ==
  Reads(9, {Text("$type"), Text("createdAt")})
Marshal_SpindleMember ==
  Writes(4, {}, <<Const("sh.tangled.spindle.member"), Text("subject"), Text("instance"),
           Text("createdAt")>>)
Unmarshal_SpindleMember ==
  Reads(9, {Text("$type"), Text("subject"), Text("instance"), Text("createdAt")})
Marshal_String ==
  Writes(5, {}, <<Const("sh.tangled.string"), Text("contents"), Text("filename"),
           Text("createdAt"), Text("description")>>)
Unmarshal_String ==
  Reads(11, {Text("$type"), Text("contents"), Text("filename"), Text("createdAt"),
           Text("description")})

Codecs ==
  [ActorProfile |-> Codec(Marshal_ActorProfile, Unmarshal_ActorProfile),
   FeedReaction |-> Codec(Marshal_FeedReaction, Unmarshal_FeedReaction),
   FeedStar |-> Codec(Marshal_FeedStar, Unmarshal_FeedStar),
   GitRefUpdate |-> Codec(Marshal_GitRefUpdate, Unmarshal_GitRefUpdate),
   GitRefUpdate_CommitCountBreakdown |-> Codec(Marshal_GitRefUpdate_CommitCountBreakdown, Unmarshal_GitRefUpdate_CommitCountBreakdown),
   GitRefUpdate_IndividualEmailCommitCount |-> Codec(Marshal_GitRefUpdate_IndividualEmailCommitCount, Unmarshal_GitRefUpdate_IndividualEmailCommitCount),
   GitRefUpdate_IndividualLanguageSize |-> Codec(Marshal_GitRefUpdate_IndividualLanguageSize, Unmarshal_GitRefUpdate_IndividualLanguageSize),
   GitRefUpdate_LangBreakdown |-> Codec(Marshal_GitRefUpdate_LangBreakdown, Unmarshal_GitRefUpdate_LangBreakdown),
   GitRefUpdate_Meta |-> Codec(Marshal_GitRefUpdate_Meta, Unmarshal_GitRefUpdate_Meta),
   PijulRefUpdate |-> Codec(Marshal_PijulRefUpdate, Unmarshal_PijulRefUpdate),
   GraphFollow |-> Codec(Marshal_GraphFollow, Unmarshal_GraphFollow),
   Knot |-> Codec(Marshal_Knot, Unmarshal_Knot),
   KnotMember |-> Codec(Marshal_KnotMember, Unmarshal_KnotMember),
   LabelDefinition |-> Codec(Marshal_LabelDefinition, Unmarshal_LabelDefinition),
   LabelDefinition_ValueType |-> Codec(Marshal_LabelDefinition_ValueType, Unmarshal_LabelDefinition_ValueType),
   LabelOp |-> Codec(Marshal_LabelOp, Unmarshal_LabelOp),
   LabelOp_Operand |-> Codec(Marshal_LabelOp_Operand, Unmarshal_LabelOp_Operand),
   Pipeline |-> Codec(Marshal_Pipeline, Unmarshal_Pipeline),
   Pipeline_CloneOpts |-> Codec(Marshal_Pipeline_CloneOpts, Unmarshal_Pipeline_CloneOpts),
   Pipeline_ManualTriggerData |-> Codec(Marshal_Pipeline_ManualTriggerData, Unmarshal_Pipeline_ManualTriggerData),
   Pipeline_Pair |-> Codec(Marshal_Pipeline_Pair, Unmarshal_Pipeline_Pair),
   Pipeline_PullRequestTriggerData |-> Codec(Marshal_Pipeline_PullRequestTriggerData, Unmarshal_Pipeline_PullRequestTriggerData),
   Pipeline_PushTriggerData |-> Codec(Marshal_Pipeline_PushTriggerData, Unmarshal_Pipeline_PushTriggerData),
   PipelineStatus |-> Codec(Marshal_PipelineStatus, Unmarshal_PipelineStatus),
   Pipeline_TriggerMetadata |-> Codec(Marshal_Pipeline_TriggerMetadata, Unmarshal_Pipeline_TriggerMetadata),
   Pipeline_TriggerRepo |-> Codec(Marshal_Pipeline_TriggerRepo, Unmarshal_Pipeline_TriggerRepo),
   Pipeline_Workflow |-> Codec(Marshal_Pipeline_Workflow, Unmarshal_Pipeline_Workflow),
   PublicKey |-> Codec(Marshal_PublicKey, Unmarshal_PublicKey),
   Repo |-> Codec(Marshal_Repo, Unmarshal_Repo),
   RepoArtifact |-> Codec(Marshal_RepoArtifact, Unmarshal_RepoArtifact),
   RepoCollaborator |-> Codec(Marshal_RepoCollaborator, Unmarshal_RepoCollaborator),
   RepoDiscussion |-> Codec(Marshal_RepoDiscussion, Unmarshal_RepoDiscussion),
   RepoDiscussionComment |-> Codec(Marshal_RepoDiscussionComment, Unmarshal_RepoDiscussionComment),
   RepoDiscussionState |-> Codec(Marshal_RepoDiscussionState, Unmarshal_RepoDiscussionState),
   RepoIssue |-> Codec(Marshal_RepoIssue, Unmarshal_RepoIssue),
   RepoIssueComment |-> Codec(Marshal_RepoIssueComment, Unmarshal_RepoIssueComment),
   RepoIssueState |-> Codec(Marshal_RepoIssueState, Unmarshal_RepoIssueState),
   RepoPull |-> Codec(Marshal_RepoPull, Unmarshal_RepoPull),
   RepoPullComment |-> Codec(Marshal_RepoPullComment, Unmarshal_RepoPullComment),
   RepoPull_Source |-> Codec(Marshal_RepoPull_Source, Unmarshal_RepoPull_Source),
   RepoPullStatus |-> Codec(Marshal_RepoPullStatus, Unmarshal_RepoPullStatus),
   RepoPull_Target |-> Codec(Marshal_RepoPull_Target, Unmarshal_RepoPull_Target),
   Spindle |-> Codec(Marshal_Spindle, Unmarshal_Spindle),
   SpindleMember |-> Codec(Marshal_SpindleMember, Unmarshal_SpindleMember),
   String |-> Codec(Marshal_String, Unmarshal_String)]
============================================================================
