----------------------------- MODULE Algorithms -----------------------------
(***************************************************************************)
(* The pure algorithms of the system, run one at a time: a behaviour picks  *)
(* an algorithm and an input, computes, and stops.  A record is encoded     *)
(* (Codec), passes through software that may reorder its fields or add one  *)
(* of its own, and is decoded; two rounds of a pull request are compared    *)
(* and the patches of a series are combined (Patchutil); an event is fanned *)
(* out to the users it concerns (Notify); a workflow file is compiled for a *)
(* trigger (Workflow).                                                      *)
(***************************************************************************)
EXTENDS Codec, Patchutil, Notify, Workflow

CONSTANTS LongText, Foreign

VARIABLES
  job,   \* the algorithm and its input
  stage, \* "in", then "wire" for a record in its encoded form, then "out"
  out    \* what has been computed

algorithmVars == <<job, stage, out>>

---------------------------------------------------------------------------
(* inputs *)

Fields(t) == ToSet(Codecs[t].w.fields)

(* values of type t: the least or the greatest ones with two fields varied  *)
Extreme(f, pick) ==
  CASE pick = "least" -> (IF Nil \in Value(f) THEN Nil
                          ELSE IF f.kind = "bool" THEN FALSE
                          ELSE IF f.kind = "int" THEN Min(Ints) ELSE 0)
    [] pick = "full" -> (CASE f.kind = "bool" -> TRUE
                           [] f.kind = "int" -> Max(Ints)
                           [] f.kind = "struct" -> Inner
                           [] f.kind = "structs" -> <<Inner>>
                           [] f.kind = "texts" -> <<0>>
                           [] OTHER -> MaxText)

Records(t) ==
  LET keys == {f.key : f \in Fields(t)}
      Of(k) == CHOOSE f \in Fields(t) : f.key = k
      Base(pick) == [k \in keys |-> Extreme(Of(k), pick)]
  IN UNION {{[Base(pick) EXCEPT ![f.key] = a, ![g.key] = b] : a \in Value(f), b \in Value(g)} :
              pick \in {"least", "full"}, f \in Fields(t), g \in Fields(t)}

(* texts two of whose lines were deleted or replaced *)
Edited(t) ==
  LET other(l) == CHOOSE m \in Line : m # l
      cut(u, i) == RemoveAt(u, i)
      put(u, i) == ReplaceAt(u, i, other(u[i]))
      once(u) == {u} \cup {cut(u, i) : i \in DOMAIN u} \cup {put(u, i) : i \in DOMAIN u}
  IN UNION {once(u) : u \in once(t)}

Rounds == FileText \X FileText \X FileText
            \cup {<<LongText, r1, r2>> : r1 \in Edited(LongText), r2 \in Edited(LongText)}

DiffTable == [p \in {<<r[1], r[2]>> : r \in Rounds} \cup {<<r[2], r[3]>> : r \in Rounds} |-> Diffs(p[1], p[2])]

Threads == {{[id |-> 1, by |-> a, parent |-> 0], [id |-> 2, by |-> b, parent |-> 1],
             [id |-> 3, by |-> a, parent |-> 2]} : a, b \in Account}
QuietPrefs == {[p \in Pref |-> FALSE], [DefaultNotificationPreferences EXCEPT !["UserMentioned"] = FALSE]}

Worlds ==
  [owner : {CHOOSE u \in Account : TRUE}, author : Account, collaborators : SUBSET Account,
   comments : {{}} \cup Threads,
   prefs : {f \in [Account -> {NoRow} \cup QuietPrefs] : Cardinality({u \in Account : f[u] # NoRow}) <= 1}]

Events ==
  LET Event(kinds, mentions, parents, states) ==
        [kind : kinds, actor : Account, mentions : mentions, parent : parents, state : states]
  IN Event({"star", "follow", "pull"}, {{}}, {0}, {"open"})
       \cup Event({"issue", "pullComment"}, SUBSET Account, {0}, {"open"})
       \cup Event({"issueComment"}, SUBSET Account, 0..3, {"open"})
       \cup Event({"issueState", "pullState"}, {{}}, {0}, {"open", "closed"})
       \cup Event({"pullState"}, {{}}, {0}, {"merged"})

WorkflowFiles ==
  LET main == {"main"}
      constraints == [event : {{"push"}, {"pull_request"}}, tag : {<<>>, <<{"v1"}>>},
                      branch : {<<>>, <<main>>, <<BadPattern>>, <<main, BadPattern>>,
                                <<BadPattern, main>>}]
  IN [name : {"test"}, parses : BOOLEAN, engine : {"", "nixery"}, raw : {"valid"},
      when : {<<>>} \cup {<<c>> : c \in constraints} \cup constraints \X constraints,
      clone : [skip : {TRUE}, submodules : BOOLEAN, depth : {0}]]

Triggers ==
  [kind : {"push"}, type : {"branch", "tag", "other"}, name : {"main", "v1"}]
    \cup [kind : {"pull_request"}, type : {"branch"}, name : {"main", "v1"}]
    \cup [kind : {"manual"}, type : {"other"}, name : {"main"}]

---------------------------------------------------------------------------

AlgorithmInit ==
  /\ stage = "in" /\ out = Nil
  /\ \/ \E t \in DOMAIN Codecs : \E v \in Records(t) :
          job = [alg |-> "codec", type |-> t, val |-> v]
     \/ \E r \in Rounds : \E p \in DiffTable[<<r[1], r[2]>>], q \in DiffTable[<<r[1], r[3]>>] :
          job = [alg |-> "interdiff", texts |-> r, p1 |-> p, p2 |-> q]
     \/ \E r \in Rounds : \E p \in DiffTable[<<r[1], r[2]>>], q \in DiffTable[<<r[2], r[3]>>] :
          job = [alg |-> "combine", texts |-> r, p1 |-> p, p2 |-> q]
     \/ \E w \in Worlds, e \in Events :
          job = [alg |-> "notify", world |-> w, event |-> e]
     \/ \E f \in WorkflowFiles, t \in Triggers :
          job = [alg |-> "compile", file |-> f, trigger |-> t]

Finish(x) == stage' = "out" /\ out' = x /\ UNCHANGED job

MarshalCBOR ==
  /\ job.alg = "codec" /\ stage = "in"
  /\ stage' = "wire" /\ out' = Write(Codecs[job.type], job.val)
  /\ UNCHANGED job

(* external: other software rewrites the record *)
Relay ==
  /\ stage = "wire" /\ out.ok /\ out.pairs # <<>>
  /\ stage' = "relayed" /\ UNCHANGED job
  /\ \/ out' = [out EXCEPT !.pairs = Tail(@) \o <<Head(@)>>]
     \/ \E k \in Foreign, i \in 1..Len(out.pairs) :
          out' = [out EXCEPT !.n = @ + 1, !.pairs = InsertAt(@, i, [key |-> k, item |-> Item("text", 0)])]

UnmarshalCBOR ==
  /\ stage \in {"wire", "relayed"} /\ out.ok
  /\ Finish(Read(Codecs[job.type], out))

Compare ==
  /\ job.alg = "interdiff" /\ stage = "in"
  /\ Finish(Interdiff(job.p1, job.p2))

Combine ==
  /\ job.alg = "combine" /\ stage = "in"
  /\ Finish(CombineDiff(<<job.p1, job.p2>>))

FanOut ==
  /\ job.alg = "notify" /\ stage = "in"
  /\ Finish(Notified(job.world, job.event))

CompileFile ==
  /\ job.alg = "compile" /\ stage = "in"
  /\ Finish(Compile({job.file}, job.trigger))

AlgorithmNext == MarshalCBOR \/ Relay \/ UnmarshalCBOR \/ Compare \/ Combine \/ FanOut \/ CompileFile

AlgorithmSpec == AlgorithmInit /\ [][AlgorithmNext]_algorithmVars

---------------------------------------------------------------------------
(* properties *)

(* What a reader is given back: the value written, with its constant type,  *)
(* and with nil for a slice that was empty.                                 *)
Normal(f, v) ==
  CASE f.kind = "const" -> f.const
    [] f.kind \in {"texts", "structs"} /\ v # Nil -> (IF v = <<>> THEN Nil ELSE v)
    [] f.kind = "bytes" /\ v # Nil -> (IF v = 0 THEN Nil ELSE v)
    [] OTHER -> v

(* A record survives its encoding: what UnmarshalCBOR makes of the bytes of *)
(* MarshalCBOR is the value that was written, up to empty slices, with no   *)
(* byte left over, also when other software has reordered the fields or     *)
(* added one of its own; and encoding fails only for a field that is over   *)
(* the limits.                                                              *)
RecordsSurvive ==
  job.alg = "codec" =>
    /\ stage = "wire" /\ ~out.ok => \E f \in Fields(job.type) : TooLong(f, job.val[f.key])
    /\ stage = "out" =>
         /\ out.ok /\ out.left = 0
         /\ \A f \in Fields(job.type) : out.val[f.key] = Normal(f, job.val[f.key])

(* Comparing two rounds of a pull on one base: the rounds are never taken   *)
(* for rebased or broken, a file counts as unchanged exactly when the       *)
(* rounds agree on it, and a file one round alone touches is shown with the *)
(* patch that takes the first round's text to the second's.                 *)
InterdiffTellsRounds ==
  job.alg = "interdiff" /\ stage = "out" =>
    /\ out.status \notin {"rebased", "error"}
    /\ out.status \in {"unchanged", "absent"} <=> job.texts[2] = job.texts[3]
    /\ out.status # "changed" => ApplyTo(job.texts[2], out.patch) = job.texts[3]

(* Two patches in sequence: their combination is never given up for an     *)
(* error, and what it shows is true: on the old side lines of the base, on  *)
(* the new side lines of the result, each at its number, or blank lines for *)
(* the lines that neither patch shows.                                      *)
CombinedIsTrue ==
  job.alg = "combine" /\ stage = "out" =>
    LET Shows(image, text) == \A n \in DOMAIN image : image[n] = Blank \/ (n \in DOMAIN text /\ image[n] = text[n])
    IN /\ job.p1 # NoPatch /\ job.p2 # NoPatch => combinedText(job.p1, job.p2) # Failed
       /\ Shows(CreatePreImage(out), job.texts[1])
       /\ Shows(CreatePostImage(out), job.texts[3])

(* An event tells a user at most once and never tells its actor; the owner  *)
(* of the repository and the users mentioned, if their preferences are the  *)
(* default ones, hear of it, unless it mentions more users than allowed.    *)
ToldOnce ==
  job.alg = "notify" /\ stage = "out" =>
    LET w == job.world
        e == job.event
        Rows(u) == {r \in out : r[2] = u}
    IN /\ \A u \in Account : Cardinality(Rows(u)) <= 1
       /\ Rows(e.actor) = {}
       /\ \A u \in Account \ {e.actor} :
            /\ w.prefs[u] = NoRow
            /\ \/ u = w.owner /\ e.kind # "follow" /\ u \notin e.mentions
               \/ u \in e.mentions /\ e.kind \in {"issue", "issueComment", "pullComment"}
                    /\ Cardinality(e.mentions) <= MaxMentions
            => Rows(u) # {}

(* What the trigger satisfies, said without the order of the patterns. *)
Satisfies(trigger, c) ==
  /\ trigger.kind \in c.event
  /\ \/ trigger.type = "branch" /\ trigger.name \in UNION ToSet(c.branch)
     \/ trigger.type = "tag" /\ trigger.name \in UNION ToSet(c.tag)

(* No workflow file vanishes in the compiler: it is compiled, reported as   *)
(* an error or warned of as skipped, and one of these only; it runs only    *)
(* for a trigger that satisfies one of its constraints, is skipped only     *)
(* when none is, and an error has its cause in the file.                    *)
FilesAccounted ==
  job.alg = "compile" /\ stage = "out" =>
    LET f == job.file
        compiled == \E w \in out.workflows : w.name = f.name
        error    == f.name \in out.errors
        skipped  == f.name \in out.skipped
        satisfied == \E c \in ToSet(f.when) : Satisfies(job.trigger, c)
        bad == \E c \in ToSet(f.when) : BadPattern \in ToSet(c.branch) \cup ToSet(c.tag)
    IN /\ Cardinality({b \in {<<"c", compiled>>, <<"e", error>>, <<"s", skipped>>} : b[2]}) = 1
       /\ compiled => job.trigger.kind = "manual" \/ f.when = <<>> \/ satisfied
       /\ skipped => ~satisfied
       /\ error => ~f.parses \/ f.engine = "" \/ bad
       /\ out.warnings # {} => ~skipped
============================================================================
