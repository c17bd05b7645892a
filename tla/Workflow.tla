------------------------------ MODULE Workflow ------------------------------
(***************************************************************************)
(* The workflow compiler (workflow/def.go, workflow/compile.go): which of  *)
(* the workflow files of a commit a trigger runs, and what is reported of  *)
(* the others.                                                             *)
(*                                                                         *)
(* A raw file is [name, parses, engine, when, clone, raw]; `raw' is what   *)
(* the engine will read.  `when' is a sequence of constraints [event,      *)
(* branch, tag]: a set of trigger kinds and two sequences of patterns.  A  *)
(* pattern is the set of names doublestar.Match accepts for it, or         *)
(* BadPattern.  A trigger is [kind, type, name]: for a push the type       *)
(* ("branch", "tag" or "other") and short name of its ref, for a pull      *)
(* request its target branch.                                              *)
(***************************************************************************)
EXTENDS Naturals, FiniteSetsExt, Sequences

BadPattern == {"[bad pattern"}

(* The answer of the first element of seq that does not answer "no". *)
FirstAnswer(seq, Answer(_)) ==
  LET decisive == {i \in DOMAIN seq : Answer(seq[i]) # "no"}
  IN  IF decisive = {} THEN "no" ELSE Answer(seq[Min(decisive)])

matchesPattern(name, patterns) ==
  FirstAnswer(patterns,
              LAMBDA p : IF p = BadPattern THEN "error" ELSE IF name \in p THEN "yes" ELSE "no")

(* Mutant: tags are matched like branches. *)
MatchRef_Branches(c, trigger) == matchesPattern(trigger.name, c.branch)

MatchRef(c, trigger) ==
  CASE trigger.type = "branch" -> matchesPattern(trigger.name, c.branch)
    [] trigger.type = "tag"    -> matchesPattern(trigger.name, c.tag)
    [] OTHER                   -> "no"

(* The patterns are tried even when the event does not match. *)
MatchConstraint(c, trigger) ==
  LET matched == MatchRef(c, trigger)
  IN  IF matched = "yes" /\ trigger.kind \notin c.event THEN "no" ELSE matched

Match(w, trigger) ==
  IF trigger.kind = "manual" \/ w.when = <<>> THEN "yes"
  ELSE FirstAnswer(w.when, LAMBDA c : MatchConstraint(c, trigger))

(* Parse: the files FromFile understands. *)
Parsed(files) == {f \in files : f.parses}

(* compileWorkflow: what becomes of one parsed file. *)
compileWorkflow(w, trigger) ==
  CASE Match(w, trigger) = "error" -> "failed to execute workflow"
    [] Match(w, trigger) = "no"    -> "skipped"
    [] w.engine = ""               -> "missing engine"
    [] OTHER                       -> "compiled"

(* analyzeCloneOptions: a warning, which does not keep the file from running. *)
BadCloneOptions(w) == w.clone.skip /\ (w.clone.submodules \/ w.clone.depth > 0)

Compile(files, trigger) ==
  LET With(outcomes) == {w \in Parsed(files) : compileWorkflow(w, trigger) \in outcomes}
  IN  [workflows |-> {[name |-> w.name, engine |-> w.engine, raw |-> w.raw] : w \in With({"compiled"})},
       errors    |-> {f.name : f \in files \ Parsed(files)}
                     \cup {w.name : w \in With({"failed to execute workflow", "missing engine"})},
       skipped   |-> {w.name : w \in With({"skipped"})},
       warnings  |-> {w.name : w \in {v \in With({"compiled", "missing engine"}) :
                                        BadCloneOptions(v)}}]

=============================================================================
