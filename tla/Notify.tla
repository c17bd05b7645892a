------------------------------- MODULE Notify -------------------------------
(***************************************************************************)
(* Who is told of an event (appview/notify/db/db.go, models/notifications.go *)
(* and the threads of models/issue.go).  An event names its kind, its actor *)
(* and the users it mentions; w is what the database holds when the        *)
(* notifier runs: the owner and collaborators of the repository, the author *)
(* and comments of the issue or pull, and the rows of notification          *)
(* preferences.  The result is a bag in the form of a set of                *)
(* <<call, user, type>>: the call of notifyEvent that wrote the row tells   *)
(* two equal notifications apart.                                           *)
(***************************************************************************)
EXTENDS Naturals, FiniteSets

CONSTANTS Account, MaxMentions,
          NoRow   \* no row of preferences

ASSUME MentionsAssumption == MaxMentions \in Nat \ {0} /\ IsFiniteSet(Account)

Pref == {"RepoStarred", "IssueCreated", "IssueCommented", "PullCreated", "PullCommented",
         "Followed", "UserMentioned", "PullMerged", "IssueClosed"}
DefaultNotificationPreferences == [p \in Pref |-> TRUE]

(* reopening has the preference of creation, closing a pull that of merging *)
PrefOf(type) ==
  CASE type = "IssueReopen" -> "IssueCreated"
    [] type = "PullReopen" -> "PullCreated"
    [] type = "PullClosed" -> "PullMerged"
    [] OTHER -> type

ShouldNotify(prefs, type) == prefs[PrefOf(type)]

Preferences(w, u) == IF w.prefs[u] = NoRow THEN DefaultNotificationPreferences ELSE w.prefs[u]

notifyEvent(w, call, actor, recipients, type) ==
  IF type = "UserMentioned" /\ Cardinality(recipients) > MaxMentions THEN {}
  ELSE {<<call, u, type>> : u \in {v \in recipients \ {actor} : ShouldNotify(Preferences(w, v), type)}}

---------------------------------------------------------------------------
(* threads: a comment is [id, by, parent], parent 0 at the top level *)

(* everybody on the thread that starts with the comment parent: none if the *)
(* parent is itself a reply                                                 *)
ThreadParticipants(w, parent) ==
  {c.by : c \in {d \in w.comments :
     /\ \E t \in w.comments : t.id = parent /\ t.parent = 0
     /\ d.id = parent \/ d.parent = parent}}

Participants(w) == {w.author} \cup {c.by : c \in w.comments}

Mentions(w, e) == notifyEvent(w, 2, e.actor, e.mentions, "UserMentioned")

NewStar(w, e) == notifyEvent(w, 1, e.actor, {w.owner}, "RepoStarred")

NewFollow(w, e) == notifyEvent(w, 1, e.actor, {w.author}, "Followed")

NewIssue(w, e) ==
  notifyEvent(w, 1, e.actor, ({w.owner} \cup w.collaborators) \ e.mentions, "IssueCreated")
    \cup Mentions(w, e)

(* mutant: those already mentioned stay among the recipients *)
NewIssueComment_KeepsMentioned(w, e) ==
  LET thread == IF e.parent # 0 THEN ThreadParticipants(w, e.parent) ELSE {w.author}
  IN notifyEvent(w, 1, e.actor, {w.owner} \cup thread, "IssueCommented") \cup Mentions(w, e)

NewIssueComment(w, e) ==
  LET thread == IF e.parent # 0 THEN ThreadParticipants(w, e.parent) ELSE {w.author}
  IN notifyEvent(w, 1, e.actor, ({w.owner} \cup thread) \ e.mentions, "IssueCommented")
       \cup Mentions(w, e)

NewIssueState(w, e) ==
  notifyEvent(w, 1, e.actor, {w.owner} \cup w.collaborators \cup Participants(w),
              IF e.state = "open" THEN "IssueReopen" ELSE "IssueClosed")

NewPull(w, e) == notifyEvent(w, 1, e.actor, {w.owner} \cup w.collaborators, "PullCreated")

NewPullComment(w, e) ==
  notifyEvent(w, 1, e.actor, ({w.owner} \cup Participants(w)) \ e.mentions, "PullCommented")
    \cup Mentions(w, e)

NewPullState(w, e) ==
  notifyEvent(w, 1, e.actor, {w.owner} \cup w.collaborators \cup Participants(w),
              CASE e.state = "closed" -> "PullClosed"
                [] e.state = "open" -> "PullReopen"
                [] e.state = "merged" -> "PullMerged")

Notified(w, e) ==
  CASE e.kind = "star" -> NewStar(w, e)
    [] e.kind = "follow" -> NewFollow(w, e)
    [] e.kind = "issue" -> NewIssue(w, e)
    [] e.kind = "issueComment" -> NewIssueComment(w, e)
    [] e.kind = "issueState" -> NewIssueState(w, e)
    [] e.kind = "pull" -> NewPull(w, e)
    [] e.kind = "pullComment" -> NewPullComment(w, e)
    [] e.kind = "pullState" -> NewPullState(w, e)
============================================================================
