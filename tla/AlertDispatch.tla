----------------------------- MODULE AlertDispatch -----------------------------
(***************************************************************************)
(* LinearSlackOrchestratorAdapter (src/adapters/                           *)
(* linearSlackOrchestratorAdapter.ts): alerts are routed by entropy and    *)
(* resonance to a Slack message, a Linear issue or both.  Dispatches       *)
(* overlap, a call to either tool may fail (before or after the tool did   *)
(* what it was asked), and the caller dispatches an alert again at will.   *)
(***************************************************************************)
EXTENDS BaseAdapter, Sequences, SequencesExt

CONSTANTS
    Urgent,         \* subjects whose entropy reaches linearOnlyEntropyFloor
    MaxDispatches   \* bound: dispatches in a run

ASSUME AlertAssumption == Urgent \subseteq Subjects /\ MaxDispatches \in Nat

VARIABLES
    targets,   \* the tools the adapter knows an address for
    alerts,    \* alerts[d]: the d-th dispatch
    messages,  \* dispatches whose message is on Slack
    issues     \* issues filed: by which dispatch, and the anchors on them

alertVars == <<memory, targets, alerts, messages, issues>>

AlertInit ==
    /\ memory = {} /\ alerts = <<>> /\ messages = {} /\ issues = <<>>
    /\ targets \in SUBSET {"slack", "linear"}

-----------------------------------------------------------------------------
ActionFor(x, degree) ==
    CASE degree = "high" -> {"slack"}
      [] degree = "none" /\ x \in Urgent -> {"linear"}
      [] OTHER -> {"slack", "linear"}

(* generate(), to the first await of callPlatform(). *)
Dispatch(x) ==
    /\ Len(alerts) < MaxDispatches
    /\ LET do == ActionFor(x, Felt(x))
       IN  alerts' = Append(alerts,
                [about |-> x, do |-> do, issue |-> 0,
                 at |-> IF "slack" \in do THEN "slack" ELSE "linear"])
    /\ Prepare(x, Len(alerts) + 1)
    /\ UNCHANGED <<targets, messages, issues>>

(* The message is on Slack, and the dispatch goes on or is done. *)
Post(d) ==
    /\ alerts[d].at = "slack" /\ "slack" \in targets
    /\ messages' = messages \cup {d}
    /\ alerts' = [alerts EXCEPT ![d].at = IF "linear" \in alerts[d].do THEN "linear" ELSE "done"]
    /\ UNCHANGED <<memory, targets, issues>>

FileIssue(d) ==
    /\ alerts[d].at = "linear" /\ "linear" \in targets
    /\ issues' = Append(issues, [by |-> d, anchors |-> {}])
    /\ alerts' = [alerts EXCEPT ![d].at = "comment", ![d].issue = Len(issues) + 1]
    /\ UNCHANGED <<memory, targets, messages>>

(* Mutant of IssueOf: the anchor goes to the issue filed last. *)
IssueFiledLast(d) == Len(issues)
IssueOf(d) == alerts[d].issue

(* The Merkle root of the dispatch is appended to its issue. *)
Anchor(d) ==
    /\ alerts[d].at = "comment"
    /\ issues' = [issues EXCEPT ![IssueOf(d)].anchors = @ \cup {d}]
    /\ alerts' = [alerts EXCEPT ![d].at = "done"]
    /\ UNCHANGED <<memory, targets, messages>>

(* A tool has no address or answers with an error: the dispatch rejects,   *)
(* whatever it has done so far stays done.                                 *)
Reject(d) ==
    /\ alerts[d].at \in {"slack", "linear", "comment"}
    /\ alerts' = [alerts EXCEPT ![d].at = "failed"]
    /\ UNCHANGED <<memory, targets>>

(* Mutant of CallFails: the adapter takes a failed comment for a success. *)
CommentFailsSilently(d) ==
    /\ alerts[d].at = "comment"
    /\ alerts' = [alerts EXCEPT ![d].at = "done"]
    /\ UNCHANGED <<memory, targets, messages, issues>>
CallFails(d) == Reject(d) /\ UNCHANGED <<messages, issues>>

(* The tool did what it was asked, only its answer is lost. *)
AnswerLost(d) ==
    /\ Reject(d)
    /\ CASE alerts[d].at = "slack" /\ "slack" \in targets ->
                messages' = messages \cup {d} /\ UNCHANGED issues
         [] alerts[d].at = "linear" /\ "linear" \in targets ->
                issues' = Append(issues, [by |-> d, anchors |-> {}]) /\ UNCHANGED messages
         [] alerts[d].at = "comment" ->
                /\ issues' = [issues EXCEPT ![IssueOf(d)].anchors = @ \cup {d}]
                /\ UNCHANGED messages
         [] OTHER -> FALSE

AlertNext ==
    \/ \E x \in Subjects : Dispatch(x)
    \/ \E d \in DOMAIN alerts : \/ Post(d) \/ FileIssue(d) \/ Anchor(d)
                                \/ CallFails(d) \/ AnswerLost(d)

AlertSpec == AlertInit /\ [][AlertNext]_alertVars

-----------------------------------------------------------------------------
(* Properties. *)

AlertTypeOK ==
    /\ MemoryTypeOK
    /\ targets \subseteq {"slack", "linear"}
    /\ \A d \in DOMAIN alerts :
        /\ alerts[d].about \in Subjects /\ alerts[d].issue \in 0..Len(issues)
        /\ alerts[d].do \in (SUBSET {"slack", "linear"}) \ {{}}
        /\ alerts[d].at \in {"slack", "linear", "comment", "done", "failed"}
    /\ messages \subseteq DOMAIN alerts
    /\ \A i \in DOMAIN issues :
        issues[i].by \in DOMAIN alerts /\ issues[i].anchors \subseteq DOMAIN alerts

(* "the Merkle root of THIS dispatch is appended as a comment so the issue *)
(* is replayable": however dispatches overlap, an issue carries no anchor  *)
(* but its own.                                                            *)
AnchorsMatchIssues ==
    \A i \in DOMAIN issues : issues[i].anchors \subseteq {issues[i].by}

(* A dispatch that is answered has done all its action says: the message   *)
(* is posted, the issue filed and anchored.                                *)
AnswersAreComplete ==
    \A d \in DOMAIN alerts : alerts[d].at = "done" =>
        /\ "slack" \in alerts[d].do => d \in messages
        /\ "linear" \in alerts[d].do =>
                \E i \in DOMAIN issues : issues[i].by = d /\ d \in issues[i].anchors

(* "don't spam Slack until a human acks": a message about an urgent alert  *)
(* comes after an earlier dispatch about something like it.                *)
NovelAlertsStayOffSlack ==
    \A d \in messages : alerts[d].about \in Urgent =>
        \E e \in 1..(d - 1) : Likeness[alerts[d].about][alerts[e].about] # "none"

(* Anchors match their issues, answered alerts are complete, and novel     *)
(* ones stay off Slack.                                                    *)
AlertInv ==
    AlertTypeOK /\ AnchorsMatchIssues /\ AnswersAreComplete /\ NovelAlertsStayOffSlack
=============================================================================
