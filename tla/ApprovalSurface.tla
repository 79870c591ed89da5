--------------------------- MODULE ApprovalSurface ---------------------------
(***************************************************************************)
(* From a question of the harness to the user's decision and back: the     *)
(* one pendingApproval slot of the workbench, the modal overlay of the     *)
(* shell over it (workbench-shell.ts, approval-overlay.ts), /approve, and  *)
(* resolveApproval behind the two queues of ProjectWorkbench.  What is     *)
(* asked is abstracted to an id and a content; which decision is taken is  *)
(* left out.  The request table of the adapter is in CodexRpc.             *)
(***************************************************************************)
EXTENDS Integers, Sequences, SequencesExt

CONSTANTS
  ApprovalIds, Contents,
  MaxAnnouncements,
  MaxDecisions        \* decisions the user takes

ASSUME ApprovalAssumption ==
  /\ "none" \notin ApprovalIds \union Contents
  /\ MaxAnnouncements \in Nat /\ MaxDecisions \in Nat

VARIABLES
  asked,              \* what the adapter holds open: the content of each id, or "none"
  announcements,
  arriving,           \* eventQueue: announcements and resolutions the workbench has not recorded
  pendingApproval,    \* the snapshot's
  overlay,            \* kind, the request it shows, and whether its decision is under way
  decisions,          \* commandQueue: the decisions, in order, each with what its user saw
                      \* (seen) and if its id has been recorded anew since (renewed): history
  decided             \* history: what the user saw, and what was pending when it was answered

approvalVars == <<asked, announcements, arriving, pendingApproval, overlay, decisions, decided>>

ApprovalRequests == [id : ApprovalIds, content : Contents]
NoRequest == [id |-> "none", content |-> "none"]
NoOverlay == [kind |-> "none", shown |-> NoRequest, resolving |-> FALSE]
Showing(request) == [kind |-> "approval", shown |-> request, resolving |-> FALSE]

-----------------------------------------------------------------------------
(* The harness.                                                            *)

\* A request may be announced again, with another content, while it is open.
AnnounceApproval(r) ==
  /\ asked[r.id] # r.content
  /\ announcements < MaxAnnouncements /\ announcements' = announcements + 1
  /\ asked' = [asked EXCEPT ![r.id] = r.content]
  /\ arriving' = Append(arriving, [kind |-> "requested", request |-> r])
  /\ UNCHANGED <<pendingApproval, overlay, decisions, decided>>

\* respondToApproval ends when the harness says that the request is resolved.
SettleApproval(id) ==
  /\ asked[id] # "none"
  /\ arriving' = Append(arriving, [kind |-> "resolved", request |-> [id |-> id, content |-> asked[id]]])
  /\ asked' = [asked EXCEPT ![id] = "none"]
  /\ decisions' = [i \in DOMAIN decisions |->
                     IF decisions[i].stage = "sent" /\ decisions[i].id = id
                     THEN [decisions[i] EXCEPT !.stage = "answered"] ELSE decisions[i]]
  /\ UNCHANGED <<announcements, pendingApproval, overlay, decided>>

-----------------------------------------------------------------------------
(* The workbench and its subscriber.                                       *)

\* The subscription of the shell on a snapshot whose pending approval is r.
Surfaced(r) ==
  CASE r # NoRequest /\ overlay.kind = "none" -> Showing(r)
    [] r = NoRequest /\ overlay.kind = "approval" -> NoOverlay
    [] OTHER -> overlay

\* A decision once event e is recorded: one event less to wait for, and perhaps renewed.
AfterRecording(d, e) ==
  [d EXCEPT !.behind = IF d.stage = "waiting" /\ @ > 0 THEN @ - 1 ELSE @,
            !.renewed = @ \/ (e.kind = "requested" /\ e.request.id = d.id)]

\* recordNativeEvent and the snapshot it publishes.
RecordApproval ==
  /\ arriving # <<>> /\ arriving' = Tail(arriving)
  /\ pendingApproval' =
       LET e == Head(arriving)
       IN  IF e.kind = "requested" THEN e.request
           ELSE IF e.request.id = pendingApproval.id THEN NoRequest ELSE pendingApproval
  /\ overlay' = Surfaced(pendingApproval')
  /\ decisions' = [i \in DOMAIN decisions |-> AfterRecording(decisions[i], Head(arriving))]
  /\ UNCHANGED <<asked, announcements, decided>>

\* A snapshot published for any other reason brings the overlay back.
RepublishApproval ==
  /\ overlay' = Surfaced(pendingApproval) /\ overlay' # overlay
  /\ UNCHANGED <<asked, announcements, arriving, pendingApproval, decisions, decided>>

\* dispatchSerialized waits for the events that are queued when its turn comes.
BeginDecision ==
  /\ decisions # <<>> /\ Head(decisions).stage = "queued"
  /\ decisions' = [decisions EXCEPT ![1].stage = "waiting", ![1].behind = Len(arriving)]
  /\ UNCHANGED <<asked, announcements, arriving, pendingApproval, overlay, decided>>

\* resolveApproval, and respondToApproval of the adapter.
ResolveApproval ==
  /\ decisions # <<>> /\ Head(decisions).stage = "waiting" /\ Head(decisions).behind = 0
  /\ LET d == Head(decisions)
     IN  IF pendingApproval.id = d.id /\ asked[d.id] # "none"
         THEN /\ decisions' = [decisions EXCEPT ![1].stage = "sent"]
              /\ decided' = decided \union {[seen |-> d.seen, answered |-> pendingApproval, renewed |-> d.renewed]}
         ELSE decisions' = [decisions EXCEPT ![1].stage = "answered"] /\ UNCHANGED decided
  /\ UNCHANGED <<asked, announcements, arriving, pendingApproval, overlay>>

-----------------------------------------------------------------------------
(* The user.                                                               *)

MayDecide == Len(decisions) + Cardinality(decided) < MaxDecisions

Decide(id, seen, onOverlay) ==
  decisions' = Append(decisions, [id |-> id, seen |-> seen, onOverlay |-> onOverlay,
                                  stage |-> "queued", behind |-> 0, renewed |-> FALSE])

\* Mutant of OverlayDecision: the ids are compared, and not what is asked under them.
DecisionById(shown) ==
  IF pendingApproval.id = shown.id
  THEN Decide(shown.id, shown, TRUE) /\ overlay' = [overlay EXCEPT !.resolving = TRUE]
  ELSE overlay' = NoOverlay /\ UNCHANGED decisions
\* onResolve of the overlay: a decision on anything but the pending request is refused.
OverlayDecision(shown) ==
  IF pendingApproval = shown
  THEN Decide(shown.id, shown, TRUE) /\ overlay' = [overlay EXCEPT !.resolving = TRUE]
  ELSE overlay' = NoOverlay /\ UNCHANGED decisions

DecideOnOverlay ==
  /\ MayDecide /\ overlay.kind = "approval" /\ ~overlay.resolving
  /\ OverlayDecision(overlay.shown)
  /\ UNCHANGED <<asked, announcements, arriving, pendingApproval, decided>>

\* /approve, typed while no overlay has the keyboard.
DecideByCommand ==
  /\ MayDecide /\ overlay.kind = "none" /\ pendingApproval # NoRequest
  /\ Decide(pendingApproval.id, pendingApproval, FALSE)
  /\ UNCHANGED <<asked, announcements, arriving, pendingApproval, overlay, decided>>

\* The receipt of an overlay's decision closes the overlay that is open by then.
DecisionReturns ==
  /\ decisions # <<>> /\ Head(decisions).stage = "answered"
  /\ decisions' = Tail(decisions)
  /\ overlay' = IF Head(decisions).onOverlay THEN NoOverlay ELSE overlay
  /\ UNCHANGED <<asked, announcements, arriving, pendingApproval, decided>>

OpenModelPicker ==
  /\ overlay.kind = "none" /\ overlay' = [NoOverlay EXCEPT !.kind = "model"]
  /\ UNCHANGED <<asked, announcements, arriving, pendingApproval, decisions, decided>>

\* Esc, Ctrl+C or Ctrl+D.
DismissOverlay ==
  /\ overlay.kind # "none" /\ overlay' = NoOverlay
  /\ UNCHANGED <<asked, announcements, arriving, pendingApproval, decisions, decided>>

-----------------------------------------------------------------------------
ApprovalInit ==
  /\ asked = [id \in ApprovalIds |-> "none"] /\ announcements = 0 /\ arriving = <<>>
  /\ pendingApproval = NoRequest /\ overlay = NoOverlay /\ decisions = <<>> /\ decided = {}

ApprovalNext ==
  \/ \E r \in ApprovalRequests : AnnounceApproval(r)
  \/ \E id \in ApprovalIds : SettleApproval(id)
  \/ RecordApproval \/ RepublishApproval \/ BeginDecision \/ ResolveApproval
  \/ DecideOnOverlay \/ DecideByCommand \/ DecisionReturns \/ OpenModelPicker \/ DismissOverlay

ApprovalSpec == ApprovalInit /\ [][ApprovalNext]_approvalVars

ApprovalTypeOK ==
  /\ asked \in [ApprovalIds -> Contents \union {"none"}] /\ announcements \in 0..MaxAnnouncements
  /\ arriving \in Seq([kind : {"requested", "resolved"}, request : ApprovalRequests])
  /\ pendingApproval \in ApprovalRequests \union {NoRequest}
  /\ overlay.kind = "approval" <=> overlay.shown # NoRequest
  /\ decisions \in Seq([id : ApprovalIds, seen : ApprovalRequests, onOverlay : BOOLEAN,
                        stage : {"queued", "waiting", "sent", "answered"}, behind : Nat, renewed : BOOLEAN])
  /\ \A i \in 2..Len(decisions) : decisions[i].stage = "queued"
  /\ decided \subseteq [seen : ApprovalRequests, answered : ApprovalRequests, renewed : BOOLEAN]

\* What the workbench answers is what the user saw when deciding, id and content, though the
\* overlay stays up while requests take the slot and are announced anew with other contents
\* under the id it shows.  One recorded between the decision and its execution is answered
\* unseen: resolveApproval compares ids, against the promise that a decision is never reused
\* once the candidate has changed (domain/workbench.ts:202-206).  The id is right even then.
DecisionFitsWhatWasShown ==
  \A d \in decided : d.answered.id = d.seen.id /\ (~d.renewed => d.answered = d.seen)
=============================================================================
