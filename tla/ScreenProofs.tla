---------------------------- MODULE ScreenProofs ----------------------------
(***************************************************************************)
(* What is proved of the terminal and of what it shows, for every set of   *)
(* turns, items, requests and providers and every bound: a change of the   *)
(* snapshot is always due to be drawn (RenderScheduler), the request a     *)
(* decision answers is the one the user saw (ApprovalSurface), nothing     *)
(* that has ended is shown as being written (LiveProjection), the          *)
(* selection a user went to a login for is on the screen (LegacyShell),    *)
(* the text left in a composer is kept until it was shown                  *)
(* (ComposerDrafts), and each piece of a turn's work is told once, of one  *)
(* step (WorkSteps).                                                       *)
(***************************************************************************)
EXTENDS RenderScheduler, ApprovalSurface, LiveProjection, LegacyShell, ComposerDrafts, WorkSteps,
  CollectionLemmas

-----------------------------------------------------------------------------
(* The render scheduler.  The property itself is not inductive: the key's  *)
(* microtask looks only at pending and immediatePending, so these two must *)
(* be known to tell of everything that is not drawn.                       *)

RenderTypes ==
  /\ undrawn \in {"nothing", "streaming", "immediate"}
  /\ frameOver \in BOOLEAN /\ timerArmed \in BOOLEAN /\ pending \in BOOLEAN
  /\ immediatePending \in BOOLEAN /\ inputPending \in BOOLEAN /\ disposed \in BOOLEAN

\* What is not drawn is pending, and what is durable is known to be so.
UndrawnIsPending ==
  /\ undrawn # "nothing" => pending
  /\ undrawn = "immediate" => inputPending /\ immediatePending

\* What is pending waits for the key or for the timer.
PendingIsDue == pending => inputPending \/ timerArmed

RenderInv == RenderTypes /\ (~disposed => UndrawnIsPending /\ PendingIsDue)

\* A change is drawn at once or with the stream.
LEMMA UrgencyType == ASSUME NEW before, NEW after PROVE Urgency(before, after) \in {"streaming", "immediate"}
  BY DEF Urgency

\* Every request, timer, frame and disposal keeps the invariant of the scheduler.
LEMMA RenderInductive == ASSUME RenderInv, [RenderNext]_renderVars PROVE RenderInv'
<1> USE DEF RenderInv, RenderTypes, UndrawnIsPending, PendingIsDue
<1>1. ASSUME NEW next, Publish(next) PROVE RenderInv'
  <2> DEFINE urgency == Urgency(snapshot, next)
             left == IF undrawn = "immediate" THEN undrawn ELSE urgency
  <2>1. urgency \in {"streaming", "immediate"} BY UrgencyType
  <2>2. Request(urgency, left) /\ UNCHANGED <<inputPending, disposed>> BY <1>1 DEF Publish
  <2>3. urgency = "immediate" => left = "immediate" OBVIOUS
  <2>4. left \in {"streaming", "immediate"} BY <2>1
  <2>5. left = "immediate" => urgency = "immediate" \/ undrawn = "immediate" OBVIOUS
  <2> HIDE DEF urgency, left
  <2>6. CASE disposed BY <2>2, <2>4, <2>6 DEF Request
  <2>7. CASE ~disposed /\ inputPending BY <2>1, <2>2, <2>4, <2>5, <2>7 DEF Request
  <2>8. CASE ~disposed /\ ~inputPending /\ urgency = "immediate"
    BY <2>2, <2>8 DEF Request, Flush, Draw
  <2>9. CASE ~disposed /\ ~inputPending /\ urgency # "immediate"
    BY <2>1, <2>2, <2>4, <2>5, <2>9 DEF Request, RequestStreaming, Draw
  <2> QED BY <2>6, <2>7, <2>8, <2>9
<1>2. CASE IntervalPasses BY <1>2 DEF IntervalPasses
<1>3. CASE TimerFires BY <1>3 DEF TimerFires, Draw
<1>4. CASE KeyPressed BY <1>4 DEF KeyPressed
<1>5. CASE KeyHandled BY <1>5 DEF KeyHandled, InputOver, Flush, RequestStreaming, Draw
<1>6. CASE Dispose BY <1>6 DEF Dispose
<1>7. CASE UNCHANGED renderVars BY <1>7 DEF renderVars
<1> QED BY <1>1, <1>2, <1>3, <1>4, <1>5, <1>6, <1>7 DEF RenderNext

\* No change of the snapshot is left without a frame that is due, and a durable one waits for
\* nothing but the key that is being handled, however requests, timers, keys and disposal
\* interleave (UndrawnIsScheduled): request, prioritizeInput and the timer of the scheduler.
THEOREM EveryChangeIsScheduled == RenderSpec => []UndrawnIsScheduled
<1>1. RenderInit => RenderInv
  BY DEF RenderInit, RenderInv, RenderTypes, UndrawnIsPending, PendingIsDue
<1>2. RenderInv => UndrawnIsScheduled
  BY DEF RenderInv, UndrawnIsPending, PendingIsDue, UndrawnIsScheduled
<1> QED BY <1>1, <1>2, RenderInductive, PTL DEF RenderSpec

-----------------------------------------------------------------------------
(* The approval surface.  Between the decision and its execution the slot  *)
(* and the overlay move on; what is kept is the request each queued        *)
(* decision was taken on, and that the slot, while it holds its id, holds  *)
(* what the user saw unless the id has been announced anew.                *)

ApprovalEvents == [kind : {"requested", "resolved"}, request : ApprovalRequests]
Overlays == [kind : {"none", "approval", "model"}, shown : ApprovalRequests \union {NoRequest}, resolving : BOOLEAN]
Decisions == [id : ApprovalIds, seen : ApprovalRequests, onOverlay : BOOLEAN,
              stage : {"queued", "waiting", "sent", "answered"}, behind : Nat, renewed : BOOLEAN]

SurfaceTypes ==
  /\ asked \in [ApprovalIds -> Contents \union {"none"}]
  /\ arriving \in Seq(ApprovalEvents)
  /\ pendingApproval \in ApprovalRequests \union {NoRequest}
  /\ overlay \in Overlays /\ (overlay.kind = "approval" <=> overlay.shown # NoRequest)
  /\ decisions \in Seq(Decisions)

\* A decision carries the id of the request its user saw.
DecidedAsSeen == \A i \in 1..Len(decisions) : decisions[i].id = decisions[i].seen.id

\* What is pending under the id of a decision is what its user saw, unless it was renewed.
PendingAsSeen ==
  \A i \in 1..Len(decisions) :
    ~decisions[i].renewed /\ pendingApproval.id = decisions[i].id => pendingApproval = decisions[i].seen

ApprovalInv == SurfaceTypes /\ DecidedAsSeen /\ PendingAsSeen /\ DecisionFitsWhatWasShown

\* No approval is the empty one.
LEMMA NoRequestIsNone == NoRequest \notin ApprovalRequests
  BY ApprovalAssumption DEF NoRequest, ApprovalRequests

\* The surface of a request is an overlay, and an approval just if there is a request.
LEMMA SurfacedType ==
  ASSUME SurfaceTypes, NEW r \in ApprovalRequests \union {NoRequest}
  PROVE  Surfaced(r) \in Overlays /\ (Surfaced(r).kind = "approval" <=> Surfaced(r).shown # NoRequest)
<1>1. CASE r # NoRequest /\ overlay.kind = "none"
  BY <1>1, NoRequestIsNone DEF Surfaced, Showing, Overlays
<1>2. CASE r = NoRequest /\ overlay.kind = "approval"
  BY <1>2 DEF Surfaced, NoOverlay, Overlays
<1>3. CASE ~(r # NoRequest /\ overlay.kind = "none") /\ ~(r = NoRequest /\ overlay.kind = "approval")
  BY <1>3 DEF Surfaced, SurfaceTypes
<1> QED BY <1>1, <1>2, <1>3

\* What queues a decision, and what changes the stages of those that are queued.
LEMMA DecisionQueued ==
  ASSUME SurfaceTypes, DecidedAsSeen, NEW seen \in ApprovalRequests, NEW onOverlay \in BOOLEAN,
         Decide(seen.id, seen, onOverlay), pendingApproval = seen, UNCHANGED pendingApproval,
         PendingAsSeen
  PROVE  decisions' \in Seq(Decisions) /\ DecidedAsSeen' /\ PendingAsSeen'
<1> DEFINE d == [id |-> seen.id, seen |-> seen, onOverlay |-> onOverlay, stage |-> "queued", behind |-> 0,
                 renewed |-> FALSE]
<1>1. d \in Decisions BY DEF Decisions, ApprovalRequests
<1>2. decisions' = Append(decisions, d) BY DEF Decide
<1>3. d.id = d.seen.id /\ d.seen = seen OBVIOUS
<1> HIDE DEF d
<1>4. PendingAsSeen' BY <1>1, <1>2, <1>3 DEF SurfaceTypes, PendingAsSeen
<1> QED BY <1>1, <1>2, <1>3, <1>4 DEF SurfaceTypes, DecidedAsSeen

\* Decisions that keep their request and what was seen of it stay decisions as seen, and the
\* slot what they saw while it does not change and nothing is taken for unrenewed.
LEMMA DecisionsMove ==
  ASSUME SurfaceTypes, DecidedAsSeen,
         DOMAIN decisions' = DOMAIN decisions, decisions' \in Seq(Decisions),
         \A i \in 1..Len(decisions) : decisions'[i].id = decisions[i].id /\ decisions'[i].seen = decisions[i].seen
  PROVE  /\ DecidedAsSeen'
         /\ PendingAsSeen /\ UNCHANGED pendingApproval
            /\ (\A i \in 1..Len(decisions) : decisions'[i].renewed = decisions[i].renewed)
            => PendingAsSeen'
<1>1. Len(decisions') = Len(decisions) BY DEF SurfaceTypes
<1> QED BY <1>1 DEF DecidedAsSeen, PendingAsSeen

\* The decision in work is the first one.
LEMMA HeadOfDecisions ==
  ASSUME SurfaceTypes, decisions # <<>>
  PROVE  Head(decisions) = decisions[1] /\ Head(decisions) \in Decisions /\ 1 \in 1..Len(decisions)
  BY DEF SurfaceTypes

\* Every announcement, key and answer keeps the invariant of the approvals.
LEMMA ApprovalInductive == ASSUME ApprovalInv, [ApprovalNext]_approvalVars PROVE ApprovalInv'
<1> USE DEF ApprovalInv
<1>1. ASSUME NEW r \in ApprovalRequests, AnnounceApproval(r) PROVE ApprovalInv'
  <2>1. r.id \in ApprovalIds /\ r.content \in Contents BY DEF ApprovalRequests
  <2>2. [kind |-> "requested", request |-> r] \in ApprovalEvents BY DEF ApprovalEvents
  <2>3. asked' \in [ApprovalIds -> Contents \union {"none"}]
    BY <1>1, <2>1 DEF AnnounceApproval, SurfaceTypes
  <2>4. arriving' \in Seq(ApprovalEvents) BY <1>1, <2>2 DEF AnnounceApproval, SurfaceTypes
  <2> QED BY <1>1, <2>3, <2>4
       DEF AnnounceApproval, SurfaceTypes, DecidedAsSeen, PendingAsSeen, DecisionFitsWhatWasShown
<1>2. ASSUME NEW id \in ApprovalIds, SettleApproval(id) PROVE ApprovalInv'
  <2> DEFINE e == [kind |-> "resolved", request |-> [id |-> id, content |-> asked[id]]]
  <2>1. asked[id] \in Contents BY <1>2 DEF SettleApproval, SurfaceTypes
  <2>2. e \in ApprovalEvents BY <2>1 DEF ApprovalEvents, ApprovalRequests
  <2>3. asked' \in [ApprovalIds -> Contents \union {"none"}] BY <1>2 DEF SettleApproval, SurfaceTypes
  <2>4. arriving' \in Seq(ApprovalEvents)
    <3> HIDE DEF e
    <3> QED BY <1>2, <2>2 DEF SettleApproval, SurfaceTypes, e
  <2>5. \A i \in 1..Len(decisions) :
          /\ decisions'[i] \in Decisions
          /\ decisions'[i].id = decisions[i].id /\ decisions'[i].seen = decisions[i].seen
          /\ decisions'[i].renewed = decisions[i].renewed
    <3> TAKE i \in 1..Len(decisions)
    <3>1. decisions[i] \in Decisions BY DEF SurfaceTypes
    <3>2. decisions'[i] = decisions[i] \/ decisions'[i] = [decisions[i] EXCEPT !.stage = "answered"]
      BY <1>2 DEF SettleApproval, SurfaceTypes
    <3> QED BY <3>1, <3>2 DEF Decisions
  <2>6. DOMAIN decisions' = 1..Len(decisions) /\ DOMAIN decisions = 1..Len(decisions)
    BY <1>2 DEF SettleApproval, SurfaceTypes
  <2>7. decisions' \in Seq(Decisions)
    <3>1. Len(decisions) \in Nat BY DEF SurfaceTypes
    <3>2. decisions' = [i \in 1..Len(decisions) |-> decisions'[i]]
      BY <1>2, <2>6 DEF SettleApproval
    <3> QED BY <2>5, <3>1, <3>2
  <2>8. DecidedAsSeen' /\ PendingAsSeen'
    <3>1. UNCHANGED pendingApproval BY <1>2 DEF SettleApproval
    <3> QED BY <2>5, <2>6, <2>7, <3>1, DecisionsMove
  <2> QED BY <1>2, <2>3, <2>4, <2>7, <2>8 DEF SettleApproval, SurfaceTypes, DecisionFitsWhatWasShown
<1>3. CASE RecordApproval
  <2>1. Head(arriving) \in ApprovalEvents /\ arriving' \in Seq(ApprovalEvents)
    BY <1>3 DEF RecordApproval, SurfaceTypes
  <2>2. pendingApproval' \in ApprovalRequests \union {NoRequest}
    <3>1. Head(arriving).request \in ApprovalRequests BY <2>1 DEF ApprovalEvents
    <3> QED BY <1>3, <3>1 DEF RecordApproval, SurfaceTypes
  <2>3. overlay' \in Overlays /\ (overlay'.kind = "approval" <=> overlay'.shown # NoRequest)
    <3>1. overlay' = Surfaced(pendingApproval') BY <1>3 DEF RecordApproval
    <3> QED BY <2>2, <3>1, SurfacedType
  <2>4. \A i \in 1..Len(decisions) :
          /\ decisions'[i] \in Decisions
          /\ decisions'[i].id = decisions[i].id /\ decisions'[i].seen = decisions[i].seen
          /\ ~decisions'[i].renewed =>
               /\ ~decisions[i].renewed
               /\ ~(Head(arriving).kind = "requested" /\ Head(arriving).request.id = decisions[i].id)
    <3> TAKE i \in 1..Len(decisions)
    <3>1. decisions[i] \in Decisions BY DEF SurfaceTypes
    <3>2. i \in DOMAIN decisions BY DEF SurfaceTypes
    <3>3. decisions'[i] = AfterRecording(decisions[i], Head(arriving))
      BY <1>3, <3>2 DEF RecordApproval
    <3> DEFINE r == decisions[i].renewed \/ (Head(arriving).kind = "requested"
                                            /\ Head(arriving).request.id = decisions[i].id)
               b == IF decisions[i].stage = "waiting" /\ decisions[i].behind > 0
                    THEN decisions[i].behind - 1 ELSE decisions[i].behind
    <3>4. decisions'[i] = [decisions[i] EXCEPT !.behind = b, !.renewed = r]
      BY <3>1, <3>3 DEF Decisions, AfterRecording
    <3>5. b \in Nat BY <3>1 DEF Decisions
    <3>6. r \in BOOLEAN OBVIOUS
    <3>7. ~r => /\ ~decisions[i].renewed
                /\ ~(Head(arriving).kind = "requested" /\ Head(arriving).request.id = decisions[i].id)
      OBVIOUS
    <3> HIDE DEF r, b
    <3>8. /\ decisions'[i] \in Decisions /\ decisions'[i].renewed = r
          /\ decisions'[i].id = decisions[i].id /\ decisions'[i].seen = decisions[i].seen
      BY <3>1, <3>4, <3>5, <3>6 DEF Decisions
    <3> QED BY <3>7, <3>8
  <2>5. DOMAIN decisions' = 1..Len(decisions) /\ DOMAIN decisions = 1..Len(decisions)
    BY <1>3 DEF RecordApproval, SurfaceTypes
  <2>6. decisions' \in Seq(Decisions)
    <3>1. Len(decisions) \in Nat BY DEF SurfaceTypes
    <3>2. decisions' = [i \in 1..Len(decisions) |-> decisions'[i]] BY <1>3, <2>5 DEF RecordApproval
    <3> QED BY <2>4, <3>1, <3>2
  <2>7. DecidedAsSeen' BY <2>4, <2>5, <2>6, DecisionsMove
  <2>8. PendingAsSeen'
    <3> SUFFICES ASSUME NEW i \in 1..Len(decisions'), ~decisions'[i].renewed,
                        pendingApproval'.id = decisions'[i].id
                 PROVE  pendingApproval' = decisions'[i].seen
      BY DEF PendingAsSeen
    <3>1. i \in 1..Len(decisions) BY <2>5, <2>6 DEF SurfaceTypes
    <3>2. /\ pendingApproval' \in {Head(arriving).request, NoRequest, pendingApproval}
          /\ \/ pendingApproval' = Head(arriving).request /\ Head(arriving).kind = "requested"
             \/ pendingApproval' \in {NoRequest, pendingApproval}
      BY <1>3 DEF RecordApproval
    <3>3. decisions'[i].id \in ApprovalIds BY <2>4, <3>1 DEF Decisions
    <3>4. pendingApproval' # NoRequest BY <3>3, ApprovalAssumption DEF NoRequest
    <3>5. pendingApproval' = pendingApproval BY <2>4, <3>1, <3>2, <3>4
    <3> QED BY <2>4, <3>1, <3>5 DEF PendingAsSeen
  <2> QED BY <1>3, <2>1, <2>2, <2>3, <2>6, <2>7, <2>8 DEF RecordApproval, SurfaceTypes, DecisionFitsWhatWasShown
<1>4. CASE RepublishApproval
  <2>1. overlay' = Surfaced(pendingApproval) BY <1>4 DEF RepublishApproval
  <2>2. overlay' \in Overlays /\ (overlay'.kind = "approval" <=> overlay'.shown # NoRequest)
    BY <2>1, SurfacedType DEF SurfaceTypes
  <2> QED BY <1>4, <2>2 DEF RepublishApproval, SurfaceTypes, DecidedAsSeen, PendingAsSeen, DecisionFitsWhatWasShown
<1>5. CASE BeginDecision
  <2>1. /\ decisions[1] \in Decisions /\ 1 \in 1..Len(decisions) /\ Len(arriving) \in Nat
    BY <1>5, HeadOfDecisions DEF BeginDecision, SurfaceTypes
  <2> DEFINE d == [decisions[1] EXCEPT !.stage = "waiting", !.behind = Len(arriving)]
  <2>2. d \in Decisions /\ d.id = decisions[1].id /\ d.seen = decisions[1].seen /\ d.renewed = decisions[1].renewed
    BY <2>1 DEF Decisions
  <2>3. decisions' = [decisions EXCEPT ![1] = d] BY <1>5, <2>1 DEF BeginDecision, SurfaceTypes
  <2> HIDE DEF d
  <2>4. decisions' \in Seq(Decisions) /\ DOMAIN decisions' = DOMAIN decisions
    BY <2>1, <2>2, <2>3 DEF SurfaceTypes
  <2>5. DecidedAsSeen' /\ PendingAsSeen'
    <3>1. UNCHANGED pendingApproval BY <1>5 DEF BeginDecision
    <3>2. \A i \in 1..Len(decisions) :
            /\ decisions'[i].id = decisions[i].id /\ decisions'[i].seen = decisions[i].seen
            /\ decisions'[i].renewed = decisions[i].renewed
      BY <2>1, <2>2, <2>3 DEF SurfaceTypes
    <3> QED BY <2>4, <3>1, <3>2, DecisionsMove
  <2> QED BY <1>5, <2>4, <2>5 DEF BeginDecision, SurfaceTypes, DecisionFitsWhatWasShown
<1>6. CASE ResolveApproval
  <2>1. decisions[1] = Head(decisions) /\ decisions[1] \in Decisions /\ 1 \in 1..Len(decisions)
    BY <1>6, HeadOfDecisions DEF ResolveApproval
  <2>2. PICK stage \in {"sent", "answered"} : decisions' = [decisions EXCEPT ![1].stage = stage]
    BY <1>6 DEF ResolveApproval
  <2> DEFINE d == [decisions[1] EXCEPT !.stage = stage]
  <2>3. d \in Decisions /\ d.id = decisions[1].id /\ d.seen = decisions[1].seen /\ d.renewed = decisions[1].renewed
    BY <2>1 DEF Decisions
  <2>4. decisions' = [decisions EXCEPT ![1] = d] BY <2>1, <2>2 DEF SurfaceTypes
  <2> HIDE DEF d
  <2>5. decisions' \in Seq(Decisions) /\ DOMAIN decisions' = DOMAIN decisions
    BY <2>1, <2>3, <2>4 DEF SurfaceTypes
  <2>6. DecidedAsSeen' /\ PendingAsSeen'
    <3>1. UNCHANGED pendingApproval BY <1>6 DEF ResolveApproval
    <3>2. \A i \in 1..Len(decisions) :
            /\ decisions'[i].id = decisions[i].id /\ decisions'[i].seen = decisions[i].seen
            /\ decisions'[i].renewed = decisions[i].renewed
      BY <2>1, <2>3, <2>4 DEF SurfaceTypes
    <3> QED BY <2>5, <3>1, <3>2, DecisionsMove
  <2>7. DecisionFitsWhatWasShown'
    <3>1. decisions[1].id = decisions[1].seen.id BY <2>1 DEF DecidedAsSeen
    <3>2. \/ UNCHANGED decided
          \/ /\ pendingApproval.id = decisions[1].id
             /\ decided' = decided \union {[seen |-> decisions[1].seen, answered |-> pendingApproval,
                                           renewed |-> decisions[1].renewed]}
      BY <1>6, <2>1 DEF ResolveApproval
    <3>3. pendingApproval.id = decisions[1].id /\ ~decisions[1].renewed => pendingApproval = decisions[1].seen
      BY <2>1 DEF PendingAsSeen
    <3> QED BY <3>1, <3>2, <3>3 DEF DecisionFitsWhatWasShown
  <2> QED BY <1>6, <2>5, <2>6, <2>7 DEF ResolveApproval, SurfaceTypes
<1>7. CASE DecideOnOverlay
  <2>1. CASE pendingApproval = overlay.shown
    <3>1. overlay.shown \in ApprovalRequests BY <1>7, <2>1 DEF DecideOnOverlay, SurfaceTypes
    <3>2. Decide(overlay.shown.id, overlay.shown, TRUE) /\ overlay' = [overlay EXCEPT !.resolving = TRUE]
      BY <1>7, <2>1 DEF DecideOnOverlay, OverlayDecision
    <3>3. decisions' \in Seq(Decisions) /\ DecidedAsSeen' /\ PendingAsSeen'
      BY <1>7, <2>1, <3>1, <3>2, DecisionQueued DEF DecideOnOverlay
    <3>4. overlay' \in Overlays /\ (overlay'.kind = "approval" <=> overlay'.shown # NoRequest)
      BY <3>2 DEF SurfaceTypes, Overlays
    <3> QED BY <1>7, <3>3, <3>4 DEF DecideOnOverlay, SurfaceTypes, DecisionFitsWhatWasShown
  <2>2. CASE pendingApproval # overlay.shown
    <3>1. overlay' = NoOverlay /\ UNCHANGED decisions BY <1>7, <2>2 DEF DecideOnOverlay, OverlayDecision
    <3>2. overlay' \in Overlays /\ (overlay'.kind = "approval" <=> overlay'.shown # NoRequest)
      BY <3>1 DEF NoOverlay, Overlays
    <3> QED BY <1>7, <3>1, <3>2 DEF DecideOnOverlay, SurfaceTypes, DecidedAsSeen, PendingAsSeen, DecisionFitsWhatWasShown
  <2> QED BY <2>1, <2>2
<1>8. CASE DecideByCommand
  <2>1. pendingApproval \in ApprovalRequests BY <1>8 DEF DecideByCommand, SurfaceTypes
  <2>2. decisions' \in Seq(Decisions) /\ DecidedAsSeen' /\ PendingAsSeen'
    BY <1>8, <2>1, DecisionQueued DEF DecideByCommand
  <2> QED BY <1>8, <2>2 DEF DecideByCommand, SurfaceTypes, DecisionFitsWhatWasShown
<1>9. CASE DecisionReturns
  <2>1. decisions' \in Seq(Decisions) /\ DecidedAsSeen' /\ PendingAsSeen'
    BY <1>9 DEF DecisionReturns, SurfaceTypes, DecidedAsSeen, PendingAsSeen
  <2>2. overlay' \in Overlays /\ (overlay'.kind = "approval" <=> overlay'.shown # NoRequest)
    BY <1>9 DEF DecisionReturns, SurfaceTypes, NoOverlay, Overlays
  <2> QED BY <1>9, <2>1, <2>2 DEF DecisionReturns, SurfaceTypes, DecisionFitsWhatWasShown
<1>10. CASE OpenModelPicker \/ DismissOverlay
  <2>1. overlay' = NoOverlay \/ overlay' = [NoOverlay EXCEPT !.kind = "model"]
    BY <1>10 DEF OpenModelPicker, DismissOverlay
  <2>2. overlay' \in Overlays /\ (overlay'.kind = "approval" <=> overlay'.shown # NoRequest)
    <3>1. NoOverlay \in Overlays BY DEF NoOverlay, Overlays
    <3>2. NoOverlay.kind = "none" /\ NoOverlay.shown = NoRequest BY DEF NoOverlay
    <3>3. [NoOverlay EXCEPT !.kind = "model"] \in Overlays BY <3>1 DEF Overlays
    <3>4. [NoOverlay EXCEPT !.kind = "model"].kind = "model" BY DEF NoOverlay
    <3>5. [NoOverlay EXCEPT !.kind = "model"].shown = NoRequest BY DEF NoOverlay
    <3> QED BY <2>1, <3>1, <3>2, <3>3, <3>4, <3>5
  <2>3. UNCHANGED <<asked, arriving, pendingApproval, decisions, decided>>
    BY <1>10 DEF OpenModelPicker, DismissOverlay
  <2> QED BY <2>2, <2>3 DEF SurfaceTypes, DecidedAsSeen, PendingAsSeen, DecisionFitsWhatWasShown
<1>11. CASE UNCHANGED approvalVars
  BY <1>11 DEF approvalVars, SurfaceTypes, DecidedAsSeen, PendingAsSeen, DecisionFitsWhatWasShown
<1> QED BY <1>1, <1>2, <1>3, <1>4, <1>5, <1>6, <1>7, <1>8, <1>9, <1>10, <1>11 DEF ApprovalNext

\* The approval the workbench answers has the id and, unless that was announced anew after
\* the decision, the content the user decided on, though other requests and other contents
\* take the slot while the overlay stays and the decision waits (DecisionFitsWhatWasShown):
\* onResolve of the overlay, recordNativeEvent and resolveApproval.
THEOREM AnswersWhatWasSeen == ApprovalSpec => []DecisionFitsWhatWasShown
<1>1. ApprovalInit => ApprovalInv
  <2> SUFFICES ASSUME ApprovalInit PROVE ApprovalInv
    OBVIOUS
  <2>1. overlay \in Overlays /\ (overlay.kind = "approval" <=> overlay.shown # NoRequest)
    BY DEF ApprovalInit, NoOverlay, Overlays
  <2>2. SurfaceTypes BY <2>1 DEF ApprovalInit, SurfaceTypes
  <2> QED BY <2>2 DEF ApprovalInit, ApprovalInv, DecidedAsSeen, PendingAsSeen, DecisionFitsWhatWasShown
<1>2. ApprovalInv => DecisionFitsWhatWasShown BY DEF ApprovalInv
<1> QED BY <1>1, <1>2, ApprovalInductive, PTL DEF ApprovalSpec


-----------------------------------------------------------------------------
(* The live projection.  An item that is over without having been          *)
(* completed was preserved in its draft, or is the local one of a turn     *)
(* without an answer: without this an answer could be taken for late.      *)

Named == [turn : LiveTurns \union {NoTurn}, item : Items \union {NoItem}]

ProjectionTypes ==
  /\ owners \subseteq [turn : LiveTurns, item : Items]
  /\ shown \in [Slots -> Named]

EndedForAReason == \A at \in endedItems : at.item = LocalItem \/ at \in completed \union early

SlotFits(at) == at # Nowhere => IsRoot(at) /\ at.turn \notin endedTurns /\ at \notin endedItems \ early

ProjectionInv == ProjectionTypes /\ EndedForAReason /\ ScreenFitsTheTurns

\* What a notification is taken to be about keeps the item it names, and its turn is known or none.
LEMMA AboutType ==
  ASSUME ProjectionTypes, NEW i, NEW at \in About(i, Completeness), i \in Items \union {NoItem}
  PROVE  at \in [turn : LiveTurns \union {NoTurn}, item : {i}]
<1>1. PICK t \in LiveTurns, how \in Completeness : at = Normalized(t, i, how) BY DEF About
<1>2. CASE at = Identity(t, i) \/ at = Identity(NoTurn, i) BY <1>2 DEF Identity
<1>3. CASE Cardinality(OwnersOf(t, i)) = 1 /\ at = CHOOSE o \in OwnersOf(t, i) : TRUE
  <2>1. OwnersOf(t, i) # {} BY <1>3, FS_EmptySet
  <2>2. at \in OwnersOf(t, i) BY <1>3, <2>1
  <2>3. at \in owners /\ at.item = i BY <2>2 DEF OwnersOf
  <2> QED BY <2>3 DEF ProjectionTypes
<1> QED BY <1>1, <1>2, <1>3 DEF Normalized

\* The more kinds of notifications there are, the more can be said about an item.
LEMMA AboutMore ==
  ASSUME NEW i, NEW Few, NEW More, Few \subseteq More
  PROVE  About(i, Few) \subseteq About(i, More)
  BY DEF About

\* Notifications that name their turn are of two of the kinds there are.
LEMMA WithTurn == {"full", "without thread"} \subseteq Completeness
  BY DEF Completeness

\* Remembering what an item belongs to relates turns and items.
LEMMA RefsRemembered ==
  ASSUME ProjectionTypes, NEW at \in Named, RememberRefs(at)
  PROVE  owners' \subseteq [turn : LiveTurns, item : Items]
<1>1. at.turn # NoTurn /\ at.item # NoItem => at \in [turn : LiveTurns, item : Items] BY DEF Named
<1> QED BY <1>1 DEF RememberRefs, ProjectionTypes

\* What names no turn is not of the root thread.
LEMMA RootIsNoWhere == ~IsRoot(Nowhere) /\ Nowhere \in Named
  BY ProjectionAssumption DEF IsRoot, Nowhere, Identity, LiveTurns, Named

\* The three parts of the property, each from what a step does to the state.
LEMMA DeltaKeeps ==
  ASSUME ProjectionInv, NEW slot \in Slots, NEW at \in Named, NEW blank, Delta(slot, at, blank)
  PROVE  ProjectionInv'
<1> USE DEF ProjectionInv
<1>1. owners' \subseteq [turn : LiveTurns, item : Items] BY RefsRemembered DEF Delta
<1>2. UNCHANGED <<endedTurns, endedItems, messages, endedActive, completed, answered, early>> BY DEF Delta
<1>3. \/ UNCHANGED shown
      \/ /\ IsRoot(at) /\ ~IsLate(at)
         /\ shown' = [shown EXCEPT ![slot] = at]
  BY DEF Delta
<1>4. shown' \in [Slots -> Named] BY <1>3 DEF ProjectionTypes
<1>5. \A s \in Slots : SlotFits(shown'[s])
  <2>1. \A s \in Slots : SlotFits(shown[s]) BY DEF ScreenFitsTheTurns, SlotFits
  <2>2. IsRoot(at) /\ ~IsLate(at) => SlotFits(at) BY DEF IsLate, HasTerminalItem, SlotFits
  <2>3. \A s \in Slots : shown'[s] = shown[s] \/ (IsRoot(at) /\ ~IsLate(at) /\ shown'[s] = at)
    BY <1>3 DEF ProjectionTypes
  <2> QED BY <2>1, <2>2, <2>3
<1>6. EndedForAReason' BY <1>2 DEF EndedForAReason
<1>7. ScreenFitsTheTurns' BY <1>2, <1>5 DEF ScreenFitsTheTurns, SlotFits, IsRoot
<1> QED BY <1>1, <1>4, <1>6, <1>7 DEF ProjectionTypes


\* What is preserved of a turn is its draft, as a part of an answer, or a notice in place of one.
LEMMA PreservedIs ==
  ASSUME NEW at, NEW m \in Preserved(at)
  PROVE  /\ m.at.turn = at.turn
         /\ \/ m.text = "partial"
            \/ m.text = "notice" /\ m.at = Identity(at.turn, IF at.item = NoItem THEN LocalItem ELSE at.item)
<1>1. CASE m = [at |-> shown.draft, text |-> "partial"] /\ shown.draft.turn = at.turn
  BY <1>1
<1>2. CASE m = [at |-> Identity(at.turn, IF at.item = NoItem THEN LocalItem ELSE at.item), text |-> "notice"]
  BY <1>2 DEF Identity
<1> QED BY <1>1, <1>2 DEF Preserved

\* When nothing is left to preserve of a turn, a message of it is there.
LEMMA PreservedOrThere ==
  ASSUME NEW at, at.turn \notin endedTurns, Preserved(at) = {}
  PROVE  \E m \in messages : m.at.turn = at.turn
  BY DEF Preserved

\* Recording messages keeps the earlier ones, and notes the partial ones.
LEMMA EarlyRecorded ==
  ASSUME NEW more, Record(more)
  PROVE  /\ messages \subseteq messages' /\ more \subseteq messages' /\ early \subseteq early'
         /\ \A m \in more : m.text = "partial" => m.at \in early'
  BY DEF Record

\* Clearing some items empties their slots and no other.
LEMMA Cleared ==
  ASSUME ProjectionTypes, NEW LeftOver,
         shown' = [s \in Slots |-> IF shown[s] \in LeftOver THEN Nowhere ELSE shown[s]]
  PROVE  /\ shown' \in [Slots -> Named]
         /\ \A s \in Slots : shown'[s] = Nowhere \/ (shown'[s] = shown[s] /\ shown[s] \notin LeftOver)
  BY RootIsNoWhere DEF ProjectionTypes

\* An item that completes keeps the invariant of the projection.
LEMMA ItemKeeps ==
  ASSUME ProjectionInv, NEW i \in Items, NEW at \in Named, at.item = i,
         NEW message \in BOOLEAN, NEW text \in BOOLEAN, ItemCompleted(at, message, text)
  PROVE  ProjectionInv'
<1> USE DEF ProjectionInv
<1> DEFINE preserved == IF IsRoot(at) /\ message /\ ~text THEN Preserved(at) ELSE {}
           own == IF IsRoot(at) /\ message /\ text THEN {[at |-> at, text |-> "final"]} ELSE {}
<1>1. owners' \subseteq [turn : LiveTurns, item : Items] BY RefsRemembered DEF ItemCompleted
<1>2. UNCHANGED <<endedTurns, endedActive>> /\ completed \subseteq completed' BY DEF ItemCompleted
<1>3. at.item # NoItem /\ at.item # LocalItem BY ProjectionAssumption
<1>4. at = Identity(at.turn, at.item) BY DEF Named, Identity
<1>5. CASE HasTerminalItem(at) \/ (message /\ ~Owned(at))
  <2>1. UNCHANGED <<endedItems, shown, messages, early>> BY <1>5 DEF ItemCompleted
  <2>2. answered' = answered \/ (at \in endedItems /\ at \notin completed /\ answered' = answered \union {at})
    BY <1>5 DEF ItemCompleted, HasTerminalItem
  <2>3. answered' \ early \subseteq answered \ early BY <1>3, <2>2 DEF EndedForAReason
  <2>4. EndedForAReason' BY <1>2, <2>1 DEF EndedForAReason
  <2>5. ScreenFitsTheTurns' BY <1>2, <2>1, <2>3 DEF ScreenFitsTheTurns, IsRoot
  <2> QED BY <1>1, <2>1, <2>4, <2>5 DEF ProjectionTypes
<1>6. CASE ~HasTerminalItem(at) /\ (message => Owned(at))
  <2>1. Record(preserved \union own) BY <1>6 DEF ItemCompleted
  <2>2. endedItems' = endedItems \union {m.at : m \in preserved} \union (IF Owned(at) THEN {at} ELSE {})
    BY <1>6 DEF ItemCompleted
  <2>3. \A m \in preserved : Owned(at) /\ (m.at \in early' \/ m.at = at)
    <3> TAKE m \in preserved
    <3>1. m \in Preserved(at) /\ message OBVIOUS
    <3>2. m.text = "partial" \/ m.at = at BY <1>3, <1>4, <3>1, PreservedIs
    <3>3. m.text = "partial" => m.at \in early' BY <2>1, EarlyRecorded
    <3> QED BY <1>6, <3>1, <3>2, <3>3
  <2>4. messages \subseteq messages' /\ own \subseteq messages' /\ early \subseteq early'
    BY <2>1, EarlyRecorded
  <2>5. \A x \in endedItems' : x \in endedItems \/ x \in early' \/ (Owned(at) /\ x = at)
    <3> HIDE DEF preserved
    <3> QED BY <2>2, <2>3
  <2> HIDE DEF preserved
  <2>6. shown' \in [Slots -> Named] /\ \A s \in Slots : SlotFits(shown[s]) => shown'[s] = Nowhere \/ (shown'[s] = shown[s] /\ (Owned(at) => shown[s] # at))
    <3>1. CASE IsRoot(at)
      <4> DEFINE LeftOver == IF Owned(at) THEN {at} ELSE {}
      <4>1. Clear(LAMBDA s : Owned(at) /\ s = at) BY <1>6, <3>1 DEF ItemCompleted
      <4>2. shown' = [s \in Slots |-> IF shown[s] \in LeftOver THEN Nowhere ELSE shown[s]]
        BY <4>1 DEF Clear
      <4> QED BY <4>2, Cleared
    <3>2. CASE ~IsRoot(at)
      <4>1. UNCHANGED shown BY <1>6, <3>2 DEF ItemCompleted
      <4>2. \A s \in Slots : SlotFits(shown[s]) => shown[s] = Nowhere \/ shown[s] # at BY <3>2 DEF SlotFits
      <4> QED BY <4>1, <4>2 DEF ProjectionTypes
    <3> QED BY <3>1, <3>2
  <2>7. \A s \in Slots : SlotFits(shown[s]) BY DEF ScreenFitsTheTurns, SlotFits
  <2>8. \A s \in Slots : SlotFits(shown[s])' BY <1>2, <2>4, <2>5, <2>6, <2>7 DEF SlotFits, IsRoot
  <2>9. EndedForAReason'
    <3>1. Owned(at) => at \in completed' BY DEF ItemCompleted
    <3> QED BY <1>2, <2>4, <2>5, <3>1 DEF EndedForAReason
  <2>10. \A x \in answered' \ early' : [at |-> x, text |-> "final"] \in messages'
    <3>1. answered' = answered \/ (answered' = answered \union {at} /\ [at |-> at, text |-> "final"] \in own)
      BY DEF ItemCompleted
    <3> HIDE DEF own
    <3> QED BY <2>4, <3>1 DEF ScreenFitsTheTurns
  <2>11. \A t \in endedActive' : \E m \in messages' : m.at.turn = t BY <1>2, <2>4 DEF ScreenFitsTheTurns
  <2>12. ScreenFitsTheTurns' BY <2>8, <2>10, <2>11 DEF ScreenFitsTheTurns, SlotFits
  <2> QED BY <1>1, <2>6, <2>9, <2>12 DEF ProjectionTypes
<1> QED BY <1>5, <1>6


\* A turn that ends keeps the invariant of the projection.
LEMMA EndKeeps ==
  ASSUME ProjectionInv, NEW at \in Named, at.item = NoItem, TurnEnded(at)
  PROVE  ProjectionInv'
<1> USE DEF ProjectionInv
<1> DEFINE active == IsRoot(at) /\ at.turn = activeTurn
           preserved == IF active THEN Preserved(at) ELSE {}
<1>1. owners' \subseteq [turn : LiveTurns, item : Items] BY RefsRemembered DEF TurnEnded
<1>2. UNCHANGED <<completed, answered>> BY DEF TurnEnded
<1>3. Record(preserved) /\ endedItems' = endedItems \union {m.at : m \in preserved} BY DEF TurnEnded
<1>4. endedTurns' = endedTurns \union ({at.turn} \ {NoTurn}) BY DEF TurnEnded
<1>5. \A m \in preserved : /\ m.at.turn = at.turn /\ IsRoot(at)
                           /\ m.at \in early' \/ m.at.item = LocalItem
  <2> TAKE m \in preserved
  <2>1. m \in Preserved(at) /\ IsRoot(at) OBVIOUS
  <2>2. m.at.turn = at.turn /\ (m.text = "partial" \/ m.at.item = LocalItem)
    <3>1. Identity(at.turn, LocalItem).item = LocalItem BY DEF Identity
    <3> QED BY <2>1, <3>1, PreservedIs
  <2>3. m.text = "partial" => m.at \in early' BY <1>3, EarlyRecorded
  <2> QED BY <2>1, <2>2, <2>3
<1>6. messages \subseteq messages' /\ preserved \subseteq messages' /\ early \subseteq early'
  BY <1>3, EarlyRecorded
<1>7. active /\ at.turn \notin endedTurns => \E m \in messages' : m.at.turn = at.turn
  <2> SUFFICES ASSUME active, at.turn \notin endedTurns PROVE \E m \in messages' : m.at.turn = at.turn
    OBVIOUS
  <2>1. CASE Preserved(at) = {} BY <1>6, <2>1, PreservedOrThere
  <2>2. CASE Preserved(at) # {}
    <3>1. PICK m \in preserved : TRUE BY <2>2
    <3> HIDE DEF preserved
    <3> QED BY <1>5, <1>6, <3>1
  <2> QED BY <2>1, <2>2
<1>8. endedActive' = endedActive \/ (active /\ at.turn \notin endedTurns /\ endedActive' = endedActive \union {at.turn})
  BY DEF TurnEnded
<1> HIDE DEF preserved
<1>9. shown' \in [Slots -> Named] /\ \A s \in Slots : SlotFits(shown[s]) => shown'[s] = Nowhere \/ (shown'[s] = shown[s] /\ shown[s].turn # at.turn)
  <2>1. CASE IsRoot(at)
    <3> DEFINE LeftOver == {x \in Named : x.turn = at.turn}
    <3>1. Clear(LAMBDA s : s.turn = at.turn) BY <2>1 DEF TurnEnded
    <3>2. shown' = [s \in Slots |-> IF shown[s].turn = at.turn THEN Nowhere ELSE shown[s]]
      BY <3>1 DEF Clear
    <3> QED BY <3>2, RootIsNoWhere DEF ProjectionTypes
  <2>2. CASE ~IsRoot(at)
    <3>1. UNCHANGED shown BY <2>2 DEF TurnEnded
    <3>2. \A s \in Slots : SlotFits(shown[s]) => shown[s] = Nowhere \/ shown[s].turn # at.turn
      BY <2>2 DEF SlotFits, IsRoot
    <3> QED BY <3>1, <3>2 DEF ProjectionTypes
  <2> QED BY <2>1, <2>2
<1>10. \A s \in Slots : SlotFits(shown[s]) BY DEF ScreenFitsTheTurns, SlotFits
<1>11. \A s \in Slots : SlotFits(shown[s])'
  BY <1>3, <1>4, <1>5, <1>6, <1>9, <1>10 DEF SlotFits, IsRoot
<1>12. EndedForAReason' BY <1>2, <1>3, <1>5, <1>6 DEF EndedForAReason
<1>13. \A t \in endedActive' : \E m \in messages' : m.at.turn = t
  BY <1>6, <1>7, <1>8 DEF ScreenFitsTheTurns
<1>14. \A x \in answered' \ early' : [at |-> x, text |-> "final"] \in messages'
  BY <1>2, <1>6 DEF ScreenFitsTheTurns
<1>15. ScreenFitsTheTurns' BY <1>11, <1>13, <1>14 DEF ScreenFitsTheTurns, SlotFits
<1> QED BY <1>1, <1>9, <1>12, <1>15 DEF ProjectionTypes

\* Every notification, in whatever order, keeps the invariant of the projection.
LEMMA ProjectionInductive == ASSUME ProjectionInv, [ProjectionNext]_projectionVars PROVE ProjectionInv'
<1> USE DEF ProjectionInv
<1>1. ASSUME NEW at \in About(NoItem, {"full", "without thread"}), TurnStarted(at) \/ TurnEnded(at) \/ HookCompleted(at)
      PROVE  ProjectionInv'
  <2>1. at \in About(NoItem, Completeness)
    BY WithTurn, AboutMore
  <2>2. at \in [turn : LiveTurns \union {NoTurn}, item : {NoItem}] BY <2>1, AboutType
  <2>3. at \in Named /\ at.item = NoItem BY <2>2 DEF Named
  <2>4. CASE TurnStarted(at)
    <3>1. owners' \subseteq [turn : LiveTurns, item : Items] BY <2>3, <2>4, RefsRemembered DEF TurnStarted
    <3> QED BY <2>4, <3>1 DEF TurnStarted, ProjectionTypes, EndedForAReason, ScreenFitsTheTurns, IsRoot
  <2>5. CASE HookCompleted(at)
    <3>1. owners' \subseteq [turn : LiveTurns, item : Items] BY <2>3, <2>5, RefsRemembered DEF HookCompleted
    <3>2. shown' \in [Slots -> Named] /\ \A s \in Slots : shown'[s] = Nowhere \/ shown'[s] = shown[s]
      BY <2>5, RootIsNoWhere DEF HookCompleted, Clear, ProjectionTypes
    <3>3. UNCHANGED <<endedTurns, endedItems, messages, endedActive, completed, answered, early>>
      BY <2>5 DEF HookCompleted
    <3> QED BY <3>1, <3>2, <3>3 DEF ProjectionTypes, EndedForAReason, ScreenFitsTheTurns, IsRoot
  <2> QED BY <1>1, <2>3, <2>4, <2>5, EndKeeps
<1>2. ASSUME NEW i \in Items, NEW at \in About(i, Completeness), ItemStarted(at) PROVE ProjectionInv'
  <2>1. at \in Named BY AboutType DEF Named
  <2>2. owners' \subseteq [turn : LiveTurns, item : Items] BY <1>2, <2>1, RefsRemembered DEF ItemStarted
  <2> QED BY <1>2, <2>2 DEF ItemStarted, ProjectionTypes, EndedForAReason, ScreenFitsTheTurns, IsRoot
<1>3. ASSUME NEW i \in Items, NEW at \in About(i, Completeness), NEW slot \in Slots, NEW blank \in BOOLEAN,
             Delta(slot, at, blank)
      PROVE  ProjectionInv'
  <2>1. at \in Named BY AboutType DEF Named
  <2> QED BY <1>3, <2>1, DeltaKeeps
<1>4. ASSUME NEW i \in Items, NEW at \in About(i, Completeness), NEW message \in BOOLEAN, NEW text \in BOOLEAN,
             ItemCompleted(at, message, text)
      PROVE  ProjectionInv'
  <2>1. at \in [turn : LiveTurns \union {NoTurn}, item : {i}] BY AboutType
  <2>2. at \in Named /\ at.item = i BY <2>1 DEF Named
  <2> QED BY <1>4, <2>2, ItemKeeps
<1>5. ASSUME NEW t \in RootTurns, TurnAnswered(t) PROVE ProjectionInv'
  BY <1>5 DEF TurnAnswered, ProjectionTypes, EndedForAReason, ScreenFitsTheTurns, IsRoot
<1>6. CASE UNCHANGED projectionVars
  BY <1>6 DEF projectionVars, ProjectionTypes, EndedForAReason, ScreenFitsTheTurns, IsRoot
<1> QED BY <1>1, <1>2, <1>3, <1>4, <1>5, <1>6 DEF ProjectionNext

\* What the screen shows as being written is; a turn that ends leaves an answer, its own, what
\* there was of it, or a notice; and the text an item was completed with is what is shown of it
\* (ScreenFitsTheTurns), however late, sparse or reordered the notifications are that
\* recordNativeEvent and applyDelta of ProjectWorkbench handle.
THEOREM ScreenAlwaysFits == ProjectionSpec => []ScreenFitsTheTurns
<1>1. ProjectionInit => ProjectionInv
  BY RootIsNoWhere DEF ProjectionInit, ProjectionInv, ProjectionTypes, EndedForAReason, ScreenFitsTheTurns
<1>2. ProjectionInv => ScreenFitsTheTurns BY DEF ProjectionInv
<1> QED BY <1>1, <1>2, ProjectionInductive, PTL DEF ProjectionSpec


-----------------------------------------------------------------------------
(* The shell of the model router.  What the user wants is the selection    *)
(* the picker or the login on the screen has staged; for this, what a      *)
(* login or a change of the settings finds under its own id must still be  *)
(* the overlay it began with.  It holds when /model learns the status      *)
(* before anything else happens (PromptStatus): the run ShellShortcuts     *)
(* shows the property violated when it does not.                           *)

Selections == LegacyProviders \union {""}
LegacyOverlays == [kind : {"none", "model", "auth", "selector", "panel"}, id : Nat, staged : Selections,
                   confirming : BOOLEAN, applying : BOOLEAN,
                   known : [LegacyProviders -> {"pending", "failed", "configured", "required"}]]
LegacyUis == [overlay : LegacyOverlays, shown : Nat, locked : BOOLEAN, pending : Selections, wants : Selections]
LegacyUpdates == [by : {"none", "picker", "login", "command"}, id : Nat, wanted : Selections, staged : Selections]
LegacyLogins == [id : Nat, provider : Selections, staged : Selections]

LegacyTypes ==
  /\ ui \in LegacyUis /\ settingsUpdate \in LegacyUpdates /\ logins \subseteq LegacyLogins
  /\ selectionInUse \in Selections

\* The overlay with the id of a login, or of a change of the settings after one, is the login's.
Owns(u, id, staged) ==
  /\ id \in 1..u.shown
  /\ id = u.overlay.id => u.overlay.kind = "auth" /\ u.overlay.staged = staged

OverlayIds(u) == u.overlay.id <= u.shown /\ (u.overlay.kind = "none" <=> u.overlay.id = 0)
WantedIsStaged(u) == u.wants # "" => u.overlay.kind \in {"model", "auth"} /\ u.overlay.staged = u.wants
LoginsOwn(u, ls) == \A l \in ls : Owns(u, l.id, l.staged)
UpdateOwns(u, update) ==
  /\ update.by = "login" =>
       Owns(u, update.id, update.staged) /\ (update.staged # "" => update.wanted = update.staged)
  /\ update.by = "picker" =>
       u.overlay.kind = "model" /\ u.overlay.applying /\ u.overlay.staged = update.wanted

OnScreen == OverlayIds(ui) /\ WantedIsStaged(ui) /\ LoginsOwn(ui, logins) /\ UpdateOwns(ui, settingsUpdate)
StatusOnBare == statusAsked # {} => ui.overlay.kind = "none"

LegacyInv == LegacyTypes /\ OnScreen /\ StatusOnBare

\* What the helpers that close and open overlays do.
LEMMA NoOverlayType == NoLegacyOverlay \in LegacyOverlays /\ NoLegacyOverlay.kind = "none" /\ NoLegacyOverlay.id = 0
  BY DEF NoLegacyOverlay, LegacyOverlays, Selections, Unasked

\* Closing the overlay leaves none, and what the user wants as it is.
LEMMA ClosedDoes ==
  ASSUME NEW u \in LegacyUis, OverlayIds(u)
  PROVE  /\ Closed(u) \in LegacyUis /\ Closed(u).overlay.kind = "none" /\ Closed(u).overlay.id = 0
         /\ Closed(u).shown = u.shown /\ Closed(u).wants = u.wants
  BY NoOverlayType DEF Closed, LegacyUis, OverlayIds

\* Showing an overlay gives it a new identity.
LEMMA ShownDoes ==
  ASSUME NEW u \in LegacyUis, NEW kind \in {"model", "auth", "selector", "panel"}, NEW staged \in Selections,
         NEW confirming \in BOOLEAN
  PROVE  LET v == Shown(u, kind, staged, confirming)
         IN  /\ v \in LegacyUis /\ v.shown = u.shown + 1 /\ v.wants = u.wants
             /\ v.overlay.kind = kind /\ v.overlay.id = u.shown + 1 /\ v.overlay.staged = staged
<1> DEFINE o == [NoLegacyOverlay EXCEPT !.kind = kind, !.id = u.shown + 1, !.staged = staged,
                                        !.confirming = confirming]
<1>1. u.shown \in Nat BY DEF LegacyUis
<1>2. o \in LegacyOverlays
  <2> DEFINE a == [NoLegacyOverlay EXCEPT !.kind = kind]
             b == [a EXCEPT !.id = u.shown + 1]
             c == [b EXCEPT !.staged = staged]
  <2>1. o = [c EXCEPT !.confirming = confirming] OBVIOUS
  <2>2. a \in LegacyOverlays BY NoOverlayType DEF LegacyOverlays
  <2> HIDE DEF a, o
  <2>3. b \in LegacyOverlays BY <1>1, <2>2 DEF LegacyOverlays
  <2> HIDE DEF b
  <2>4. c \in LegacyOverlays BY <2>3 DEF LegacyOverlays
  <2> HIDE DEF c
  <2> QED BY <2>1, <2>4 DEF LegacyOverlays
<1>3. o.kind = kind /\ o.id = u.shown + 1 /\ o.staged = staged BY NoOverlayType DEF LegacyOverlays
<1>4. Shown(u, kind, staged, confirming) = [u EXCEPT !.shown = @ + 1, !.overlay = o] BY DEF Shown
<1> DEFINE v == Shown(u, kind, staged, confirming)
<1> HIDE DEF o
<1>5. v \in LegacyUis
  <2> DEFINE w == [u EXCEPT !.shown = @ + 1]
  <2>1. w \in LegacyUis BY DEF LegacyUis
  <2>2. v = [w EXCEPT !.overlay = o] BY <1>4
  <2> HIDE DEF v, w
  <2> QED BY <1>2, <2>1, <2>2 DEF LegacyUis
<1>6. v.shown = u.shown + 1 /\ v.wants = u.wants /\ v.overlay = o BY <1>4 DEF LegacyUis
<1> QED BY <1>3, <1>5, <1>6

\* Opening a login gives it a new identity and keeps what is staged.
LEMMA LoginDoes ==
  ASSUME NEW u \in LegacyUis, NEW staged \in Selections, OverlayIds(u)
  PROVE  LET v == WithLogin(u, staged)
         IN  /\ v \in LegacyUis /\ v.shown = u.shown + 1 /\ v.wants = u.wants
             /\ v.overlay.kind = "auth" /\ v.overlay.id = u.shown + 1 /\ v.overlay.staged = staged
<1> DEFINE p == [u EXCEPT !.pending = staged]
<1>1. p \in LegacyUis /\ OverlayIds(p) /\ p.shown = u.shown /\ p.wants = u.wants
  BY DEF LegacyUis, OverlayIds
<1>2. WithLogin(u, staged) = Shown(Closed(p), "auth", staged, FALSE) BY DEF WithLogin
<1> HIDE DEF p
<1>3. Closed(p) \in LegacyUis /\ Closed(p).shown = u.shown /\ Closed(p).wants = u.wants BY <1>1, ClosedDoes
<1> DEFINE c == Closed(p)
           unconfirmed == FALSE
<1>5. WithLogin(u, staged) = Shown(c, "auth", staged, unconfirmed) /\ unconfirmed \in BOOLEAN BY <1>2
<1> HIDE DEF c, unconfirmed
<1>6. c \in LegacyUis /\ c.shown = u.shown /\ c.wants = u.wants BY <1>3 DEF c
<1> QED BY <1>5, <1>6, ShownDoes

\* Opening the picker gives it a new identity and keeps what is staged.
LEMMA PickerDoes ==
  ASSUME NEW u \in LegacyUis, NEW staged \in Selections, NEW confirming \in BOOLEAN, u.overlay.kind = "none"
  PROVE  LET v == WithPicker(u, staged, confirming)
         IN  /\ v \in LegacyUis /\ v.shown = u.shown + 1 /\ v.wants = u.wants
             /\ v.overlay.kind = "model" /\ v.overlay.id = u.shown + 1 /\ v.overlay.staged = staged
<1> DEFINE p == [u EXCEPT !.pending = ""]
<1>1. p \in LegacyUis /\ p.shown = u.shown /\ p.wants = u.wants BY DEF LegacyUis, Selections
<1>2. WithPicker(u, staged, confirming) = Shown(p, "model", staged, confirming) BY DEF WithPicker
<1> HIDE DEF p
<1> QED BY <1>1, <1>2, ShownDoes


\* A step leaves the overlay, closes it, or shows one that no login and no change knows.
SameOverlay(u, v) ==
  v.overlay.kind = u.overlay.kind /\ v.overlay.id = u.overlay.id /\ v.overlay.staged = u.overlay.staged
Moves(u, v) ==
  /\ v.shown \in Nat /\ v.shown >= u.shown
  /\ v.overlay.id = 0 \/ v.overlay.id > u.shown \/ SameOverlay(u, v)

\* Who owns what is staged owns it also when the overlay moves on.
LEMMA OwnsStays ==
  ASSUME NEW u, NEW v, Moves(u, v), u.shown \in Nat, NEW id \in Nat, NEW staged, Owns(u, id, staged)
  PROVE  Owns(v, id, staged)
  BY DEF Moves, Owns, SameOverlay

\* Logins and the update keep their ownership when the overlay moves on.
LEMMA MovesKeep ==
  ASSUME LegacyInv, NEW v \in LegacyUis, Moves(ui, v),
         settingsUpdate.by = "picker" => SameOverlay(ui, v) /\ v.overlay.applying = ui.overlay.applying
  PROVE  LoginsOwn(v, logins) /\ UpdateOwns(v, settingsUpdate)
<1>1. ui.shown \in Nat /\ settingsUpdate.id \in Nat /\ \A l \in logins : l.id \in Nat
  BY DEF LegacyInv, LegacyTypes, LegacyUis, LegacyUpdates, LegacyLogins
<1>2. LoginsOwn(v, logins) BY <1>1, OwnsStays DEF LegacyInv, OnScreen, LoginsOwn
<1>3. settingsUpdate.by = "login" => Owns(v, settingsUpdate.id, settingsUpdate.staged)
  BY <1>1, OwnsStays DEF LegacyInv, OnScreen, UpdateOwns
<1> QED BY <1>2, <1>3 DEF LegacyInv, OnScreen, UpdateOwns, SameOverlay

\* Settings the lock or what is pending moves no overlay.
LEMMA LockDoes ==
  ASSUME NEW u \in LegacyUis, NEW locked \in BOOLEAN, NEW staged \in Selections
  PROVE  /\ [u EXCEPT !.locked = locked] \in LegacyUis /\ [u EXCEPT !.locked = locked].overlay = u.overlay
         /\ [u EXCEPT !.locked = locked].shown = u.shown /\ [u EXCEPT !.locked = locked].wants = u.wants
         /\ [u EXCEPT !.pending = staged] \in LegacyUis /\ [u EXCEPT !.pending = staged].overlay = u.overlay
         /\ [u EXCEPT !.pending = staged].shown = u.shown /\ [u EXCEPT !.pending = staged].wants = u.wants
  BY DEF LegacyUis

\* A new wish changes nothing of the overlay.
LEMMA WantsDoes ==
  ASSUME NEW u \in LegacyUis, NEW wants \in Selections, NEW v, v = [u EXCEPT !.wants = wants]
  PROVE  v \in LegacyUis /\ v.overlay = u.overlay /\ v.shown = u.shown /\ v.wants = wants
  BY DEF LegacyUis

\* A login that ends, well or not, closes or replaces its own overlay only.
LEMMA CloseOwnDoes ==
  ASSUME NEW u \in LegacyUis, OverlayIds(u), NEW id \in Nat, NEW v, v = CloseOwn(u, id)
  PROVE  /\ v \in LegacyUis /\ OverlayIds(v) /\ v.shown = u.shown /\ v.wants = u.wants
         /\ u.overlay.id = id => v.overlay.kind = "none" /\ v.overlay.id = 0
         /\ u.overlay.id # id => v = u
<1>1. CASE u.overlay.id = id BY <1>1, ClosedDoes DEF CloseOwn, OverlayIds, LegacyUis
<1>2. CASE u.overlay.id # id BY <1>2 DEF CloseOwn
<1> QED BY <1>1, <1>2

\* After a failed login what the user wants is on the screen.
LEMMA FailedLoginDoes ==
  ASSUME NEW u \in LegacyUis, OverlayIds(u), WantedIsStaged(u), NEW update, update.id \in Nat,
         update.staged \in Selections, Owns(u, update.id, update.staged),
         NEW v, v = AfterFailedLogin(u, update)
  PROVE  v \in LegacyUis /\ OverlayIds(v) /\ WantedIsStaged(v) /\ Moves(u, v) /\ v.wants = u.wants
<1> DEFINE w == [u EXCEPT !.locked = FALSE]
           c == CloseOwn(w, update.id)
           confirming == TRUE
<1>1. w \in LegacyUis /\ w.overlay = u.overlay /\ w.shown = u.shown /\ w.wants = u.wants BY LockDoes
<1>2. v = IF update.staged # "" THEN WithPicker(c, update.staged, confirming) ELSE c
  BY DEF AfterFailedLogin
<1>3. confirming \in BOOLEAN OBVIOUS
<1> HIDE DEF w, confirming
<1>4. OverlayIds(w) BY <1>1 DEF OverlayIds
<1>5. /\ c \in LegacyUis /\ OverlayIds(c) /\ c.shown = u.shown /\ c.wants = u.wants
      /\ u.overlay.id = update.id => c.overlay.kind = "none" /\ c.overlay.id = 0
      /\ u.overlay.id # update.id => c = w
  BY <1>1, <1>4, CloseOwnDoes
<1>6. u.shown \in Nat /\ u.wants \in Selections BY DEF LegacyUis
<1> HIDE DEF c
<1>7. CASE update.staged # "" /\ c.overlay.kind = "none"
  <2>1. /\ v \in LegacyUis /\ v.shown = u.shown + 1 /\ v.wants = u.wants /\ v.overlay.kind = "model"
        /\ v.overlay.id = u.shown + 1 /\ v.overlay.staged = update.staged
    <3>1. v = WithPicker(c, update.staged, confirming) BY <1>2, <1>7
    <3>2. c \in LegacyUis /\ c.overlay.kind = "none" /\ c.shown = u.shown /\ c.wants = u.wants BY <1>5, <1>7
    <3> QED BY <1>3, <3>1, <3>2, PickerDoes
  <2>2. u.wants # "" => u.wants = update.staged
    <3>1. u.overlay.kind = "none" \/ u.overlay.id = update.id BY <1>1, <1>5, <1>7
    <3>2. u.overlay.kind = "none" => u.wants = "" BY DEF WantedIsStaged
    <3> QED BY <3>1, <3>2 DEF WantedIsStaged, Owns
  <2>3. OverlayIds(v) /\ Moves(u, v) BY <1>6, <2>1 DEF OverlayIds, Moves
  <2>4. WantedIsStaged(v) BY <2>1, <2>2 DEF WantedIsStaged
  <2> QED BY <2>1, <2>3, <2>4
<1>8. CASE ~(update.staged # "" /\ c.overlay.kind = "none")
  <2>1. v = c BY <1>2, <1>8 DEF WithPicker
  <2>2. WantedIsStaged(c)
    <3>1. CASE u.overlay.id = update.id
      <4>1. update.staged = "" BY <1>5, <1>8, <3>1
      <4> QED BY <1>5, <3>1, <4>1 DEF WantedIsStaged, Owns
    <3>2. CASE u.overlay.id # update.id BY <1>1, <1>5, <3>2 DEF WantedIsStaged
    <3> QED BY <3>1, <3>2
  <2>3. Moves(u, c) BY <1>1, <1>5, <1>6 DEF Moves, SameOverlay
  <2> QED BY <1>5, <2>1, <2>2, <2>3
<1> QED BY <1>7, <1>8


\* What a step from the bare screen, or without a change under way from the picker, leaves to show.
LEMMA StepKeeps ==
  ASSUME LegacyInv, ui' \in LegacyUis, OverlayIds(ui'), WantedIsStaged(ui'), Moves(ui, ui'),
         settingsUpdate.by = "picker" => SameOverlay(ui, ui') /\ ui'.overlay.applying = ui.overlay.applying,
         logins' \subseteq logins, UNCHANGED <<settingsUpdate, selectionInUse>>, StatusOnBare'
  PROVE  LegacyInv'
<1>1. LoginsOwn(ui', logins) /\ UpdateOwns(ui', settingsUpdate) BY MovesKeep
<1>2. OnScreen' BY <1>1 DEF OnScreen, LoginsOwn
<1> QED BY <1>2 DEF LegacyInv, LegacyTypes

\* A login that begins is one of the logins, with the identity of its overlay.
LEMMA LoginIs ==
  ASSUME NEW id \in Nat, NEW p \in Selections, NEW staged \in Selections, NEW l,
         l = [id |-> id + 1, provider |-> p, staged |-> staged]
  PROVE  l \in LegacyLogins /\ l.id = id + 1 /\ l.staged = staged
  BY DEF LegacyLogins

\* A new overlay has the newest identity, and a login owns what it stages.
LEMMA OwnsNew ==
  ASSUME NEW u, NEW v, u.shown \in Nat, v.shown = u.shown + 1, v.overlay.id = u.shown + 1,
         v.overlay.kind \in {"model", "auth", "selector", "panel"}
  PROVE  /\ OverlayIds(v) /\ Moves(u, v)
         /\ v.overlay.kind = "auth" => Owns(v, u.shown + 1, v.overlay.staged)
<1>1. OverlayIds(v) BY DEF OverlayIds
<1>2. Moves(u, v) BY DEF Moves
<1>3. v.overlay.kind = "auth" => Owns(v, u.shown + 1, v.overlay.staged) BY DEF Owns
<1> QED BY <1>1, <1>2, <1>3

\* With the overlay and the wish unchanged, what the user wants is as it was.
LEMMA OverlayStays ==
  ASSUME NEW u, NEW v, u.shown \in Nat, v.shown = u.shown, SameOverlay(u, v), v.wants = u.wants
  PROVE  /\ Moves(u, v) /\ (OverlayIds(u) => OverlayIds(v))
         /\ WantedIsStaged(u) => WantedIsStaged(v)
<1>1. Moves(u, v) BY DEF Moves
<1>2. OverlayIds(u) => OverlayIds(v) BY DEF OverlayIds, SameOverlay
<1>3. WantedIsStaged(u) => WantedIsStaged(v) BY DEF WantedIsStaged, SameOverlay
<1> QED BY <1>1, <1>2, <1>3

\* A login begins on an overlay of its own.
LEMMA LoginKeeps ==
  ASSUME LegacyInv, settingsUpdate.by # "picker", NEW p \in Selections, NEW staged \in Selections,
         NEW wants \in Selections, wants # "" => wants = staged,
         ui' = [WithLogin(ui, staged) EXCEPT !.wants = wants],
         logins' = logins \union {[id |-> ui.shown + 1, provider |-> p, staged |-> staged]},
         UNCHANGED <<settingsUpdate, selectionInUse>>, StatusOnBare'
  PROVE  LegacyInv'
<1> DEFINE w == WithLogin(ui, staged)
           l == [id |-> ui.shown + 1, provider |-> p, staged |-> staged]
<1>1. ui \in LegacyUis /\ ui.shown \in Nat /\ OverlayIds(ui)
  BY DEF LegacyInv, LegacyTypes, OnScreen, LegacyUis
<1>2. /\ w \in LegacyUis /\ w.shown = ui.shown + 1
      /\ w.overlay.kind = "auth" /\ w.overlay.id = ui.shown + 1 /\ w.overlay.staged = staged
  BY <1>1, LoginDoes
<1>3. l \in LegacyLogins /\ l.id = ui.shown + 1 /\ l.staged = staged BY <1>1, LoginIs
<1>4. ui' = [w EXCEPT !.wants = wants] /\ logins' = logins \union {l} OBVIOUS
<1> HIDE DEF w, l
<1>5. ui' \in LegacyUis /\ ui'.overlay = w.overlay /\ ui'.shown = ui.shown + 1 /\ ui'.wants = wants
  <2>1. w \in LegacyUis /\ w.shown = ui.shown + 1 BY <1>2
  <2>2. ui' = [w EXCEPT !.wants = wants] BY <1>4
  <2>3. ui' \in LegacyUis /\ ui'.overlay = w.overlay /\ ui'.shown = w.shown /\ ui'.wants = wants
    BY <2>1, <2>2 DEF LegacyUis
  <2> QED BY <2>1, <2>3
<1>6. OverlayIds(ui') /\ Moves(ui, ui') /\ Owns(ui', ui.shown + 1, staged) BY <1>1, <1>2, <1>5, OwnsNew
<1>7. WantedIsStaged(ui') BY <1>2, <1>5 DEF WantedIsStaged
<1>8. LoginsOwn(ui', logins) /\ UpdateOwns(ui', settingsUpdate) BY <1>5, <1>6, MovesKeep
<1>9. Owns(ui', l.id, l.staged) BY <1>3, <1>6
<1>10. LoginsOwn(ui', logins') BY <1>4, <1>8, <1>9 DEF LoginsOwn
<1>11. OnScreen' BY <1>6, <1>7, <1>8, <1>10 DEF OnScreen
<1> QED BY <1>3, <1>4, <1>5, <1>11 DEF LegacyInv, LegacyTypes

\* An update that begins on the overlay as it is keeps the invariant.
LEMMA UpdateBegins ==
  ASSUME LegacyInv, ui' \in LegacyUis, SameOverlay(ui, ui'), ui'.shown = ui.shown, ui'.wants = ui.wants,
         settingsUpdate' \in LegacyUpdates, UpdateOwns(ui', settingsUpdate'),
         logins' \subseteq logins, UNCHANGED selectionInUse, StatusOnBare'
  PROVE  LegacyInv'
<1>1. ui.shown \in Nat BY DEF LegacyInv, LegacyTypes, LegacyUis
<1>2. OverlayIds(ui') /\ WantedIsStaged(ui') /\ Moves(ui, ui')
  BY <1>1, OverlayStays DEF LegacyInv, OnScreen
<1>3. LoginsOwn(ui', logins')
  <2>1. \A l \in logins : l.id \in Nat /\ Owns(ui, l.id, l.staged)
    BY DEF LegacyInv, LegacyTypes, LegacyLogins, OnScreen, LoginsOwn
  <2> QED BY <1>1, <1>2, <2>1, OwnsStays DEF LoginsOwn
<1>4. OnScreen' BY <1>2, <1>3 DEF OnScreen
<1> QED BY <1>4 DEF LegacyInv, LegacyTypes


\* The end of a change of the settings, whoever awaits it: what the user wanted is applied, or
\* it is on the screen as it was.
EndFits(u, v) ==
  /\ v \in LegacyUis /\ OverlayIds(v) /\ Moves(u, v) /\ v.wants = u.wants

\* The update of a picker fulfils the wish or leaves it on the screen.
LEMMA PickerEnds ==
  ASSUME NEW u \in LegacyUis, OverlayIds(u), WantedIsStaged(u), NEW update \in LegacyUpdates,
         UpdateOwns(u, update), update.by = "picker", NEW ok \in BOOLEAN,
         NEW v, v = AfterUpdate(u, update, ok)
  PROVE  EndFits(u, v) /\ (IF ok THEN u.wants \in {"", update.wanted} ELSE WantedIsStaged(v))
<1> DEFINE w == [u EXCEPT !.locked = FALSE]
<1>1. w \in LegacyUis /\ w.overlay = u.overlay /\ w.shown = u.shown /\ w.wants = u.wants BY DEF LegacyUis
<1>2. u.shown \in Nat BY DEF LegacyUis
<1>3. CASE ok
  <2>1. v = Closed(w) BY <1>3 DEF AfterUpdate
  <2> HIDE DEF w
  <2>2. OverlayIds(w) BY <1>1 DEF OverlayIds
  <2>3. v \in LegacyUis /\ v.overlay.kind = "none" /\ v.overlay.id = 0 /\ v.shown = u.shown /\ v.wants = u.wants
    BY <1>1, <2>1, <2>2, ClosedDoes
  <2>4. u.wants \in {"", update.wanted} BY DEF WantedIsStaged, UpdateOwns
  <2>5. OverlayIds(v) /\ Moves(u, v) BY <1>2, <2>3 DEF OverlayIds, Moves
  <2> QED BY <1>3, <2>3, <2>4, <2>5 DEF EndFits
<1>4. CASE ~ok
  <2> DEFINE applying == u.overlay.applying /\ u.overlay.id # update.id
  <2>1. v = [w EXCEPT !.overlay.applying = applying] BY <1>4 DEF AfterUpdate
  <2>2. applying \in BOOLEAN OBVIOUS
  <2> HIDE DEF w, applying
  <2>3. v \in LegacyUis BY <1>1, <2>1, <2>2 DEF LegacyUis, LegacyOverlays
  <2>4. SameOverlay(u, v) /\ v.shown = u.shown /\ v.wants = u.wants
    BY <1>1, <2>1 DEF SameOverlay, LegacyUis, LegacyOverlays
  <2> QED BY <1>2, <1>4, <2>3, <2>4, OverlayStays DEF EndFits
<1> QED BY <1>3, <1>4

\* The update of a login fulfils the wish or leaves it on the screen.
LEMMA LoginEnds ==
  ASSUME NEW u \in LegacyUis, OverlayIds(u), WantedIsStaged(u), NEW update \in LegacyUpdates,
         UpdateOwns(u, update), update.by = "login", NEW ok \in BOOLEAN,
         NEW v, v = AfterUpdate(u, update, ok)
  PROVE  EndFits(u, v) /\ (u.wants \in {"", update.wanted} \/ WantedIsStaged(v)) /\ (~ok => WantedIsStaged(v))
<1>1. u.shown \in Nat /\ update.id \in Nat /\ update.staged \in Selections BY DEF LegacyUis, LegacyUpdates
<1>2. Owns(u, update.id, update.staged) /\ (update.staged # "" => update.wanted = update.staged) BY DEF UpdateOwns
<1>3. CASE ok
  <2> DEFINE w == [[u EXCEPT !.locked = FALSE] EXCEPT !.pending = ""]
  <2>1. w \in LegacyUis /\ w.overlay = u.overlay /\ w.shown = u.shown /\ w.wants = u.wants
    BY DEF LegacyUis, Selections
  <2>2. v = CloseOwn(w, update.id) BY <1>3 DEF AfterUpdate
  <2> HIDE DEF w
  <2>3. OverlayIds(w) BY <2>1 DEF OverlayIds
  <2>4. /\ v \in LegacyUis /\ OverlayIds(v) /\ v.shown = u.shown /\ v.wants = u.wants
        /\ u.overlay.id = update.id => v.overlay.kind = "none" /\ v.overlay.id = 0
        /\ u.overlay.id # update.id => v = w
    <3>1. v = IF w.overlay.id = update.id THEN Closed(w) ELSE w BY <2>2 DEF CloseOwn
    <3>2. /\ Closed(w) \in LegacyUis /\ Closed(w).overlay.kind = "none" /\ Closed(w).overlay.id = 0
          /\ Closed(w).shown = w.shown /\ Closed(w).wants = w.wants
      BY <2>1, <2>3, ClosedDoes
    <3>3. w.shown \in Nat BY <2>1 DEF LegacyUis
    <3>4. OverlayIds(v) BY <2>3, <3>1, <3>2, <3>3 DEF OverlayIds
    <3> QED BY <2>1, <3>1, <3>2, <3>4
  <2>5. CASE u.overlay.id = update.id
    <3>1. u.wants \in {"", update.wanted} BY <1>2, <2>5 DEF Owns, WantedIsStaged
    <3>2. Moves(u, v) BY <1>1, <2>4, <2>5 DEF Moves
    <3> QED BY <1>3, <2>4, <3>1, <3>2 DEF EndFits
  <2>6. CASE u.overlay.id # update.id
    <3>1. SameOverlay(u, v) BY <2>1, <2>4, <2>6 DEF SameOverlay
    <3> QED BY <1>1, <1>3, <2>4, <3>1, OverlayStays DEF EndFits
  <2> QED BY <2>5, <2>6
<1>4. CASE ~ok
  <2>1. v = AfterFailedLogin(u, update) BY <1>4 DEF AfterUpdate
  <2> QED BY <1>1, <1>2, <2>1, FailedLoginDoes DEF EndFits
<1> QED BY <1>3, <1>4

\* The end of an update, of the picker or a login, keeps the invariant.
LEMMA UpdateEndKeeps ==
  ASSUME LegacyInv, NEW ok \in BOOLEAN, UpdateEnds(ok), StatusOnBare'
  PROVE  LegacyInv'
<1> DEFINE next == AfterUpdate(ui, settingsUpdate, ok)
           wants == IF ok /\ next.wants = settingsUpdate.wanted THEN "" ELSE next.wants
<1>1. ui \in LegacyUis /\ settingsUpdate \in LegacyUpdates /\ OverlayIds(ui) /\ WantedIsStaged(ui)
  BY DEF LegacyInv, LegacyTypes, OnScreen
<1>2. UpdateOwns(ui, settingsUpdate) /\ LoginsOwn(ui, logins) BY DEF LegacyInv, OnScreen
<1>3. ui' = [next EXCEPT !.wants = IF ok /\ @ = settingsUpdate.wanted THEN "" ELSE @] BY DEF UpdateEnds
<1>4. settingsUpdate' = NoUpdate /\ UNCHANGED <<logins, statusAsked>> BY DEF UpdateEnds
<1>5. selectionInUse' \in Selections
  BY DEF UpdateEnds, LegacyInv, LegacyTypes, LegacyUpdates
<1>6. EndFits(ui, next) /\ (WantedIsStaged(next) \/ (ok /\ ui.wants \in {"", settingsUpdate.wanted}))
  <2>1. CASE settingsUpdate.by = "picker" BY <1>1, <1>2, <2>1, PickerEnds
  <2>2. CASE settingsUpdate.by = "login" BY <1>1, <1>2, <2>2, LoginEnds
  <2>3. CASE settingsUpdate.by \notin {"picker", "login"}
    <3>1. next = ui BY <2>3 DEF AfterUpdate
    <3>2. ui.shown \in Nat BY <1>1 DEF LegacyUis
    <3>3. Moves(ui, ui) BY <3>2, OverlayStays DEF SameOverlay
    <3> HIDE DEF next
    <3> QED BY <1>1, <3>1, <3>3 DEF EndFits
  <2> HIDE DEF next
  <2> QED BY <2>1, <2>2, <2>3
<1> HIDE DEF next
<1>7. ui' = [next EXCEPT !.wants = wants] BY <1>3 DEF EndFits
<1>8. wants \in Selections BY <1>6 DEF EndFits, LegacyUis, Selections
<1>9. WantedIsStaged(next) \/ wants = "" BY <1>6 DEF EndFits
<1>10. wants = "" \/ wants = next.wants OBVIOUS
<1> HIDE DEF wants
<1>11. ui' \in LegacyUis /\ ui'.overlay = next.overlay /\ ui'.shown = next.shown /\ ui'.wants = wants
  BY <1>6, <1>7, <1>8, WantsDoes DEF EndFits
<1>12. OverlayIds(ui') /\ Moves(ui, ui')
  BY <1>6, <1>11 DEF EndFits, OverlayIds, Moves, SameOverlay
<1>13. WantedIsStaged(ui') BY <1>9, <1>10, <1>11 DEF WantedIsStaged
<1>14. LoginsOwn(ui', logins')
  <2>1. ui.shown \in Nat /\ \A l \in logins : l.id \in Nat /\ Owns(ui, l.id, l.staged)
    BY <1>1, <1>2 DEF LegacyInv, LegacyTypes, LegacyLogins, LegacyUis, LoginsOwn
  <2> QED BY <1>4, <1>12, <2>1, OwnsStays DEF LoginsOwn
<1>15. NoUpdate \in LegacyUpdates /\ UpdateOwns(ui', NoUpdate) BY DEF NoUpdate, LegacyUpdates, Selections, UpdateOwns
<1>16. OnScreen' BY <1>4, <1>12, <1>13, <1>14, <1>15 DEF OnScreen
<1> QED BY <1>4, <1>5, <1>11, <1>15, <1>16 DEF LegacyInv, LegacyTypes


\* Cancelling a login keeps the invariant.
LEMMA CancelKeeps ==
  ASSUME LegacyInv, CancelLogin, StatusOnBare' PROVE LegacyInv'
<1> DEFINE p == [ui EXCEPT !.pending = ""]
           back == Closed(p)
           confirming == TRUE
           staged == ui.overlay.staged
<1>1. ui \in LegacyUis /\ OverlayIds(ui) /\ WantedIsStaged(ui) /\ ui.overlay.kind = "auth" /\ settingsUpdate.by # "picker"
  BY DEF LegacyInv, LegacyTypes, OnScreen, CancelLogin, LegacyShowing, UpdateOwns
<1>2. ui.shown \in Nat /\ staged \in Selections BY <1>1 DEF LegacyUis, LegacyOverlays
<1>3. p \in LegacyUis /\ p.overlay = ui.overlay /\ p.shown = ui.shown /\ p.wants = ui.wants
  BY <1>1 DEF LegacyUis, Selections
<1>4. ui' = IF staged # "" THEN WithPicker(back, staged, confirming) ELSE back BY DEF CancelLogin
<1>5. confirming \in BOOLEAN OBVIOUS
<1>6. UNCHANGED <<settingsUpdate, selectionInUse>> /\ logins' \subseteq logins BY DEF CancelLogin, KeepsSession
<1> HIDE DEF p
<1>7. OverlayIds(p) BY <1>1, <1>3 DEF OverlayIds
<1>8. /\ back \in LegacyUis /\ back.overlay.kind = "none" /\ back.overlay.id = 0
      /\ back.shown = ui.shown /\ back.wants = ui.wants
  BY <1>3, <1>7, ClosedDoes
<1> HIDE DEF back, confirming, staged
<1>9. ui.wants # "" => ui.wants = staged BY <1>1 DEF WantedIsStaged, staged
<1>10. CASE staged # ""
  <2>1. ui' = WithPicker(back, staged, confirming) BY <1>4, <1>10
  <2>2. /\ ui' \in LegacyUis /\ ui'.shown = ui.shown + 1 /\ ui'.wants = ui.wants /\ ui'.overlay.kind = "model"
        /\ ui'.overlay.id = ui.shown + 1 /\ ui'.overlay.staged = staged
    BY <1>2, <1>5, <1>8, <2>1, PickerDoes
  <2>3. OverlayIds(ui') /\ Moves(ui, ui') BY <1>2, <2>2, OwnsNew
  <2>4. WantedIsStaged(ui') BY <1>9, <2>2 DEF WantedIsStaged
  <2> QED BY <1>1, <1>6, <2>2, <2>3, <2>4, StepKeeps
<1>11. CASE staged = ""
  <2>1. ui' = back BY <1>4, <1>11
  <2>2. OverlayIds(ui') /\ Moves(ui, ui') BY <1>2, <1>8, <2>1 DEF OverlayIds, Moves
  <2>3. WantedIsStaged(ui') BY <1>8, <1>9, <1>11, <2>1 DEF WantedIsStaged
  <2> QED BY <1>1, <1>6, <1>8, <2>1, <2>2, <2>3, StepKeeps
<1> QED BY <1>10, <1>11

\* A login that succeeds keeps the invariant.
LEMMA LoginSucceedsKeeps ==
  ASSUME LegacyInv, NEW l \in logins, LoginSucceeds(l), StatusOnBare' PROVE LegacyInv'
<1>1. ui \in LegacyUis /\ OverlayIds(ui) /\ WantedIsStaged(ui) /\ Owns(ui, l.id, l.staged) /\ l \in LegacyLogins
  BY DEF LegacyInv, LegacyTypes, OnScreen, LoginsOwn
<1>2. ui.shown \in Nat /\ l.id \in Nat /\ l.staged \in Selections /\ l.provider \in Selections
  BY <1>1 DEF LegacyUis, LegacyLogins
<1>3. logins' \subseteq logins /\ UNCHANGED selectionInUse BY DEF LoginSucceeds
<1>4. CASE UNCHANGED <<ui, settingsUpdate>>
  <2>1. SameOverlay(ui, ui') /\ ui'.shown = ui.shown /\ ui'.wants = ui.wants BY <1>4 DEF SameOverlay
  <2>2. settingsUpdate' \in LegacyUpdates /\ UpdateOwns(ui', settingsUpdate') BY <1>4 DEF LegacyInv, LegacyTypes, OnScreen
  <2> QED BY <1>1, <1>3, <1>4, <2>1, <2>2, UpdateBegins
<1>5. CASE ui.overlay.id = l.id
  <2>1. ui.overlay.kind = "auth" /\ ui.overlay.staged = l.staged BY <1>1, <1>5 DEF Owns
  <2>2. settingsUpdate.by # "picker" BY <2>1 DEF LegacyInv, OnScreen, UpdateOwns
  <2>3. ui.wants # "" => ui.wants = l.staged BY <1>1, <2>1 DEF WantedIsStaged
  <2>4. CASE l.staged # "" /\ Streaming
    <3> DEFINE p == [ui EXCEPT !.pending = ""]
               back == Closed(p)
               confirming == TRUE
    <3>1. p \in LegacyUis /\ p.overlay = ui.overlay /\ p.shown = ui.shown /\ p.wants = ui.wants
      BY <1>1 DEF LegacyUis, Selections
    <3>2. ui' = WithPicker(back, l.staged, confirming) /\ UNCHANGED settingsUpdate BY <1>5, <2>4 DEF LoginSucceeds
    <3>3. confirming \in BOOLEAN OBVIOUS
    <3> HIDE DEF p
    <3>4. OverlayIds(p) BY <1>1, <3>1 DEF OverlayIds
    <3>5. back \in LegacyUis /\ back.overlay.kind = "none" /\ back.shown = ui.shown /\ back.wants = ui.wants
      BY <3>1, <3>4, ClosedDoes
    <3> HIDE DEF back, confirming
    <3>6. /\ ui' \in LegacyUis /\ ui'.shown = ui.shown + 1 /\ ui'.wants = ui.wants /\ ui'.overlay.kind = "model"
          /\ ui'.overlay.id = ui.shown + 1 /\ ui'.overlay.staged = l.staged
      BY <1>2, <3>2, <3>3, <3>5, PickerDoes
    <3>7. OverlayIds(ui') /\ Moves(ui, ui') BY <1>2, <3>6, OwnsNew
    <3>8. WantedIsStaged(ui') BY <2>3, <3>6 DEF WantedIsStaged
    <3> QED BY <1>3, <2>2, <3>2, <3>6, <3>7, <3>8, StepKeeps
  <2>5. CASE ~(l.staged # "" /\ Streaming) /\ l.staged = "" /\ l.provider = selectionInUse
    <3> DEFINE update == [NoUpdate EXCEPT !.by = "login", !.id = l.id]
               ok == TRUE
    <3>1. ui' = AfterUpdate(ui, update, ok) /\ UNCHANGED settingsUpdate BY <1>5, <2>5 DEF LoginSucceeds
    <3>2. update \in LegacyUpdates /\ update.by = "login" /\ update.id = l.id /\ update.staged = ""
      BY <1>2 DEF NoUpdate, LegacyUpdates, Selections
    <3>3. ok \in BOOLEAN OBVIOUS
    <3> HIDE DEF update, ok
    <3>4. UpdateOwns(ui, update) BY <1>1, <2>5, <3>2 DEF UpdateOwns
    <3>5. EndFits(ui, ui') BY <1>1, <3>1, <3>2, <3>3, <3>4, LoginEnds
    <3>6. ui'.wants = "" BY <2>3, <2>5, <3>5 DEF EndFits
    <3> QED BY <1>3, <2>2, <3>1, <3>5, <3>6, StepKeeps DEF EndFits, WantedIsStaged
  <2>6. CASE ~(l.staged # "" /\ Streaming) /\ ~(l.staged = "" /\ l.provider = selectionInUse) /\ MayUpdate
    <3> DEFINE wanted == IF l.staged # "" THEN l.staged ELSE l.provider
    <3>1. ui' = [ui EXCEPT !.locked = TRUE]
      BY <1>5, <2>6 DEF LoginSucceeds
    <3>2. settingsUpdate' = [by |-> "login", id |-> l.id, wanted |-> wanted, staged |-> l.staged]
      BY <1>5, <2>6 DEF LoginSucceeds, Updating
    <3>3. wanted \in Selections /\ (l.staged # "" => wanted = l.staged) BY <1>2 DEF Selections
    <3> HIDE DEF wanted
    <3>4. ui' \in LegacyUis /\ SameOverlay(ui, ui') /\ ui'.shown = ui.shown /\ ui'.wants = ui.wants
      BY <1>1, <3>1 DEF LegacyUis, SameOverlay
    <3>5. settingsUpdate' \in LegacyUpdates BY <1>2, <3>2, <3>3 DEF LegacyUpdates
    <3>6. /\ settingsUpdate'.by = "login" /\ settingsUpdate'.id = l.id
          /\ settingsUpdate'.wanted = wanted /\ settingsUpdate'.staged = l.staged
      BY <3>2
    <3>7. Owns(ui', l.id, l.staged) BY <1>1, <3>4 DEF Owns, SameOverlay
    <3>8. UpdateOwns(ui', settingsUpdate') BY <3>3, <3>6, <3>7 DEF UpdateOwns
    <3> QED BY <1>3, <3>4, <3>5, <3>8, UpdateBegins
  <2>7. CASE ~(l.staged # "" /\ Streaming) /\ ~(l.staged = "" /\ l.provider = selectionInUse) /\ ~MayUpdate
    <3> DEFINE update == [NoUpdate EXCEPT !.id = l.id, !.staged = l.staged]
    <3>1. ui' = AfterFailedLogin(ui, update) /\ UNCHANGED settingsUpdate BY <1>5, <2>7 DEF LoginSucceeds
    <3>2. update.id = l.id /\ update.staged = l.staged BY DEF NoUpdate
    <3> HIDE DEF update
    <3>3. ui' \in LegacyUis /\ OverlayIds(ui') /\ WantedIsStaged(ui') /\ Moves(ui, ui')
      BY <1>1, <1>2, <3>1, <3>2, FailedLoginDoes
    <3> QED BY <1>3, <2>2, <3>1, <3>3, StepKeeps
  <2> QED BY <2>4, <2>5, <2>6, <2>7
<1> QED BY <1>4, <1>5 DEF LoginSucceeds


\* A selector or a panel is an overlay with a new identity.
LEMMA AnotherDoes ==
  ASSUME NEW u \in LegacyUis, NEW kind \in {"selector", "panel"}, NEW none \in Selections,
         NEW confirming \in BOOLEAN, NEW v, v = Shown(u, kind, none, confirming)
  PROVE  /\ v \in LegacyUis /\ v.shown = u.shown + 1 /\ v.wants = u.wants
         /\ v.overlay.kind = kind /\ v.overlay.id = u.shown + 1
<1>1. kind \in {"model", "auth", "selector", "panel"} OBVIOUS
<1> QED BY <1>1, ShownDoes

\* Opening the picker, a selector or a panel keeps the invariant.
LEMMA OpenKeeps ==
  ASSUME LegacyInv, StatusOnBare', OpenModel \/ \E kind \in {"selector", "panel"} : OpenAnother(kind)
  PROVE  LegacyInv'
<1>1. ui \in LegacyUis /\ OverlayIds(ui) /\ WantedIsStaged(ui) /\ selectionInUse \in Selections
  BY DEF LegacyInv, LegacyTypes, OnScreen
<1>2. ui.overlay.kind = "none" BY DEF OpenModel, OpenAnother, MayOpen, LegacyShowing
<1>3. ui.wants = "" /\ settingsUpdate.by # "picker"
  BY <1>1, <1>2 DEF WantedIsStaged, LegacyInv, OnScreen, UpdateOwns
<1>4. UNCHANGED <<settingsUpdate, logins, selectionInUse>> BY DEF OpenModel, OpenAnother, KeepsSession
<1>5. ui.shown \in Nat /\ Initial \in Selections BY <1>1 DEF LegacyUis, Initial
<1> DEFINE confirming == FALSE
<1>6. confirming \in BOOLEAN OBVIOUS
<1>7. CASE OpenModel
  <2>1. ui' = WithPicker(ui, Initial, confirming) BY <1>7 DEF OpenModel
  <2> HIDE DEF confirming
  <2>2. /\ ui' \in LegacyUis /\ ui'.shown = ui.shown + 1 /\ ui'.wants = ui.wants
        /\ ui'.overlay.kind = "model" /\ ui'.overlay.id = ui.shown + 1
    BY <1>1, <1>2, <1>5, <1>6, <2>1, PickerDoes
  <2>3. OverlayIds(ui') /\ Moves(ui, ui') BY <1>5, <2>2, OwnsNew
  <2> QED BY <1>3, <1>4, <2>2, <2>3, StepKeeps DEF WantedIsStaged
<1>8. ASSUME NEW kind \in {"selector", "panel"}, OpenAnother(kind) PROVE LegacyInv'
  <2> DEFINE none == ""
  <2>1. ui' = Shown(ui, kind, none, confirming) BY <1>8 DEF OpenAnother
  <2>5. none \in Selections BY DEF Selections
  <2> HIDE DEF none, confirming
  <2>2. kind \in {"model", "auth", "selector", "panel"} OBVIOUS
  <2>3. /\ ui' \in LegacyUis /\ ui'.shown = ui.shown + 1 /\ ui'.wants = ui.wants
        /\ ui'.overlay.kind = kind /\ ui'.overlay.id = ui.shown + 1
    BY <1>1, <1>6, <2>1, <2>5, AnotherDoes
  <2>4. OverlayIds(ui') /\ Moves(ui, ui') BY <1>5, <2>2, <2>3, OwnsNew
  <2> QED BY <1>3, <1>4, <2>3, <2>4, StepKeeps DEF WantedIsStaged
<1> QED BY <1>7, <1>8

\* Moving about in the picker, with lookups that succeed or fail, keeps the invariant.
LEMMA PickerKeeps ==
  ASSUME LegacyInv, StatusOnBare',
         Dismiss \/ Back \/ (\E p \in LegacyProviders : Stage(p) \/ \E failed \in BOOLEAN : Lookup(p, failed))
  PROVE  LegacyInv'
<1>1. ui \in LegacyUis /\ OverlayIds(ui) /\ WantedIsStaged(ui) BY DEF LegacyInv, LegacyTypes, OnScreen
<1>2. UNCHANGED <<settingsUpdate, logins, selectionInUse>> BY DEF Dismiss, Back, Stage, Lookup, KeepsSession
<1>3. ui.shown \in Nat /\ ui.wants \in Selections /\ ui.overlay \in LegacyOverlays BY <1>1 DEF LegacyUis
<1>4. ~ui.overlay.applying => settingsUpdate.by # "picker" BY DEF LegacyInv, OnScreen, UpdateOwns
<1>5. CASE Dismiss
  <2> DEFINE c == Closed(ui)
             wants == IF LegacyShowing("model") THEN "" ELSE c.wants
  <2>1. ui' = [c EXCEPT !.wants = wants] BY <1>5 DEF Dismiss
  <2>2. c \in LegacyUis /\ c.overlay.kind = "none" /\ c.overlay.id = 0 /\ c.shown = ui.shown /\ c.wants = ui.wants
    BY <1>1, ClosedDoes
  <2> HIDE DEF c
  <2>3. wants = ""
    <3>1. ui.overlay.kind \in {"model", "selector", "panel"} BY <1>5 DEF Dismiss
    <3> QED BY <1>1, <2>2, <3>1 DEF LegacyShowing, WantedIsStaged
  <2>4. wants \in Selections BY <2>3 DEF Selections
  <2> HIDE DEF wants
  <2>5. ui' \in LegacyUis /\ ui'.overlay = c.overlay /\ ui'.shown = ui.shown /\ ui'.wants = ""
    <3>1. c \in LegacyUis /\ c.shown = ui.shown BY <2>2
    <3>2. ui' \in LegacyUis BY <2>1, <2>4, <3>1 DEF LegacyUis
    <3>3. ui'.overlay = c.overlay /\ ui'.shown = c.shown /\ ui'.wants = wants BY <2>1, <3>1 DEF LegacyUis
    <3> QED BY <2>3, <3>1, <3>2, <3>3
  <2>6. OverlayIds(ui') /\ Moves(ui, ui')
    <3>1. ui'.overlay.kind = "none" /\ ui'.overlay.id = 0 /\ ui'.shown = ui.shown BY <2>2, <2>5
    <3>2. ui.shown \in Nat BY <1>3
    <3> QED BY <3>1, <3>2 DEF OverlayIds, Moves
  <2>7. settingsUpdate.by # "picker" BY <1>4, <1>5 DEF Dismiss
  <2> QED BY <1>2, <2>5, <2>6, <2>7, StepKeeps DEF WantedIsStaged
<1>6. CASE Back
  <2>1. settingsUpdate.by # "picker" /\ ui' = [ui EXCEPT !.overlay.confirming = FALSE] BY <1>4, <1>6 DEF Back
  <2>2. ui' \in LegacyUis BY <1>1, <2>1 DEF LegacyUis, LegacyOverlays
  <2>3. SameOverlay(ui, ui') /\ ui'.shown = ui.shown /\ ui'.wants = ui.wants
    BY <1>1, <2>1 DEF SameOverlay, LegacyUis, LegacyOverlays
  <2> QED BY <1>1, <1>2, <1>3, <2>1, <2>2, <2>3, OverlayStays, StepKeeps
<1>7. ASSUME NEW p \in LegacyProviders, Stage(p) PROVE LegacyInv'
  <2> DEFINE o == [[ui.overlay EXCEPT !.staged = p] EXCEPT !.confirming = TRUE]
             wants == IF ui.wants = p THEN p ELSE ""
  <2>1. ui' = [[ui EXCEPT !.overlay = o] EXCEPT !.wants = wants] BY <1>1, <1>7 DEF Stage, LegacyUis, LegacyOverlays
  <2>2. o \in LegacyOverlays /\ o.kind = ui.overlay.kind /\ o.id = ui.overlay.id /\ o.staged = p
    BY <1>3 DEF LegacyOverlays, Selections
  <2>3. wants \in Selections /\ (wants # "" => wants = p) BY DEF Selections
  <2>4. ui.overlay.kind = "model" /\ settingsUpdate.by # "picker" BY <1>4, <1>7 DEF Stage, LegacyShowing
  <2> HIDE DEF o, wants
  <2>5. ui' \in LegacyUis /\ ui'.overlay = o /\ ui'.shown = ui.shown /\ ui'.wants = wants
    BY <1>1, <2>1, <2>2, <2>3 DEF LegacyUis
  <2>6. WantedIsStaged(ui') BY <2>2, <2>3, <2>4, <2>5 DEF WantedIsStaged
  <2>7. OverlayIds(ui') BY <1>1, <2>2, <2>5 DEF OverlayIds
  <2>8. LoginsOwn(ui', logins) /\ UpdateOwns(ui', settingsUpdate)
    BY <2>2, <2>4, <2>5 DEF LegacyInv, OnScreen, LoginsOwn, UpdateOwns, Owns
  <2>9. OnScreen' BY <1>2, <2>6, <2>7, <2>8 DEF OnScreen
  <2> QED BY <1>2, <2>5, <2>9 DEF LegacyInv, LegacyTypes
<1>8. ASSUME NEW p \in LegacyProviders, NEW failed \in BOOLEAN, Lookup(p, failed) PROVE LegacyInv'
  <2> DEFINE status == IF failed THEN "failed" ELSE IF p \in loggedIn THEN "configured" ELSE "required"
  <2>1. ui' = [ui EXCEPT !.overlay.known[p] = status] BY <1>8 DEF Lookup
  <2>2. status \in {"pending", "failed", "configured", "required"} OBVIOUS
  <2> HIDE DEF status
  <2>3. ui' \in LegacyUis BY <1>1, <2>1, <2>2 DEF LegacyUis, LegacyOverlays
  <2>4. SameOverlay(ui, ui') /\ ui'.shown = ui.shown /\ ui'.wants = ui.wants /\ ui'.overlay.applying = ui.overlay.applying
    BY <1>1, <2>1 DEF SameOverlay, LegacyUis, LegacyOverlays
  <2> QED BY <1>1, <1>2, <1>3, <2>3, <2>4, OverlayStays, StepKeeps
<1> QED BY <1>5, <1>6, <1>7, <1>8

\* Applying what is staged keeps the invariant.
LEMMA ApplyKeeps ==
  ASSUME LegacyInv, StatusOnBare', ApplyStaged
  PROVE  LegacyInv'
<1> DEFINE panel == ui.overlay
<1>1. ui \in LegacyUis /\ OverlayIds(ui) /\ WantedIsStaged(ui) /\ LoginsOwn(ui, logins)
  BY DEF LegacyInv, LegacyTypes, OnScreen
<1>2. panel.kind = "model" /\ ~panel.applying /\ UNCHANGED selectionInUse BY DEF ApplyStaged, LegacyShowing, KeepsSession
<1>3. settingsUpdate.by # "picker" BY <1>2 DEF LegacyInv, OnScreen, UpdateOwns
<1>4. panel.id \in Nat /\ panel.staged \in Selections BY <1>1 DEF LegacyUis, LegacyOverlays
<1>5. CASE panel.known[panel.staged] = "configured"
  <2>1. ui' = [ui EXCEPT !.overlay.applying = TRUE, !.locked = TRUE] /\ UNCHANGED logins
    BY <1>5 DEF ApplyStaged
  <2>2. settingsUpdate' = [by |-> "picker", id |-> panel.id, wanted |-> panel.staged, staged |-> ""]
    BY <1>5 DEF ApplyStaged, Updating
  <2>3. ui' \in LegacyUis BY <1>1, <2>1 DEF LegacyUis, LegacyOverlays
  <2>4. SameOverlay(ui, ui') /\ ui'.shown = ui.shown /\ ui'.wants = ui.wants /\ ui'.overlay.applying
    BY <1>1, <2>1 DEF SameOverlay, LegacyUis, LegacyOverlays
  <2>5. settingsUpdate' \in LegacyUpdates BY <1>4, <2>2 DEF LegacyUpdates, Selections
  <2>6. UpdateOwns(ui', settingsUpdate') BY <1>2, <2>2, <2>4 DEF UpdateOwns, SameOverlay
  <2> QED BY <1>2, <2>1, <2>3, <2>4, <2>5, <2>6, UpdateBegins
<1>6. CASE panel.known[panel.staged] = "required"
  <2>1. /\ ui' = [WithLogin(ui, panel.staged) EXCEPT !.wants = panel.staged] /\ UNCHANGED settingsUpdate
        /\ logins' = logins \union {[id |-> ui.shown + 1, provider |-> panel.staged, staged |-> panel.staged]}
    BY <1>6 DEF ApplyStaged
  <2> HIDE DEF panel
  <2> QED BY <1>2, <1>3, <1>4, <2>1, LoginKeeps
<1> QED BY <1>5, <1>6 DEF ApplyStaged


\* The status of a provider, when it is learnt, keeps the invariant.
LEMMA StatusKeeps ==
  ASSUME LegacyInv, NEW p \in LegacyProviders, StatusAnswers(p)
  PROVE  LegacyInv'
<1>1. p \in statusAsked /\ statusAsked' = {} /\ UNCHANGED selectionInUse BY DEF StatusAnswers, KeepsSession
<1>2. ui \in LegacyUis /\ OverlayIds(ui) /\ ui.overlay.kind = "none" /\ StatusOnBare'
  BY <1>1 DEF LegacyInv, LegacyTypes, OnScreen, StatusOnBare
<1>3. settingsUpdate.by # "picker" BY <1>2 DEF LegacyInv, OnScreen, UpdateOwns
<1>4. p \in Selections BY DEF Selections
<1>5. CASE UNCHANGED <<ui, settingsUpdate, logins>>
  BY <1>1, <1>2, <1>5 DEF LegacyInv, LegacyTypes, OnScreen
<1>6. CASE /\ ui' = [WithLogin(ui, p) EXCEPT !.wants = p] /\ UNCHANGED settingsUpdate
           /\ logins' = logins \union {[id |-> ui.shown + 1, provider |-> p, staged |-> p]}
  BY <1>1, <1>2, <1>3, <1>4, <1>6, LoginKeeps
<1>7. CASE Updating("command", 0, p, "") /\ UNCHANGED <<ui, logins>>
  <2>1. settingsUpdate' = [by |-> "command", id |-> 0, wanted |-> p, staged |-> ""] BY <1>7 DEF Updating
  <2>2. settingsUpdate' \in LegacyUpdates /\ UpdateOwns(ui', settingsUpdate')
    BY <1>4, <2>1 DEF LegacyUpdates, Selections, UpdateOwns
  <2>3. SameOverlay(ui, ui') BY <1>7 DEF SameOverlay
  <2> QED BY <1>1, <1>2, <1>7, <2>2, <2>3, UpdateBegins
<1> QED BY <1>5, <1>6, <1>7 DEF StatusAnswers

\* The steps that leave the screen and what waits for it alone.
LEMMA ElsewhereKeeps ==
  ASSUME LegacyInv, UNCHANGED <<ui, settingsUpdate, selectionInUse>>, logins' \subseteq logins, StatusOnBare'
  PROVE  LegacyInv'
<1>1. ui' = ui /\ settingsUpdate' = settingsUpdate OBVIOUS
<1>2. OnScreen' BY <1>1 DEF LegacyInv, OnScreen, LoginsOwn
<1> QED BY <1>1, <1>2 DEF LegacyInv, LegacyTypes

\* Every step of the legacy shell keeps its invariant, provided a status is learnt at once.
LEMMA LegacyInductive ==
  ASSUME PromptStatus, LegacyInv, [LegacyNext]_legacyVars
  PROVE  LegacyInv'
<1>1. ASSUME statusAsked = {}, LegacyStep PROVE LegacyInv'
  <2>1. CASE OpenModel \/ \E kind \in {"selector", "panel"} : OpenAnother(kind)
    <3>1. StatusOnBare' BY <1>1, <2>1 DEF OpenModel, OpenAnother, StatusOnBare
    <3> QED BY <2>1, <3>1, OpenKeeps
  <2>2. CASE Dismiss \/ Back \/ (\E p \in LegacyProviders : Stage(p) \/ \E failed \in BOOLEAN : Lookup(p, failed))
    <3>1. StatusOnBare' BY <1>1, <2>2 DEF Dismiss, Back, Stage, Lookup, StatusOnBare
    <3> QED BY <2>2, <3>1, PickerKeeps
  <2>3. CASE ApplyStaged
    <3>1. StatusOnBare' BY <1>1, <2>3 DEF ApplyStaged, StatusOnBare
    <3> QED BY <2>3, <3>1, ApplyKeeps
  <2>4. CASE CancelLogin
    <3>1. StatusOnBare' BY <1>1, <2>4 DEF CancelLogin, StatusOnBare
    <3> QED BY <2>4, <3>1, CancelKeeps
  <2>5. CASE SubmitTurn \/ TurnEmitted \/ LegacyShutdown
    <3>1. UNCHANGED <<ui, settingsUpdate, logins, statusAsked, selectionInUse>>
      BY <2>5 DEF SubmitTurn, TurnEmitted, LegacyShutdown
    <3> QED BY <1>1, <3>1, ElsewhereKeeps DEF StatusOnBare
  <2>6. ASSUME NEW ok \in BOOLEAN, UpdateEnds(ok) PROVE LegacyInv'
    <3>1. StatusOnBare' BY <1>1, <2>6 DEF UpdateEnds, StatusOnBare
    <3> QED BY <2>6, <3>1, UpdateEndKeeps
  <2>7. ASSUME NEW p \in LegacyProviders, LoginTo(p) PROVE LegacyInv'
    <3> DEFINE none == ""
    <3>1. ui.overlay.kind = "selector" /\ StatusOnBare' /\ UNCHANGED <<settingsUpdate, selectionInUse>>
      BY <1>1, <2>7 DEF LoginTo, LegacyShowing, StatusOnBare, KeepsSession
    <3>2. settingsUpdate.by # "picker" /\ ui.wants = "" /\ ui \in LegacyUis /\ OverlayIds(ui)
      BY <3>1 DEF LegacyInv, LegacyTypes, OnScreen, UpdateOwns, WantedIsStaged
    <3>3. ui' = WithLogin(ui, none) BY <2>7 DEF LoginTo
    <3>4. logins' = logins \union {[id |-> ui.shown + 1, provider |-> p, staged |-> none]}
      BY <2>7 DEF LoginTo
    <3>5. p \in Selections /\ none \in Selections BY DEF Selections
    <3>6. none = "" OBVIOUS
    <3> HIDE DEF none
    <3>7. WithLogin(ui, none) \in LegacyUis /\ WithLogin(ui, none).wants = none
      BY <3>2, <3>5, <3>6, LoginDoes
    <3>8. WithLogin(ui, none) = [WithLogin(ui, none) EXCEPT !.wants = none] BY <3>7 DEF LegacyUis
    <3>9. ui' = [WithLogin(ui, none) EXCEPT !.wants = none] BY <3>3, <3>8
    <3> QED BY <3>1, <3>2, <3>4, <3>5, <3>9, LoginKeeps
  <2>8. ASSUME NEW p \in LegacyProviders, AskStatus(p) PROVE LegacyInv'
    <3>1. UNCHANGED <<ui, settingsUpdate, logins, selectionInUse>> /\ ui.overlay.kind = "none"
      BY <2>8 DEF AskStatus, LegacyShowing, KeepsSession
    <3> QED BY <3>1, ElsewhereKeeps DEF StatusOnBare
  <2>9. ASSUME NEW p \in LegacyProviders, LegacyLogout(p) PROVE LegacyInv'
    <3>1. UNCHANGED <<ui, settingsUpdate, logins, statusAsked, selectionInUse>> BY <2>9 DEF LegacyLogout
    <3> QED BY <1>1, <3>1, ElsewhereKeeps DEF StatusOnBare
  <2>10. ASSUME NEW l \in logins, LoginSucceeds(l) PROVE LegacyInv'
    <3>1. StatusOnBare' BY <1>1, <2>10 DEF LoginSucceeds, StatusOnBare
    <3> QED BY <2>10, <3>1, LoginSucceedsKeeps
  <2>11. ASSUME NEW l \in logins, LoginFails(l) PROVE LegacyInv'
    <3>1. UNCHANGED <<ui, settingsUpdate, statusAsked, selectionInUse>> /\ logins' \subseteq logins
      BY <2>11 DEF LoginFails, KeepsSession
    <3> QED BY <1>1, <3>1, ElsewhereKeeps DEF StatusOnBare
  <2> QED BY <1>1, <2>1, <2>2, <2>3, <2>4, <2>5, <2>6, <2>7, <2>8, <2>9, <2>10, <2>11 DEF LegacyStep
<1>2. ASSUME NEW p \in LegacyProviders, StatusAnswers(p) PROVE LegacyInv' BY <1>2, StatusKeeps
<1>3. CASE UNCHANGED legacyVars
  BY <1>3, ElsewhereKeeps DEF legacyVars, StatusOnBare, LegacyInv
<1> QED BY <1>1, <1>2, <1>3 DEF LegacyNext

\* A selection the user went to a login for is not forgotten: until it is applied, given up or
\* replaced it is on the screen, in the login or in the picker that is offered again
\* (WantedSelectionKept), whatever login, change of settings and overlay end in which order, in
\* the shell of the model router.  The hypothesis is that /model learns the status of a provider
\* before anything else happens.
THEOREM SelectionIsKept ==
  ASSUME PromptStatus PROVE LegacySpec => []WantedSelectionKept
<1>1. LegacyInit => LegacyInv
  <2> SUFFICES ASSUME LegacyInit PROVE LegacyInv
    OBVIOUS
  <2>1. ui = [overlay |-> NoLegacyOverlay, shown |-> 0, locked |-> FALSE, pending |-> "", wants |-> ""]
    BY DEF LegacyInit
  <2>2. "" \in Selections BY DEF Selections
  <2>3. ui \in LegacyUis BY <2>1, <2>2, NoOverlayType DEF LegacyUis
  <2>4. settingsUpdate \in LegacyUpdates BY <2>2 DEF LegacyInit, NoUpdate, LegacyUpdates
  <2>5. LegacyTypes BY <2>3, <2>4 DEF LegacyInit, LegacyTypes, Selections
  <2>6. OnScreen
    <3>1. UpdateOwns(ui, settingsUpdate) BY DEF LegacyInit, NoUpdate, UpdateOwns
    <3>2. ui.overlay = NoLegacyOverlay /\ ui.wants = "" /\ ui.shown = 0 BY <2>1
    <3>5. ui.overlay.kind = "none" /\ ui.overlay.id = 0 BY <3>2, NoOverlayType
    <3>6. ui.shown = 0 BY <3>2
    <3>3. OverlayIds(ui) BY <3>5, <3>6 DEF OverlayIds
    <3>4. WantedIsStaged(ui) BY <3>2 DEF WantedIsStaged
    <3> QED BY <3>1, <3>3, <3>4 DEF LegacyInit, OnScreen, LoginsOwn
  <2> QED BY <2>5, <2>6 DEF LegacyInit, LegacyInv, StatusOnBare
<1>2. LegacyInv => WantedSelectionKept BY DEF LegacyInv, OnScreen, WantedIsStaged, WantedSelectionKept
<1>3. LegacyInv /\ [LegacyNext]_legacyVars => LegacyInv' BY LegacyInductive
<1> QED BY <1>1, <1>2, <1>3, PTL DEF LegacySpec

-----------------------------------------------------------------------------
(* Drafts.  A path belongs to one run of one shell, and a run saves once:  *)
(* a path has one draft for ever.  So what a shell removes, at its own     *)
(* path or at the path of the draft it has shown, is its own or was shown, *)
(* however old the check is that allowed it.                               *)

AnyPath == [shell : Shells \union {"earlier", "none"}, run : Nat]
AnyText == Texts \union {""}
AnyDraft == [path : AnyPath, text : Texts, at : Nat]
AnyClear == [by : {"receipt", "exit"}, step : {"check", "remove"}, paths : SUBSET AnyPath]
ShellPhases == {"gone", "listing", "open", "leaving", "closing"}
Savings == {"", "write", "check", "remove"}
Loadable == AnyDraft \union {NoFile}
ShellStates ==
  [phase : ShellPhases, run : Nat, path : AnyPath, names : SUBSET AnyPath, loaded : Loadable,
   editor : AnyText, sending : AnyText, clears : SUBSET AnyClear, saving : Savings,
   draft : AnyText, previous : Loadable]

DraftTypes ==
  /\ savedDrafts \subseteq AnyDraft /\ IsFiniteSet(savedDrafts)
  /\ draftFiles \subseteq savedDrafts /\ restored \subseteq savedDrafts
  /\ shells \in [Shells -> ShellStates]

\* A draft was shown before, or is of the shell itself.
SeenBy(u, f) == f \in savedDrafts /\ (f \in restored \/ f.path = u.path)

\* What a shell is about to remove, it has shown or written itself.
ShellFits(s, u) ==
  /\ u.phase \notin {"gone", "listing"} => u.path = PathOf(s, u.run)
  /\ u.loaded # NoFile => SeenBy(u, u.loaded)
  /\ u.previous # NoFile => SeenBy(u, u.previous)
  /\ \A c \in u.clears : \A path \in c.paths :
       path = u.path \/ \E f \in restored : f.path = path
  /\ u.phase \in {"gone", "listing"} =>
       u.loaded = NoFile /\ u.previous = NoFile /\ u.clears = {} /\ u.saving = ""
  /\ u.saving # "" => u.phase # "open"
  /\ u.saving = "write" => u.draft \in Texts
  /\ u.saving \in {"check", "remove"} => u.previous # NoFile

\* A run writes its file once.
Unwritten(s, u) ==
  /\ \A f \in savedDrafts : f.path.shell = s => f.path.run <= u.run
  /\ u.phase \in {"listing", "open"} \/ u.saving = "write" =>
       \A f \in savedDrafts : f.path # PathOf(s, u.run)

OneDraftPerPath == \A f, g \in savedDrafts : f.path = g.path => f = g

DraftInv ==
  /\ DraftTypes /\ OneDraftPerPath /\ DraftKept
  /\ \A s \in Shells : ShellFits(s, shells[s]) /\ Unwritten(s, shells[s])

\* The shell becomes another, of the same run; files stay as they are.
OneBecomes(s, u) == u \in ShellStates /\ shells' = [shells EXCEPT ![s] = u]

\* A step of a shell that leaves the files alone keeps the invariant, if what the shell
\* becomes fits.
LEMMA QuietKeeps ==
  ASSUME DraftInv, NEW s \in Shells, NEW u, OneBecomes(s, u),
         UNCHANGED <<draftFiles, savedDrafts, withdrawn>>, restored \subseteq restored', restored' \subseteq savedDrafts,
         ShellFits(s, u)', Unwritten(s, u)
  PROVE  DraftInv'
<1>1. DraftTypes' /\ OneDraftPerPath' /\ DraftKept'
  BY DEF DraftInv, DraftTypes, OneBecomes, OneDraftPerPath, DraftKept
<1>2. ASSUME NEW t \in Shells PROVE ShellFits(t, shells[t])' /\ Unwritten(t, shells[t])'
  <2>1. CASE t = s
    <3>1. shells'[t] = u
      BY <2>1 DEF OneBecomes, DraftInv, DraftTypes
    <3> QED
      BY <2>1, <3>1 DEF ShellFits, Unwritten, SeenBy
  <2>2. CASE t # s
    <3>1. shells'[t] = shells[t] /\ ShellFits(t, shells[t]) /\ Unwritten(t, shells[t])
      BY <2>2 DEF OneBecomes, DraftInv, DraftTypes
    <3> QED
      BY <3>1 DEF ShellFits, Unwritten, SeenBy
  <2> QED
    BY <2>1, <2>2
<1> QED
  BY <1>1, <1>2 DEF DraftInv

\* Removing what was seen keeps the invariant.
LEMMA RemovalKeeps ==
  ASSUME DraftInv, NEW s \in Shells, NEW u, OneBecomes(s, u), NEW paths, RemoveDrafts(s, paths),
         UNCHANGED <<savedDrafts, restored>>, ShellFits(s, u)', Unwritten(s, u),
         \A path \in paths : path = shells[s].path \/ \E f \in restored : f.path = path
  PROVE  DraftInv'
<1>1. DraftTypes' /\ OneDraftPerPath'
  BY DEF DraftInv, DraftTypes, OneBecomes, OneDraftPerPath, RemoveDrafts
<1>2. DraftKept'
  <2> SUFFICES ASSUME NEW f \in savedDrafts PROVE f \in draftFiles' \union restored' \union withdrawn'
    BY DEF DraftKept
  <2>1. f \in draftFiles \union restored \union withdrawn
    BY DEF DraftInv, DraftKept
  <2>2. CASE f.path \in paths /\ f.path = shells[s].path
    BY <2>2 DEF RemoveDrafts
  <2>3. CASE f.path \in paths /\ f.path # shells[s].path
    <3>1. PICK g \in restored : g.path = f.path
      BY <2>3
    <3>2. g = f
      BY <3>1 DEF DraftInv, DraftTypes, OneDraftPerPath
    <3> QED
      BY <3>2
  <2>4. CASE f.path \notin paths
    BY <2>1, <2>4 DEF RemoveDrafts
  <2> QED
    BY <2>2, <2>3, <2>4
<1>3. ASSUME NEW t \in Shells PROVE ShellFits(t, shells[t])' /\ Unwritten(t, shells[t])'
  <2>1. CASE t = s
    <3>1. shells'[t] = u
      BY <2>1 DEF OneBecomes, DraftInv, DraftTypes
    <3> QED
      BY <2>1, <3>1 DEF ShellFits, Unwritten, SeenBy
  <2>2. CASE t # s
    <3>1. shells'[t] = shells[t] /\ ShellFits(t, shells[t]) /\ Unwritten(t, shells[t])
      BY <2>2 DEF OneBecomes, DraftInv, DraftTypes
    <3> QED
      BY <3>1 DEF ShellFits, Unwritten, SeenBy
  <2> QED
    BY <2>1, <2>2
<1> QED
  BY <1>1, <1>2, <1>3 DEF DraftInv

\* What a shell is when its process has ended.
LEMMA GoneIs ==
  ASSUME NEW run \in Nat
  PROVE  /\ Gone(run) \in ShellStates /\ Gone(run).phase = "gone" /\ Gone(run).run = run /\ Gone(run).names = {}
         /\ Gone(run).loaded = NoFile /\ Gone(run).previous = NoFile /\ Gone(run).clears = {} /\ Gone(run).saving = ""
<1>1. "gone" \in ShellPhases /\ NoPath \in AnyPath /\ {} \in SUBSET AnyPath /\ NoFile \in Loadable /\ "" \in AnyText
      /\ {} \in SUBSET AnyClear /\ "" \in Savings
  BY DEF ShellPhases, NoPath, AnyPath, Loadable, AnyText, Savings
<1> QED
  BY <1>1 DEF Gone, ShellStates

\* What is known of a shell before its step.
Known(s, w) ==
  /\ w = shells[s] /\ w \in ShellStates /\ ShellFits(s, w) /\ Unwritten(s, w)
  /\ draftFiles \subseteq savedDrafts /\ restored \subseteq savedDrafts /\ savedDrafts \subseteq AnyDraft

\* All of this follows from the invariant.
LEMMA KnownIs == ASSUME DraftInv, NEW s \in Shells PROVE \E w : Known(s, w)
BY DEF DraftInv, DraftTypes, Known

\* The end of a process, by itself or by a crash, keeps the invariant.
LEMMA StopKeeps == ASSUME DraftInv, NEW s \in Shells, StopShell(s) PROVE DraftInv'
<1>1. PICK w : Known(s, w)
  BY KnownIs
<1>2. PICK u : u = Gone(w.run)
  OBVIOUS
<1>3. w.run \in Nat
  BY <1>1 DEF Known, ShellStates
<1>4. OneBecomes(s, u)
  BY <1>1, <1>2, <1>3, GoneIs DEF StopShell, Becomes, OneBecomes, Known
<1>5. ShellFits(s, u)' /\ Unwritten(s, u)
  BY <1>1, <1>2, <1>3, GoneIs DEF ShellFits, Unwritten, Known
<1> QED
  BY <1>1, <1>4, <1>5, QuietKeeps DEF StopShell, Known

\* A new run has a path that no draft has yet.
LEMMA ListKeeps == ASSUME DraftInv, NEW s \in Shells, ListDrafts(s) PROVE DraftInv'
<1>1. PICK w : Known(s, w)
  BY KnownIs
<1>2. w.run \in Nat /\ w.run + 1 \in Nat
  BY <1>1 DEF Known, ShellStates
<1>3. PICK gone : gone = Gone(w.run + 1)
  OBVIOUS
<1>4. PICK names : names = {f.path : f \in draftFiles} /\ names \in SUBSET AnyPath
  <2>1. \A f \in draftFiles : f.path \in AnyPath
    BY <1>1 DEF Known, AnyDraft
  <2> QED
    BY <2>1
<1>5. PICK u : u = [gone EXCEPT !.phase = "listing", !.names = names]
  OBVIOUS
<1>6. gone \in ShellStates /\ gone.run = w.run + 1 /\ gone.loaded = NoFile /\ gone.previous = NoFile
      /\ gone.clears = {} /\ gone.saving = ""
  BY <1>2, <1>3, GoneIs
<1>7. /\ u \in ShellStates /\ u.phase = "listing" /\ u.run = w.run + 1 /\ u.loaded = NoFile /\ u.previous = NoFile
      /\ u.clears = {} /\ u.saving = ""
  <2>1. "listing" \in ShellPhases
    BY DEF ShellPhases
  <2> QED
    BY <1>4, <1>5, <1>6, <2>1 DEF ShellStates
<1>8. OneBecomes(s, u)
  BY <1>1, <1>3, <1>4, <1>5, <1>7 DEF ListDrafts, Becomes, OneBecomes, Known
<1>9. ShellFits(s, u)'
  BY <1>7 DEF ShellFits
<1>10. Unwritten(s, u)
  <2>1. ASSUME NEW f \in savedDrafts PROVE f.path # PathOf(s, w.run + 1)
    <3>1. f.path.shell = s => f.path.run <= w.run /\ f.path.run \in Nat
      BY <1>1, <2>1 DEF Known, Unwritten, AnyDraft, AnyPath
    <3> QED
      BY <1>2, <3>1 DEF PathOf
  <2>2. ASSUME NEW f \in savedDrafts, f.path.shell = s PROVE f.path.run <= w.run + 1
    <3>1. f.path.run <= w.run /\ f.path.run \in Nat
      BY <1>1, <2>2 DEF Known, Unwritten, AnyDraft, AnyPath
    <3> QED
      BY <1>2, <3>1
  <2> QED
    BY <1>7, <2>1, <2>2 DEF Unwritten
<1> QED
  BY <1>1, <1>8, <1>9, <1>10, QuietKeeps DEF ListDrafts, Known

\* What a shell shows at its start was restored.
LEMMA LoadKeeps == ASSUME DraftInv, NEW s \in Shells, LoadLatest(s) PROVE DraftInv'
<1>1. PICK w : Known(s, w)
  BY KnownIs
<1>2. CASE UNCHANGED restored /\ Becomes(s, Gone(w.run))
  <2>1. PICK u : u = Gone(w.run)
    OBVIOUS
  <2>2. w.run \in Nat
    BY <1>1 DEF Known, ShellStates
  <2>3. OneBecomes(s, u)
    BY <1>1, <1>2, <2>1, <2>2, GoneIs DEF Becomes, OneBecomes, Known
  <2>4. ShellFits(s, u)' /\ Unwritten(s, u)
    BY <1>1, <2>1, <2>2, GoneIs DEF ShellFits, Unwritten, Known
  <2> QED
    BY <1>1, <1>2, <2>3, <2>4, QuietKeeps DEF LoadLatest, Known
<1>3. ASSUME NEW newest \in NewestOf({f \in draftFiles : f.path \in w.names}),
             Becomes(s, [w EXCEPT !.phase = "open", !.path = OwnPath(s), !.names = {}, !.loaded = newest,
                                  !.editor = newest.text]),
             restored' = restored \union ({newest} \ {NoFile})
      PROVE  DraftInv'
  <2>1. newest = NoFile \/ newest \in draftFiles
    BY <1>3 DEF NewestOf
  <2>2. PICK text : text = newest.text /\ text \in AnyText
    <3>1. CASE newest = NoFile
      BY <3>1 DEF NoFile, AnyText
    <3>2. CASE newest \in draftFiles
      <4>1. newest \in AnyDraft
        BY <1>1, <3>2 DEF Known
      <4> QED
        BY <4>1 DEF AnyDraft, AnyText
    <3> QED
      BY <2>1, <3>1, <3>2
  <2>3. PICK path : path = OwnPath(s) /\ path \in AnyPath /\ path = PathOf(s, w.run)
    <3>1. w.run \in Nat
      BY <1>1 DEF Known, ShellStates
    <3> QED
      BY <1>1, <3>1 DEF OwnPath, PathOf, AnyPath, Known
  <2>4. PICK u : u = [w EXCEPT !.phase = "open", !.path = path, !.names = {}, !.loaded = newest, !.editor = text]
    OBVIOUS
  <2>5. /\ u \in ShellStates /\ u.phase = "open" /\ u.path = path /\ u.loaded = newest /\ u.run = w.run
        /\ u.previous = w.previous /\ u.clears = w.clears /\ u.saving = w.saving
    <3>1. "open" \in ShellPhases /\ {} \in SUBSET AnyPath /\ newest \in Loadable
      BY <1>1, <2>1 DEF ShellPhases, Loadable, Known
    <3> QED
      BY <1>1, <2>2, <2>3, <2>4, <3>1 DEF ShellStates, Known
  <2>6. w.phase = "listing" /\ w.previous = NoFile /\ w.clears = {} /\ w.saving = ""
    BY <1>1 DEF LoadLatest, Known, ShellFits
  <2>7. OneBecomes(s, u)
    BY <1>3, <2>2, <2>3, <2>4, <2>5 DEF Becomes, OneBecomes
  <2>8. ShellFits(s, u)'
    BY <1>1, <1>3, <2>1, <2>3, <2>5, <2>6 DEF ShellFits, SeenBy, Known, LoadLatest
  <2>9. Unwritten(s, u)
    BY <1>1, <2>5, <2>6 DEF Unwritten, Known
  <2>10. restored \subseteq restored' /\ restored' \subseteq savedDrafts
    BY <1>1, <1>3, <2>1 DEF Known
  <2> QED
    BY <2>7, <2>8, <2>9, <2>10, QuietKeeps DEF LoadLatest
<1> QED
  BY <1>1, <1>2, <1>3 DEF LoadLatest, Known

\* What a shell does with its editor leaves the files, and what it is about to remove, alone.
LEMMA EditorKeeps ==
  ASSUME DraftInv, NEW s \in Shells, NEW w, Known(s, w), NEW u, OneBecomes(s, u),
         UNCHANGED <<draftFiles, savedDrafts, withdrawn, restored>>,
         w.phase \notin {"gone", "listing"}, u.phase = w.phase,
         u.run = w.run, u.path = w.path, u.loaded = w.loaded, u.previous = w.previous,
         u.saving = w.saving, u.draft = w.draft,
         \A c \in u.clears : c \in w.clears \/ c.paths = {}
  PROVE  DraftInv'
<1>1. ShellFits(s, u)' /\ Unwritten(s, u)
  BY DEF Known, ShellFits, Unwritten, SeenBy
<1> QED
  BY <1>1, QuietKeeps DEF Known

\* Typing and sending keep the invariant.
LEMMA EditKeeps ==
  ASSUME DraftInv, NEW s \in Shells, SendDraft(s) \/ \E text \in Texts \union {""} : Edit(s, text)
  PROVE  DraftInv'
<1>1. PICK w : Known(s, w)
  BY KnownIs
<1>2. CASE SendDraft(s)
  <2>1. PICK u : u = [w EXCEPT !.sending = w.editor, !.editor = ""]
    OBVIOUS
  <2>2. "" \in AnyText
    BY DEF AnyText
  <2>3. /\ u \in ShellStates /\ u.phase = w.phase /\ u.run = w.run /\ u.path = w.path /\ u.loaded = w.loaded
        /\ u.previous = w.previous /\ u.saving = w.saving /\ u.draft = w.draft /\ u.clears = w.clears
    BY <1>1, <2>1, <2>2 DEF ShellStates, Known
  <2>4. OneBecomes(s, u)
    BY <1>1, <1>2, <2>1, <2>3 DEF SendDraft, Becomes, OneBecomes, Known
  <2> QED
    BY <1>1, <1>2, <2>3, <2>4, EditorKeeps DEF SendDraft, Known
<1>3. ASSUME NEW text \in Texts \union {""}, Edit(s, text) PROVE DraftInv'
  <2>1. PICK u : u = [w EXCEPT !.editor = text]
    OBVIOUS
  <2>2. text \in AnyText
    BY <1>3 DEF AnyText
  <2>3. /\ u \in ShellStates /\ u.phase = w.phase /\ u.run = w.run /\ u.path = w.path /\ u.loaded = w.loaded
        /\ u.previous = w.previous /\ u.saving = w.saving /\ u.draft = w.draft /\ u.clears = w.clears
    BY <1>1, <2>1, <2>2 DEF ShellStates, Known
  <2>4. OneBecomes(s, u)
    BY <1>1, <1>3, <2>1, <2>3 DEF Edit, Becomes, OneBecomes, Known
  <2> QED
    BY <1>1, <1>3, <2>3, <2>4, EditorKeeps DEF Edit, Known
<1> QED
  BY <1>2, <1>3

\* A receipt keeps the invariant: a clear begins with nothing to remove.
LEMMA ReceiptKeeps == ASSUME DraftInv, NEW s \in Shells, DraftReceipt(s) PROVE DraftInv'
<1>1. PICK w : Known(s, w)
  BY KnownIs
<1>2. "" \in AnyText
  BY DEF AnyText
<1>3. CASE Becomes(s, [w EXCEPT !.sending = "", !.clears = @ \union {BeginClear("receipt")}])
  <2>1. PICK clears : clears = w.clears \union {BeginClear("receipt")}
    OBVIOUS
  <2>2. clears \in SUBSET AnyClear /\ \A c \in clears : c \in w.clears \/ c.paths = {}
    <3>1. BeginClear("receipt") \in AnyClear /\ BeginClear("receipt").paths = {}
      BY DEF BeginClear, AnyClear
    <3>2. w.clears \subseteq AnyClear
      BY <1>1 DEF Known, ShellStates
    <3> QED
      BY <2>1, <3>1, <3>2
  <2>3. PICK u : u = [w EXCEPT !.sending = "", !.clears = clears]
    OBVIOUS
  <2>4. /\ u \in ShellStates /\ u.phase = w.phase /\ u.run = w.run /\ u.path = w.path /\ u.loaded = w.loaded
        /\ u.previous = w.previous /\ u.saving = w.saving /\ u.draft = w.draft /\ u.clears = clears
    BY <1>1, <1>2, <2>2, <2>3 DEF ShellStates, Known
  <2>5. OneBecomes(s, u)
    BY <1>1, <1>3, <2>1, <2>3, <2>4 DEF Becomes, OneBecomes, Known
  <2> QED
    BY <1>1, <2>2, <2>4, <2>5, EditorKeeps DEF DraftReceipt, Alive, Known
<1>4. ASSUME NEW text, text = IF w.phase = "open" THEN w.sending ELSE "",
             Becomes(s, [w EXCEPT !.sending = "", !.editor = text])
      PROVE  DraftInv'
  <2>1. PICK u : u = [w EXCEPT !.sending = "", !.editor = text]
    OBVIOUS
  <2>2. text \in AnyText
    BY <1>1, <1>2, <1>4 DEF Known, ShellStates
  <2>3. /\ u \in ShellStates /\ u.phase = w.phase /\ u.run = w.run /\ u.path = w.path /\ u.loaded = w.loaded
        /\ u.previous = w.previous /\ u.saving = w.saving /\ u.draft = w.draft /\ u.clears = w.clears
    BY <1>1, <1>2, <2>1, <2>2 DEF ShellStates, Known
  <2>4. OneBecomes(s, u)
    BY <1>4, <2>1, <2>3 DEF Becomes, OneBecomes
  <2> QED
    BY <1>1, <2>3, <2>4, EditorKeeps DEF DraftReceipt, Alive, Known
<1> QED
  BY <1>1, <1>3, <1>4 DEF DraftReceipt, Known

\* The paths to clear are the shell's own and that of the draft it has shown.
LEMMA CheckKeeps ==
  ASSUME DraftInv, NEW s \in Shells, NEW c \in shells[s].clears, ClearChecks(s, c)
  PROVE  DraftInv'
<1>1. PICK w : Known(s, w)
  BY KnownIs
<1>2. w.path \in AnyPath /\ w.loaded \in Loadable /\ w.clears \subseteq AnyClear /\ c \in w.clears
  BY <1>1 DEF Known, ShellStates
<1>3. PICK paths : /\ paths \in SUBSET AnyPath
                   /\ \A path \in paths : path = w.path \/ \E f \in restored : f.path = path
                   /\ Becomes(s, [w EXCEPT !.clears = (@ \ {c}) \union {[c EXCEPT !.step = "remove", !.paths = paths]}])
  <2>1. CASE Unchanged(w.loaded)
    <3>1. SeenBy(w, w.loaded) /\ w.loaded \in AnyDraft
      <4>1. w.loaded \in savedDrafts /\ w.loaded # NoFile
        <5>1. NoFile \notin AnyDraft
          BY DraftsAssumption DEF NoFile, AnyDraft, DraftsAssumption
        <5> QED
          BY <1>1, <2>1, <5>1 DEF Unchanged, Known
      <4> QED
        BY <1>1, <4>1 DEF Known, ShellFits
    <3>2. w.loaded.path \in AnyPath
      BY <3>1 DEF AnyDraft
    <3>3. \A path \in {w.path} \union {w.loaded.path} : path = w.path \/ \E f \in restored : f.path = path
      BY <3>1 DEF SeenBy
    <3> QED
      BY <1>1, <1>2, <2>1, <3>2, <3>3 DEF ClearChecks, Known
  <2>2. CASE ~Unchanged(w.loaded)
    BY <1>1, <1>2, <2>2 DEF ClearChecks, Known
  <2> QED
    BY <2>1, <2>2
<1>4. PICK next : next = [c EXCEPT !.step = "remove", !.paths = paths]
  OBVIOUS
<1>5. next \in AnyClear /\ next.paths = paths
  BY <1>2, <1>3, <1>4 DEF AnyClear
<1>6. PICK u : u = [w EXCEPT !.clears = (w.clears \ {c}) \union {next}]
  OBVIOUS
<1>7. /\ u \in ShellStates /\ u.phase = w.phase /\ u.run = w.run /\ u.path = w.path /\ u.loaded = w.loaded
      /\ u.previous = w.previous /\ u.saving = w.saving /\ u.draft = w.draft
      /\ u.clears = (w.clears \ {c}) \union {next}
  <2>1. (w.clears \ {c}) \union {next} \in SUBSET AnyClear
    BY <1>2, <1>5
  <2> QED
    BY <1>1, <1>6, <2>1 DEF ShellStates, Known
<1>8. OneBecomes(s, u)
  BY <1>3, <1>4, <1>6, <1>7 DEF Becomes, OneBecomes
<1>9. w.phase \notin {"gone", "listing"} /\ UNCHANGED <<draftFiles, savedDrafts, restored, withdrawn>>
  BY <1>1 DEF ClearChecks, Alive, Known
<1>10. ShellFits(s, u)' /\ Unwritten(s, u)
  <2>1. \A d \in u.clears : \A path \in d.paths : path = u.path \/ \E f \in restored : f.path = path
    BY <1>1, <1>3, <1>5, <1>7 DEF Known, ShellFits
  <2> QED
    BY <1>1, <1>7, <1>9, <2>1 DEF Known, ShellFits, Unwritten, SeenBy
<1> QED
  BY <1>1, <1>8, <1>9, <1>10, QuietKeeps DEF Known

\* A clear removes what its shell has shown or written.
LEMMA ClearKeeps ==
  ASSUME DraftInv, NEW s \in Shells, NEW c \in shells[s].clears, ClearRemoves(s, c)
  PROVE  DraftInv'
<1>1. PICK w : Known(s, w)
  BY KnownIs
<1>2. PICK phase \in {w.phase, "closing"} :
        Becomes(s, [w EXCEPT !.clears = w.clears \ {c}, !.loaded = NoFile, !.phase = phase])
  BY <1>1 DEF ClearRemoves, Known
<1>3. PICK u : u = [w EXCEPT !.clears = w.clears \ {c}, !.loaded = NoFile, !.phase = phase]
  OBVIOUS
<1>4. /\ u \in ShellStates /\ u.phase = phase /\ u.run = w.run /\ u.path = w.path /\ u.loaded = NoFile
      /\ u.previous = w.previous /\ u.saving = w.saving /\ u.draft = w.draft /\ u.clears = w.clears \ {c}
  <2>1. /\ w.clears \ {c} \in SUBSET AnyClear /\ NoFile \in Loadable
        /\ w.phase \in ShellPhases /\ "closing" \in ShellPhases
    BY <1>1 DEF Known, ShellStates, Loadable, ShellPhases
  <2> QED
    BY <1>1, <1>2, <1>3, <2>1 DEF ShellStates, Known
<1>5. OneBecomes(s, u)
  BY <1>2, <1>3, <1>4 DEF Becomes, OneBecomes
<1>6. w.phase \notin {"gone", "listing"} /\ RemoveDrafts(s, c.paths) /\ UNCHANGED <<savedDrafts, restored>>
  BY <1>1 DEF ClearRemoves, Alive, Known
<1>7. \A path \in c.paths : path = shells[s].path \/ \E f \in restored : f.path = path
  BY <1>1 DEF Known, ShellFits
<1>8. ShellFits(s, u)' /\ Unwritten(s, u)
  BY <1>1, <1>2, <1>4, <1>6 DEF Known, ShellFits, Unwritten, SeenBy
<1> QED
  BY <1>5, <1>6, <1>7, <1>8, RemovalKeeps

\* Leaving a shell begins a save or a clear.
LEMMA LeaveKeeps == ASSUME DraftInv, NEW s \in Shells, Leave(s) PROVE DraftInv'
<1>1. PICK w : Known(s, w)
  BY KnownIs
<1>2. /\ "leaving" \in ShellPhases /\ "write" \in Savings /\ "" \in AnyText /\ w.phase = "open"
      /\ w.editor \in AnyText /\ w.loaded \in Loadable /\ w.clears \subseteq AnyClear /\ w.saving = ""
  BY <1>1 DEF ShellPhases, Savings, AnyText, Known, ShellStates, Leave, ShellFits
<1>3. CASE w.editor = ""
  <2>1. PICK clears : clears = w.clears \union {BeginClear("exit")}
    OBVIOUS
  <2>2. clears \in SUBSET AnyClear /\ \A c \in clears : c \in w.clears \/ c.paths = {}
    <3>1. BeginClear("exit") \in AnyClear /\ BeginClear("exit").paths = {}
      BY DEF BeginClear, AnyClear
    <3> QED
      BY <1>2, <2>1, <3>1
  <2>3. PICK u : u = [w EXCEPT !.phase = "leaving", !.clears = clears]
    OBVIOUS
  <2>4. /\ u \in ShellStates /\ u.phase = "leaving" /\ u.run = w.run /\ u.path = w.path /\ u.loaded = w.loaded
        /\ u.previous = w.previous /\ u.saving = w.saving /\ u.draft = w.draft /\ u.clears = clears
    BY <1>1, <1>2, <2>2, <2>3 DEF ShellStates, Known
  <2>5. OneBecomes(s, u)
    BY <1>1, <1>3, <2>1, <2>3, <2>4 DEF Leave, Becomes, OneBecomes, Known
  <2>6. ShellFits(s, u)' /\ Unwritten(s, u)
    BY <1>1, <1>2, <2>2, <2>4 DEF Leave, Known, ShellFits, Unwritten, SeenBy
  <2> QED
    BY <1>1, <2>5, <2>6, QuietKeeps DEF Leave, Known
<1>4. CASE w.editor # ""
  <2>1. PICK u : u = [w EXCEPT !.phase = "leaving", !.saving = "write", !.editor = "", !.draft = w.editor,
                               !.previous = w.loaded]
    OBVIOUS
  <2>2. /\ u \in ShellStates /\ u.phase = "leaving" /\ u.run = w.run /\ u.path = w.path /\ u.loaded = w.loaded
        /\ u.previous = w.loaded /\ u.saving = "write" /\ u.draft = w.editor /\ u.clears = w.clears
    BY <1>1, <1>2, <2>1 DEF ShellStates, Known
  <2>3. OneBecomes(s, u)
    BY <1>1, <1>4, <2>1, <2>2 DEF Leave, Becomes, OneBecomes, Known
  <2>4. u.draft \in Texts
    BY <1>2, <1>4, <2>2 DEF AnyText
  <2>5. ShellFits(s, u)' /\ Unwritten(s, u)
    BY <1>1, <1>2, <2>2, <2>4 DEF Leave, Known, ShellFits, Unwritten, SeenBy
  <2> QED
    BY <1>1, <2>3, <2>5, QuietKeeps DEF Leave, Known
<1> QED
  BY <1>3, <1>4

\* A shell whose save is over.
LEMMA SavedIs ==
  ASSUME NEW s \in Shells, NEW w, Known(s, w)
  PROVE  /\ Saved(s) \in ShellStates /\ Saved(s).phase = "closing" /\ Saved(s).run = w.run /\ Saved(s).path = w.path
         /\ Saved(s).loaded = w.loaded /\ Saved(s).previous = NoFile /\ Saved(s).saving = ""
         /\ Saved(s).clears = w.clears
<1>1. "closing" \in ShellPhases /\ "" \in Savings /\ "" \in AnyText /\ NoFile \in Loadable
  BY DEF ShellPhases, Savings, AnyText, Loadable
<1>2. w \in ShellStates /\ Saved(s) = [w EXCEPT !.saving = "", !.draft = "", !.previous = NoFile, !.phase = "closing"]
  BY DEF Known, Saved
<1> QED
  BY <1>1, <1>2 DEF ShellStates

\* A shell whose save is over fits.
LEMMA SavedFits ==
  ASSUME NEW s \in Shells, NEW w, Known(s, w), w.saving # "", UNCHANGED <<savedDrafts, restored>>,
         NEW u, u = Saved(s)
  PROVE  ShellFits(s, u)' /\ Unwritten(s, u)
<1>1. /\ u.phase = "closing" /\ u.run = w.run /\ u.path = w.path
      /\ u.loaded = w.loaded /\ u.previous = NoFile /\ u.saving = "" /\ u.clears = w.clears
  BY SavedIs
<1> QED
  BY <1>1 DEF Known, ShellFits, Unwritten, SeenBy

\* After the save the draft that was shown is removed, if it is still there.
LEMMA PreviousKeeps ==
  ASSUME DraftInv, NEW s \in Shells, CheckPrevious(s) \/ RemovePrevious(s)
  PROVE  DraftInv'
<1>1. PICK w : Known(s, w)
  BY KnownIs
<1>2. PICK saved : saved = Saved(s) /\ saved \in ShellStates
  BY <1>1, SavedIs
<1>3. w.saving # "" /\ UNCHANGED <<savedDrafts, restored>>
  BY <1>1 DEF CheckPrevious, RemovePrevious, Known
<1>4. ShellFits(s, saved)' /\ Unwritten(s, saved)
  BY <1>1, <1>2, <1>3, SavedFits
<1>5. CASE CheckPrevious(s) /\ Becomes(s, saved)
  <2>1. OneBecomes(s, saved)
    BY <1>2, <1>5 DEF Becomes, OneBecomes
  <2> QED
    BY <1>1, <1>4, <1>5, <2>1, QuietKeeps DEF CheckPrevious, Known
<1>6. CASE CheckPrevious(s) /\ Becomes(s, [w EXCEPT !.saving = "remove"])
  <2>1. PICK u : u = [w EXCEPT !.saving = "remove"]
    OBVIOUS
  <2>2. "remove" \in Savings
    BY DEF Savings
  <2>3. /\ u \in ShellStates /\ u.phase = w.phase /\ u.run = w.run /\ u.path = w.path /\ u.loaded = w.loaded
        /\ u.previous = w.previous /\ u.saving = "remove" /\ u.draft = w.draft /\ u.clears = w.clears
    BY <1>1, <2>1, <2>2 DEF ShellStates, Known
  <2>4. OneBecomes(s, u)
    BY <1>6, <2>1, <2>3 DEF Becomes, OneBecomes
  <2>5. w.saving = "check"
    BY <1>1, <1>6 DEF CheckPrevious, Known
  <2>6. ShellFits(s, u)' /\ Unwritten(s, u)
    BY <1>1, <1>3, <2>3, <2>5 DEF Known, ShellFits, Unwritten, SeenBy
  <2> QED
    BY <1>1, <1>6, <2>4, <2>6, QuietKeeps DEF CheckPrevious, Known
<1>7. CASE RemovePrevious(s)
  <2>1. OneBecomes(s, saved)
    BY <1>2, <1>7 DEF RemovePrevious, Becomes, OneBecomes
  <2>2. SeenBy(w, w.previous)
    BY <1>1, <1>7 DEF RemovePrevious, Known, ShellFits
  <2>3. PICK paths : paths = {w.previous.path} /\ RemoveDrafts(s, paths)
    BY <1>1, <1>7 DEF RemovePrevious, Known
  <2>4. \A path \in paths : path = shells[s].path \/ \E f \in restored : f.path = path
    BY <1>1, <2>2, <2>3 DEF SeenBy, Known
  <2> QED
    BY <1>3, <1>4, <2>1, <2>3, <2>4, RemovalKeeps
<1> QED
  BY <1>1, <1>2, <1>5, <1>6, <1>7 DEF CheckPrevious, Known

\* A run writes its draft to a path that no draft has, so none is replaced.
LEMMA WriteKeeps == ASSUME DraftInv, NEW s \in Shells, WriteDraft(s) PROVE DraftInv'
<1>1. PICK w : Known(s, w)
  BY KnownIs
<1>2. PICK saved : saved = Saved(s) /\ saved \in ShellStates
  BY <1>1, SavedIs
<1>3. w.saving = "write" /\ w.draft \in Texts /\ w.path = PathOf(s, w.run) /\ w.path \in AnyPath
      /\ w.phase \notin {"gone", "listing", "open"} /\ w.run \in Nat
  BY <1>1 DEF WriteDraft, Known, ShellFits, ShellStates
<1>4. CASE Becomes(s, saved) /\ UNCHANGED <<draftFiles, savedDrafts, restored, withdrawn>>
  <2>1. OneBecomes(s, saved)
    BY <1>2, <1>4 DEF Becomes, OneBecomes
  <2>2. ShellFits(s, saved)' /\ Unwritten(s, saved)
    BY <1>1, <1>2, <1>3, <1>4, SavedFits
  <2> QED
    BY <1>1, <1>4, <2>1, <2>2, QuietKeeps DEF Known
<1>5. ASSUME NEW file, file = [path |-> w.path, text |-> w.draft, at |-> Cardinality(savedDrafts) + 1],
             draftFiles' = (draftFiles \ OnDisk(file.path)) \union {file},
             savedDrafts' = savedDrafts \union {file}, UNCHANGED <<restored, withdrawn>>,
             NEW v \in {saved, [w EXCEPT !.saving = "check"]},
             v # saved => w.previous # NoFile,
             Becomes(s, [v EXCEPT !.loaded = file])
      PROVE  DraftInv'
  <2>1. IsFiniteSet(savedDrafts) /\ Cardinality(savedDrafts) \in Nat
    BY FS_CardinalityType DEF DraftInv, DraftTypes
  <2>2. file \in AnyDraft /\ file.path = w.path
    BY <1>3, <1>5, <2>1 DEF AnyDraft
  <2>3. IsFiniteSet(savedDrafts')
    BY <1>5, <2>1, FS_AddElement
  <2>4. /\ v \in ShellStates /\ v.run = w.run /\ v.path = w.path /\ v.clears = w.clears
        /\ v.saving # "write" /\ v.phase \notin {"gone", "listing", "open"}
        /\ v.previous # NoFile => v.previous = w.previous
        /\ v.saving # "" => v.previous # NoFile
    <3>1. CASE v = saved
      BY <1>1, <1>2, <3>1, SavedIs
    <3>2. CASE v = [w EXCEPT !.saving = "check"] /\ w.previous # NoFile
      <4>1. "check" \in Savings
        BY DEF Savings
      <4> QED
        BY <1>1, <1>3, <3>2, <4>1 DEF ShellStates, Known
    <3> QED
      BY <1>5, <3>1, <3>2
  <2>5. PICK u : u = [v EXCEPT !.loaded = file]
    OBVIOUS
  <2>6. /\ u \in ShellStates /\ u.run = w.run /\ u.path = w.path /\ u.clears = w.clears /\ u.loaded = file
        /\ u.saving # "write" /\ u.phase \notin {"gone", "listing", "open"}
        /\ u.previous # NoFile => u.previous = w.previous
        /\ u.saving # "" => u.previous # NoFile
    <3>1. file \in Loadable
      BY <2>2 DEF Loadable
    <3> QED
      BY <2>4, <2>5, <3>1 DEF ShellStates
  <2>7. shells' = [shells EXCEPT ![s] = u]
    BY <1>5, <2>5 DEF Becomes
  <2>8. \A f \in savedDrafts : f.path # file.path
    BY <1>1, <1>3, <2>2 DEF Known, Unwritten
  <2>9. OnDisk(file.path) = {}
    BY <1>1, <2>8 DEF OnDisk, Known
  <2>10. DraftTypes' /\ OneDraftPerPath' /\ DraftKept'
    BY <1>5, <2>2, <2>3, <2>6, <2>7, <2>8, <2>9 DEF DraftInv, DraftTypes, OneDraftPerPath, DraftKept
  <2>11. ASSUME NEW t \in Shells PROVE ShellFits(t, shells[t])' /\ Unwritten(t, shells[t])'
    <3>1. CASE t = s
      <4>1. shells'[t] = u
        BY <2>7, <3>1 DEF DraftInv, DraftTypes
      <4>2. ShellFits(s, u)'
        BY <1>1, <1>3, <1>5, <2>2, <2>6 DEF Known, ShellFits, SeenBy
      <4>3. Unwritten(s, u)'
        <5>1. file.path.shell = s /\ file.path.run = w.run
          BY <1>3, <2>2 DEF PathOf
        <5> QED
          <6>1. \A f \in savedDrafts : f.path.shell = s => f.path.run <= w.run
            BY <1>1 DEF Known, Unwritten
          <6>2. \A f \in savedDrafts' : f.path.shell = s => f.path.run <= u.run
            <7>1. \A f \in savedDrafts' : f \in savedDrafts \/ f = file
              BY <1>5
            <7>2. file.path.run <= u.run
              <8>1. PICK n \in Nat : n = w.run /\ n <= n
                BY <1>3
              <8> QED
                BY <2>6, <5>1, <8>1
            <7> QED
              BY <2>6, <6>1, <7>1, <7>2
          <6> QED
            BY <2>6, <6>2 DEF Unwritten
      <4> QED
        BY <3>1, <4>1, <4>2, <4>3
    <3>2. CASE t # s
      <4>1. shells'[t] = shells[t] /\ ShellFits(t, shells[t]) /\ Unwritten(t, shells[t])
        BY <2>7, <3>2 DEF DraftInv, DraftTypes
      <4>2. file.path.shell # t /\ \A run : PathOf(t, run).shell = t
        BY <1>3, <2>2, <3>2 DEF PathOf
      <4> QED
        <5>1. ShellFits(t, shells[t])'
          BY <1>5, <4>1 DEF ShellFits, SeenBy
        <5>2. Unwritten(t, shells[t])'
          BY <1>5, <4>1, <4>2 DEF Unwritten
        <5> QED
          BY <5>1, <5>2
    <3> QED
      BY <3>1, <3>2
  <2> QED
    BY <2>10, <2>11 DEF DraftInv
<1> QED
  BY <1>1, <1>2, <1>4, <1>5 DEF WriteDraft, Known

\* A draft that nobody has seen since it was saved is still there (DraftKept), for any number of
\* shells, starts, texts and crashes.
THEOREM DraftsAreKept == ComposerSpec => []DraftKept
<1>1. ComposerInit => DraftInv
  <2> SUFFICES ASSUME ComposerInit PROVE DraftInv
    OBVIOUS
  <2>1. shells = [s \in Shells |-> Gone(0)] /\ savedDrafts = draftFiles /\ restored = {} /\ withdrawn = {}
    BY DEF ComposerInit
  <2>2. savedDrafts = {} \/ \E t \in Texts : savedDrafts = {[path |-> PathOf("earlier", 0), text |-> t, at |-> 1]}
    BY DEF ComposerInit
  <2>3. savedDrafts \subseteq AnyDraft /\ OneDraftPerPath /\ \A f \in savedDrafts : f.path.run = 0
    BY <2>2 DEF AnyDraft, AnyPath, PathOf, OneDraftPerPath
  <2>4. IsFiniteSet(savedDrafts)
    <3>1. \A t : IsFiniteSet({[path |-> PathOf("earlier", 0), text |-> t, at |-> 1]})
      BY FS_Singleton
    <3> QED
      BY <2>2, <3>1, FS_EmptySet
  <2>5. DraftTypes
    BY <2>1, <2>3, <2>4, GoneIs DEF DraftTypes
  <2>6. ASSUME NEW s \in Shells PROVE ShellFits(s, shells[s]) /\ Unwritten(s, shells[s])
    <3>1. PICK gone : gone = Gone(0)
      OBVIOUS
    <3>2. /\ shells[s] = gone /\ gone.phase = "gone" /\ gone.run = 0 /\ gone.loaded = NoFile /\ gone.previous = NoFile
          /\ gone.clears = {} /\ gone.saving = ""
      BY <2>1, <3>1, GoneIs
    <3> QED
      <4>1. ShellFits(s, gone)
        BY <3>2 DEF ShellFits
      <4>2. Unwritten(s, gone)
        <5>1. 0 <= 0
          OBVIOUS
        <5>2. \A f \in savedDrafts : f.path.run <= gone.run
          BY <2>3, <3>2, <5>1
        <5> QED
          BY <3>2, <5>2 DEF Unwritten
      <4> QED
        BY <3>2, <4>1, <4>2
  <2> QED
    BY <2>1, <2>3, <2>5, <2>6 DEF DraftInv, DraftKept
<1>2. DraftInv /\ [ComposerNext]_composerVars => DraftInv'
  <2>1. ASSUME DraftInv, NEW s \in Shells, ShellStep(s) PROVE DraftInv'
    BY <2>1, ListKeeps, LoadKeeps, EditKeeps, ReceiptKeeps, LeaveKeeps, WriteKeeps, PreviousKeeps, StopKeeps,
       CheckKeeps, ClearKeeps DEF ShellStep
  <2>2. ASSUME DraftInv, UNCHANGED composerVars PROVE DraftInv'
    <3>1. UNCHANGED <<shells, draftFiles, savedDrafts, restored, withdrawn>>
      BY <2>2 DEF composerVars
    <3>2. DraftTypes' /\ OneDraftPerPath' /\ DraftKept'
      BY <2>2, <3>1 DEF DraftInv, DraftTypes, OneDraftPerPath, DraftKept
    <3>3. ASSUME NEW s \in Shells PROVE ShellFits(s, shells[s])' /\ Unwritten(s, shells[s])'
      <4>1. ShellFits(s, shells[s]) /\ Unwritten(s, shells[s])
        BY <2>2 DEF DraftInv
      <4> QED
        BY <3>1, <4>1 DEF ShellFits, Unwritten, SeenBy
    <3> QED
      BY <3>2, <3>3 DEF DraftInv
  <2> QED
    BY <2>1, <2>2 DEF ComposerNext
<1>3. DraftInv => DraftKept
  BY DEF DraftInv
<1> QED
  BY <1>1, <1>2, <1>3, PTL DEF ComposerSpec

-----------------------------------------------------------------------------
(* The steps of a turn: each piece of work is told once.                   *)

Works == 1..Len(TurnDeeds)
StepRecords == [token : PlanTokens, status : {"running", "pending"}, identity : StepIdentities, work : Seq(Works)]
Reasons == {"deleted", "ambiguous_duplicate", "ambiguous_edit", "replacement", "source_mismatch", "invalid_revision",
            "pre_plan", "no_unambiguous_running_item"}
OrphanRecords == [activity : Works, reason : Reasons, prior : StepIdentities]

FlowTyped ==
  /\ currentSteps \in Seq(StepRecords) /\ planOrphans \in Seq(OrphanRecords)
  /\ retirements \subseteq [identity : StepIdentities, reason : Reasons]
  /\ planOrdinal \in 0..MaxRevisions /\ worked \in 0..Len(TurnDeeds)
  /\ planInvalid \in BOOLEAN /\ turnOver \in BOOLEAN

\* Each piece of work belongs to one step or is one orphan, and there is no other.
WorkOf(i) == ToSet(currentSteps[i].work)
Orphans == {planOrphans[k].activity : k \in DOMAIN planOrphans}
WorkApart ==
  /\ \A i \in DOMAIN currentSteps : Once(currentSteps[i].work) /\ WorkOf(i) \intersect Orphans = {}
  /\ \A i, j \in DOMAIN currentSteps : i # j => WorkOf(i) \intersect WorkOf(j) = {}
  /\ \A k, l \in DOMAIN planOrphans : planOrphans[k].activity = planOrphans[l].activity => k = l
WorkComplete ==
  (UNION {WorkOf(i) : i \in DOMAIN currentSteps}) \union Orphans = {a \in 1..worked : ClassOf(a) # "control"}

\* Identities are made of the ordinal of a revision, and are given once.
IdentitiesApart ==
  /\ \A i \in DOMAIN currentSteps : currentSteps[i].identity.ordinal <= planOrdinal
  /\ \A r \in retirements : r.identity.ordinal <= planOrdinal
  /\ \A i, j \in DOMAIN currentSteps : currentSteps[i].identity = currentSteps[j].identity => i = j
  /\ \A i \in DOMAIN currentSteps, r \in retirements : r.identity # currentSteps[i].identity

StepsInv == FlowTyped /\ WorkApart /\ WorkComplete /\ IdentitiesApart

\* Of a set with one element any two are the same.
LEMMA OnlyOne ==
  ASSUME NEW S, IsFiniteSet(S), Cardinality(S) = 1, NEW a \in S, NEW b \in S
  PROVE  a = b
<1>1. IsFiniteSet(S \ {a}) /\ Cardinality(S \ {a}) = 0
  BY FS_RemoveElement
<1>2. S \ {a} = {}
  <2> DEFINE T == S \ {a}
  <2>1. IsFiniteSet(T) /\ Cardinality(T) = 0
    BY <1>1
  <2> HIDE DEF T
  <2>2. T = {}
    BY <2>1, FS_EmptySet
  <2> QED
    BY <2>2 DEF T
<1> QED
  BY <1>2

\* Places of a sequence are finitely many.
LEMMA SomePositions ==
  ASSUME NEW S, NEW seq \in Seq(S), NEW T \in SUBSET (DOMAIN seq)
  PROVE  IsFiniteSet(T)
<1> DEFINE D == DOMAIN seq
<1>1. IsFiniteSet(D)
  <2>1. DOMAIN seq = 1..Len(seq) /\ Len(seq) \in Nat
    OBVIOUS
  <2> QED
    BY <2>1, FS_Interval
<1>2. T \in SUBSET D
  OBVIOUS
<1> HIDE DEF D
<1> QED
  BY <1>1, <1>2, FS_Subset

\* A step is continued by one entry at most, and an entry continues one step at most.
LEMMA MatchesOneToOne ==
  ASSUME NEW old \in Seq(StepRecords), NEW plan \in Plans, NEW p \in Matches(old, plan), NEW q \in Matches(old, plan)
  PROVE  /\ p = <<p[1], p[2]>> /\ p[1] \in DOMAIN old /\ p[2] \in DOMAIN plan
         /\ p[1] = q[1] => p[2] = q[2]
         /\ p[2] = q[2] => p[1] = q[1]
<1> DEFINE exact == {e \in (DOMAIN old) \X (DOMAIN plan) : Exact(old, plan, e[1], e[2])}
           oldLeft == DOMAIN old \ {e[1] : e \in exact}
           newLeft == DOMAIN plan \ {e[2] : e \in exact}
           edited == {e \in oldLeft \X newLeft :
                        LET was == old[e[1]].token
                            is  == plan[e[2]].token
                        IN  /\ Cardinality(oldLeft) = 1 /\ Cardinality(newLeft) = 1
                            /\ ~Blocked(old, plan, was) /\ ~Blocked(old, plan, is)
                            /\ was = is \/ <<was, is>> \in Near}
<1>1. Matches(old, plan) = exact \union edited
  BY DEF Matches
<1>2. IsFiniteSet(oldLeft) /\ IsFiniteSet(newLeft)
  <2>1. plan \in Seq(Entries)
    BY StepsAssumption DEF Plans
  <2>2. oldLeft \in SUBSET DOMAIN old /\ newLeft \in SUBSET DOMAIN plan
    OBVIOUS
  <2> HIDE DEF oldLeft, newLeft
  <2>3. IsFiniteSet(oldLeft)
    BY <2>2, SomePositions
  <2>4. IsFiniteSet(newLeft)
    BY <2>1, <2>2, SomePositions
  <2> QED
    BY <2>3, <2>4
<1>3. \A e \in exact : /\ e = <<e[1], e[2]>> /\ e[1] \in DOMAIN old /\ e[2] \in DOMAIN plan
                       /\ old[e[1]].token = plan[e[2]].token
                       /\ Times(old, old[e[1]].token) = 1 /\ Times(plan, plan[e[2]].token) = 1
  BY DEF Exact
<1>4. ASSUME NEW seq, NEW S, seq \in Seq(S), NEW i \in DOMAIN seq, NEW j \in DOMAIN seq,
             seq[i].token = seq[j].token, Times(seq, seq[i].token) = 1
      PROVE  i = j
  <2> DEFINE same == {k \in DOMAIN seq : seq[k].token = seq[i].token}
  <2>1. same \in SUBSET DOMAIN seq /\ Cardinality(same) = 1 /\ i \in same /\ j \in same
    BY <1>4 DEF Times
  <2> HIDE DEF same
  <2>2. IsFiniteSet(same)
    BY <1>4, <2>1, SomePositions
  <2> QED
    BY <2>1, <2>2, OnlyOne
<1>5. \A d \in exact, e \in exact : (d[1] = e[1] => d[2] = e[2]) /\ (d[2] = e[2] => d[1] = e[1])
  <2> SUFFICES ASSUME NEW d \in exact, NEW e \in exact
               PROVE  (d[1] = e[1] => d[2] = e[2]) /\ (d[2] = e[2] => d[1] = e[1])
    OBVIOUS
  <2>1. plan \in Seq(Entries)
    BY StepsAssumption DEF Plans
  <2>2. /\ d[1] \in DOMAIN old /\ d[2] \in DOMAIN plan /\ old[d[1]].token = plan[d[2]].token
        /\ Times(old, old[d[1]].token) = 1 /\ Times(plan, plan[d[2]].token) = 1
    BY <1>3
  <2>3. e[1] \in DOMAIN old /\ e[2] \in DOMAIN plan /\ old[e[1]].token = plan[e[2]].token
    BY <1>3
  <2> HIDE DEF exact
  <2>4. d[1] = e[1] => d[2] = e[2]
    BY <1>4, <2>1, <2>2, <2>3
  <2>5. d[2] = e[2] => d[1] = e[1]
    BY <1>4, <2>1, <2>2, <2>3
  <2> QED
    BY <2>4, <2>5
<1>6. \A e \in edited : /\ e = <<e[1], e[2]>> /\ e[1] \in oldLeft /\ e[2] \in newLeft
                        /\ Cardinality(oldLeft) = 1 /\ Cardinality(newLeft) = 1
  BY DEF Blocked
<1>7. \A d \in exact : d[1] \notin oldLeft /\ d[2] \notin newLeft
  OBVIOUS
<1>8. oldLeft \subseteq DOMAIN old /\ newLeft \subseteq DOMAIN plan
  OBVIOUS
<1> HIDE DEF exact, edited, oldLeft, newLeft
<1>9. \A d \in edited, e \in edited : d[1] = e[1] /\ d[2] = e[2]
  BY <1>2, <1>6, OnlyOne
<1> QED
  BY <1>1, <1>3, <1>5, <1>6, <1>7, <1>8, <1>9

\* A plan is a sequence of entries, of bounded length.
LEMMA PlanIs ==
  ASSUME NEW plan \in Plans
  PROVE  plan \in Seq(Entries) /\ DOMAIN plan = 1..Len(plan) /\ Len(plan) \in 0..MaxPlanLength
BY StepsAssumption DEF Plans

\* A token that a plan has once is of one entry.
LEMMA AloneInThePlan ==
  ASSUME NEW S, NEW plan \in Seq(S), NEW i \in DOMAIN plan, Times(plan, plan[i].token) = 1
  PROVE  Alone(plan, i)
<1> SUFFICES ASSUME NEW k \in DOMAIN plan, plan[k].token = plan[i].token PROVE k = i
  BY DEF Alone
<1> DEFINE same == {l \in DOMAIN plan : plan[l].token = plan[i].token}
<1>1. same \in SUBSET DOMAIN plan /\ Cardinality(same) = 1 /\ i \in same /\ k \in same
  BY DEF Times
<1> HIDE DEF same
<1>2. IsFiniteSet(same)
  BY <1>1, SomePositions
<1> QED
  BY <1>1, <1>2, OnlyOne

\* An entry continues a step only if the two are one beyond doubt.
LEMMA MatchesAreOneEntry ==
  ASSUME NEW old \in Seq(StepRecords), NEW plan \in Plans, NEW p \in Matches(old, plan)
  PROVE  SameEntry(old, plan, p[1], p[2])
<1> DEFINE exact == {e \in (DOMAIN old) \X (DOMAIN plan) : Exact(old, plan, e[1], e[2])}
           oldLeft == DOMAIN old \ {e[1] : e \in exact}
           newLeft == DOMAIN plan \ {e[2] : e \in exact}
           edited == {e \in oldLeft \X newLeft :
                        LET was == old[e[1]].token
                            is  == plan[e[2]].token
                        IN  /\ Cardinality(oldLeft) = 1 /\ Cardinality(newLeft) = 1
                            /\ ~Blocked(old, plan, was) /\ ~Blocked(old, plan, is)
                            /\ was = is \/ <<was, is>> \in Near}
<1>1. Matches(old, plan) = exact \union edited
  BY DEF Matches
<1>2. plan \in Seq(Entries)
  BY PlanIs
<1>3. \A e \in exact : /\ e[1] \in DOMAIN old /\ e[2] \in DOMAIN plan /\ old[e[1]].token = plan[e[2]].token
                       /\ Times(old, old[e[1]].token) = 1 /\ Times(plan, plan[e[2]].token) = 1
                       /\ ~Blocked(old, plan, plan[e[2]].token)
  BY DEF Exact
<1>4. \A e \in exact : Alone(old, e[1]) /\ Alone(plan, e[2])
  <2> SUFFICES ASSUME NEW e \in exact PROVE Alone(old, e[1]) /\ Alone(plan, e[2])
    OBVIOUS
  <2>1. /\ e[1] \in DOMAIN old /\ e[2] \in DOMAIN plan
        /\ Times(old, old[e[1]].token) = 1 /\ Times(plan, plan[e[2]].token) = 1
    BY <1>3
  <2> HIDE DEF exact
  <2> QED
    BY <1>2, <2>1, AloneInThePlan
<1>5. CASE p \in exact
  BY <1>3, <1>4, <1>5 DEF SameEntry
<1>6. CASE p \in edited
  <2>1. /\ p[1] \in oldLeft /\ p[2] \in newLeft /\ Cardinality(oldLeft) = 1 /\ Cardinality(newLeft) = 1
        /\ ~Blocked(old, plan, old[p[1]].token) /\ ~Blocked(old, plan, plan[p[2]].token)
        /\ old[p[1]].token = plan[p[2]].token \/ <<old[p[1]].token, plan[p[2]].token>> \in Near
    BY <1>6
  <2>2. oldLeft \in SUBSET DOMAIN old /\ newLeft \in SUBSET DOMAIN plan
    OBVIOUS
  <2>3. /\ \A k \in DOMAIN old \ oldLeft : \E e \in exact : e[1] = k
        /\ \A l \in DOMAIN plan \ newLeft : \E e \in exact : e[2] = l
        /\ \A e \in exact : e[1] \notin oldLeft /\ e[2] \notin newLeft
    OBVIOUS
  <2> HIDE DEF exact, edited, oldLeft, newLeft
  <2>4. IsFiniteSet(oldLeft) /\ IsFiniteSet(newLeft)
    BY <1>2, <2>2, SomePositions
  <2>5. (\A k \in oldLeft : k = p[1]) /\ (\A l \in newLeft : l = p[2])
    BY <2>1, <2>4, OnlyOne
  <2>6. AllStay(old, plan, p[1], p[2])
    BY <1>3, <1>4, <2>1, <2>3, <2>5 DEF AllStay
  <2>7. AllStay(plan, old, p[2], p[1])
    BY <1>3, <1>4, <2>1, <2>3, <2>5 DEF AllStay
  <2>8. p[1] \in DOMAIN old /\ p[2] \in DOMAIN plan
    BY <2>1, <2>2
  <2>9. Alone(old, p[1]) /\ Alone(plan, p[2])
    BY <2>6, <2>7, <2>8 DEF AllStay, Alone
  <2> QED
    BY <2>1, <2>6, <2>7, <2>9 DEF SameEntry
<1> QED
  BY <1>1, <1>5, <1>6

\* What becomes of the steps when a plan replaces another: entry j of it continues step from[j], or
\* is a new step of the next revision.
Continues(plan, kept, from) ==
  /\ kept \subseteq DOMAIN currentSteps /\ DOMAIN from \subseteq DOMAIN plan
  /\ currentSteps' \in Seq(StepRecords) /\ DOMAIN currentSteps' = DOMAIN plan
  /\ \A j \in DOMAIN from :
       /\ from[j] \in kept
       /\ currentSteps'[j].identity = currentSteps[from[j]].identity /\ currentSteps'[j].work = currentSteps[from[j]].work
  /\ \A j \in DOMAIN from : SameEntry(currentSteps, plan, from[j], j)
  /\ \A j \in DOMAIN plan : currentSteps'[j].token = plan[j].token
  /\ \A j, l \in DOMAIN from : from[j] = from[l] => j = l
  /\ \A i \in kept : \E j \in DOMAIN from : from[j] = i
  /\ \A j \in DOMAIN plan \ DOMAIN from :
       currentSteps'[j].identity = [ordinal |-> planOrdinal + 1, position |-> j] /\ currentSteps'[j].work = <<>>

\* The steps that no entry continues are retired, and all their work is told with the reason.
Retired(kept, reasons, more) ==
  LET gone == DOMAIN currentSteps \ kept
  IN  /\ reasons \in [gone -> Reasons]
      /\ retirements' = retirements \union {[identity |-> currentSteps[i].identity, reason |-> reasons[i]] : i \in gone}
      /\ planOrphans' = planOrphans \o more /\ more \in Seq(OrphanRecords) /\ Once(more)
      /\ \A o : o \in ToSet(more) <=>
           \E i \in gone : \E k \in DOMAIN currentSteps[i].work :
             o = Orphan(currentSteps[i].work[k], reasons[i], currentSteps[i].identity)

\* The steps of the new plan are earlier ones that go on, or new.
LEMMA StepsContinue ==
  ASSUME FlowTyped, NEW plan \in Plans, PlanUpdated(plan)
  PROVE  \E from : Continues(plan, {p[1] : p \in Matches(currentSteps, plan)}, from)
<1> DEFINE matches == Matches(currentSteps, plan)
           kept == {p[1] : p \in matches}
           newLeft == DOMAIN plan \ {p[2] : p \in matches}
           source(j) == CHOOSE i \in kept : <<i, j>> \in matches
           D == DOMAIN plan \ newLeft
           from == [j \in D |-> source(j)]
           fresh(j) == [token |-> plan[j].token, status |-> plan[j].status,
                        identity |-> [ordinal |-> planOrdinal + 1, position |-> j], work |-> <<>>]
           same(j) == [currentSteps[source(j)] EXCEPT !.token = plan[j].token, !.status = plan[j].status]
<1>1. /\ planOrdinal < MaxRevisions /\ planOrdinal' = planOrdinal + 1
      /\ currentSteps' = [j \in DOMAIN plan |-> IF j \in newLeft THEN fresh(j) ELSE same(j)]
  <2>1. planOrdinal < MaxRevisions /\ planOrdinal' = planOrdinal + 1
    BY DEF PlanUpdated
  <2>2. currentSteps' =
          [j \in DOMAIN plan |->
             IF j \in newLeft
             THEN [token |-> plan[j].token, status |-> plan[j].status,
                   identity |-> [ordinal |-> planOrdinal', position |-> j], work |-> <<>>]
             ELSE LET i == source(j)
                  IN  [currentSteps[i] EXCEPT !.token = plan[j].token, !.status = plan[j].status]]
    BY DEF PlanUpdated
  <2> HIDE DEF newLeft, source
  <2> QED
    BY <2>1, <2>2
<1>2. currentSteps \in Seq(StepRecords) /\ planOrdinal \in 0..MaxRevisions
  BY DEF FlowTyped
<1>3. \A p, q \in matches : /\ p = <<p[1], p[2]>> /\ p[1] \in DOMAIN currentSteps /\ p[2] \in DOMAIN plan
                            /\ p[1] = q[1] => p[2] = q[2]
                            /\ p[2] = q[2] => p[1] = q[1]
  BY <1>2, MatchesOneToOne
<1>4. /\ DOMAIN plan = 1..Len(plan) /\ Len(plan) \in 0..MaxPlanLength /\ \A j \in DOMAIN plan : plan[j] \in Entries
  BY PlanIs
<1> HIDE DEF matches
<1>5. ASSUME NEW j \in D PROVE source(j) \in kept /\ <<source(j), j>> \in matches /\ source(j) \in DOMAIN currentSteps
  <2>1. PICK p \in matches : p[2] = j
    OBVIOUS
  <2>2. p[1] \in kept /\ <<p[1], j>> \in matches
    BY <1>3, <2>1
  <2>3. source(j) \in kept /\ <<source(j), j>> \in matches
    <3> HIDE DEF kept
    <3> QED
      BY <2>2
  <2> HIDE DEF source
  <2> QED
    BY <1>3, <2>3
<1>6. \A i \in kept : \E j \in D : source(j) = i
  <2> SUFFICES ASSUME NEW i \in kept PROVE \E j \in D : source(j) = i
    OBVIOUS
  <2>1. PICK p \in matches : p[1] = i
    OBVIOUS
  <2>2. p[2] \in D /\ p = <<i, p[2]>>
    BY <1>3, <2>1
  <2>3. <<source(p[2]), p[2]>> \in matches
    BY <1>5, <2>2
  <2> HIDE DEF source, kept, D
  <2>4. source(p[2]) = i
    BY <1>3, <2>1, <2>3
  <2> QED
    BY <2>2, <2>4
<1>7. \A j, l \in D : source(j) = source(l) => j = l
  <2> SUFFICES ASSUME NEW j \in D, NEW l \in D, source(j) = source(l) PROVE j = l
    OBVIOUS
  <2>1. <<source(j), j>> \in matches /\ <<source(l), l>> \in matches
    BY <1>5
  <2> HIDE DEF source, D
  <2> QED
    BY <1>3, <2>1
<1>8. \A j \in DOMAIN plan : fresh(j) \in StepRecords
  <2> SUFFICES ASSUME NEW j \in DOMAIN plan PROVE fresh(j) \in StepRecords
    OBVIOUS
  <2>1. [ordinal |-> planOrdinal + 1, position |-> j] \in StepIdentities
    <3>1. planOrdinal + 1 \in 0..MaxRevisions
      <4>1. planOrdinal < MaxRevisions
        BY <1>1
      <4>2. planOrdinal \in 0..MaxRevisions /\ MaxRevisions \in Nat
        BY <1>2, StepsAssumption
      <4> QED
        BY <4>1, <4>2
    <3>2. j \in 0..MaxPlanLength
      BY <1>4, StepsAssumption
    <3> QED
      BY <3>1, <3>2 DEF StepIdentities
  <2>2. plan[j].token \in PlanTokens /\ plan[j].status \in {"running", "pending"} /\ <<>> \in Seq(Works)
    BY <1>4 DEF Entries
  <2> QED
    BY <2>1, <2>2 DEF StepRecords
<1>9. ASSUME NEW j \in D
      PROVE  same(j) \in StepRecords /\ same(j).identity = currentSteps[source(j)].identity
             /\ same(j).work = currentSteps[source(j)].work
  <2>1. currentSteps[source(j)] \in StepRecords
    <3>1. source(j) \in DOMAIN currentSteps
      BY <1>5
    <3> HIDE DEF source
    <3> QED
      BY <1>2, <3>1
  <2>2. plan[j].token \in PlanTokens /\ plan[j].status \in {"running", "pending"}
    BY <1>4 DEF Entries
  <2> HIDE DEF source
  <2> QED
    BY <2>1, <2>2 DEF StepRecords
<1>10. currentSteps' \in Seq(StepRecords) /\ DOMAIN currentSteps' = DOMAIN plan
  <2> HIDE DEF fresh, same, newLeft
  <2>1. \A j \in DOMAIN plan : (IF j \in newLeft THEN fresh(j) ELSE same(j)) \in StepRecords
    BY <1>8, <1>9
  <2> DEFINE g(j) == IF j \in newLeft THEN fresh(j) ELSE same(j)
  <2>2. currentSteps' = [j \in 1..Len(plan) |-> g(j)] /\ \A j \in 1..Len(plan) : g(j) \in StepRecords
    BY <1>1, <1>4, <2>1
  <2> HIDE DEF g
  <2> QED
    BY <1>4, <2>2
<1>11. \A j \in D : currentSteps'[j] = same(j) /\ from[j] = source(j) /\ DOMAIN from = D
  <2> HIDE DEF fresh, same, source
  <2> QED
    BY <1>1
<1>12. \A j \in DOMAIN plan \ D : currentSteps'[j] = fresh(j)
  <2> HIDE DEF fresh, same, source
  <2> QED
    BY <1>1
<1>13. kept \subseteq DOMAIN currentSteps /\ D \subseteq DOMAIN plan /\ DOMAIN from = D
  BY <1>3
<1>14. \A j \in DOMAIN plan : fresh(j).identity = [ordinal |-> planOrdinal + 1, position |-> j] /\ fresh(j).work = <<>>
  OBVIOUS
<1>15. ASSUME NEW j \in D PROVE SameEntry(currentSteps, plan, source(j), j)
  <2>1. <<source(j), j>> \in matches
    BY <1>5
  <2> DEFINE q == <<source(j), j>>
  <2>2. q[1] = source(j) /\ q[2] = j
    OBVIOUS
  <2> HIDE DEF source, q
  <2>3. q \in Matches(currentSteps, plan)
    BY <2>1 DEF q, matches
  <2> QED
    BY <1>2, <2>2, <2>3, MatchesAreOneEntry
<1>16. \A j \in DOMAIN plan : fresh(j).token = plan[j].token
  OBVIOUS
<1>17. \A j \in D : same(j).token = plan[j].token
  <2> SUFFICES ASSUME NEW j \in D PROVE same(j).token = plan[j].token
    OBVIOUS
  <2>1. currentSteps[source(j)] \in StepRecords
    <3>1. source(j) \in DOMAIN currentSteps
      BY <1>5
    <3> HIDE DEF source
    <3> QED
      BY <1>2, <3>1
  <2> HIDE DEF source
  <2> QED
    BY <2>1 DEF StepRecords
<1> HIDE DEF from, fresh, same, source, D, kept, newLeft
<1>18. Continues(plan, kept, from)
  <2>1. \A j \in D : from[j] \in kept /\ currentSteps'[j].identity = currentSteps[from[j]].identity
                     /\ currentSteps'[j].work = currentSteps[from[j]].work
    BY <1>5, <1>9, <1>11
  <2>2. \A j, l \in D : from[j] = from[l] => j = l
    BY <1>7, <1>11
  <2>3. \A i \in kept : \E j \in D : from[j] = i
    BY <1>6, <1>11
  <2>4. \A j \in DOMAIN plan \ D :
          currentSteps'[j].identity = [ordinal |-> planOrdinal + 1, position |-> j] /\ currentSteps'[j].work = <<>>
    BY <1>12, <1>14
  <2>5. \A j \in D : SameEntry(currentSteps, plan, from[j], j)
    BY <1>11, <1>15
  <2>6. \A j \in DOMAIN plan : currentSteps'[j].token = plan[j].token
    BY <1>11, <1>12, <1>16, <1>17
  <2> QED
    BY <1>10, <1>13, <2>1, <2>2, <2>3, <2>4, <2>5, <2>6 DEF Continues
<1> QED
  BY <1>18 DEF kept, matches

\* The steps that do not go on are retired, each once, with its work.
LEMMA StepsRetire ==
  ASSUME FlowTyped, WorkApart, NEW plan \in Plans, PlanUpdated(plan)
  PROVE  \E reasons, more : Retired({p[1] : p \in Matches(currentSteps, plan)}, reasons, more)
<1> DEFINE matches == Matches(currentSteps, plan)
           kept == {p[1] : p \in matches}
           newLeft == DOMAIN plan \ {p[2] : p \in matches}
           left == DOMAIN currentSteps \ kept
           gone == SetToSeq(left)
           reason(i) == RetirementReason(currentSteps, plan, i, newLeft)
           orphansOf(i) == [k \in DOMAIN currentSteps[i].work |->
                              Orphan(currentSteps[i].work[k], reason(i), currentSteps[i].identity)]
           parts == [k \in DOMAIN gone |-> orphansOf(gone[k])]
           reasons == [i \in left |-> reason(i)]
           more == FlattenSeq(parts)
<1>1. /\ retirements' = retirements \union {[identity |-> currentSteps[i].identity, reason |-> reason(i)] : i \in ToSet(gone)}
      /\ planOrphans' = planOrphans \o more
  BY DEF PlanUpdated
<1>2. currentSteps \in Seq(StepRecords)
  BY DEF FlowTyped
<1>3. gone \in Seq(left) /\ Once(gone) /\ ToSet(gone) = left
  <2>1. left \in SUBSET DOMAIN currentSteps
    OBVIOUS
  <2> HIDE DEF left
  <2>2. IsFiniteSet(left)
    BY <1>2, <2>1, SomePositions
  <2> QED
    BY <2>2, SetAsSequence
<1>4. \A i : reason(i) \in Reasons
  BY DEF RetirementReason, Reasons
<1> HIDE DEF reason
<1>5. ASSUME NEW i \in left
      PROVE  /\ currentSteps[i].work \in Seq(Works) /\ currentSteps[i].identity \in StepIdentities
             /\ orphansOf(i) \in Seq(OrphanRecords) /\ Once(orphansOf(i))
             /\ DOMAIN orphansOf(i) = DOMAIN currentSteps[i].work
  <2> DEFINE w == currentSteps[i].work
             id == currentSteps[i].identity
             o == orphansOf(i)
  <2>1. w \in Seq(Works) /\ id \in StepIdentities /\ Once(w)
    <3>1. i \in DOMAIN currentSteps
      BY DEF left
    <3>2. currentSteps[i] \in StepRecords
      BY <1>2, <3>1
    <3>3. Once(currentSteps[i].work)
      BY <3>1 DEF WorkApart
    <3> QED
      BY <3>2, <3>3 DEF StepRecords
  <2>2. o = [k \in DOMAIN w |-> Orphan(w[k], reason(i), id)]
    OBVIOUS
  <2>3. DOMAIN w = 1..Len(w) /\ Len(w) \in Nat /\ \A k \in DOMAIN w : w[k] \in Works
    BY <2>1
  <2> HIDE DEF w, id, o
  <2>4. \A k \in DOMAIN w : Orphan(w[k], reason(i), id) \in OrphanRecords
    BY <1>4, <2>1, <2>3 DEF Orphan, OrphanRecords
  <2>5. o \in Seq(OrphanRecords) /\ DOMAIN o = DOMAIN w
    <3> DEFINE g(k) == Orphan(w[k], reason(i), id)
    <3>1. o = [k \in 1..Len(w) |-> g(k)] /\ \A k \in 1..Len(w) : g(k) \in OrphanRecords
      BY <2>2, <2>3, <2>4
    <3> HIDE DEF g
    <3> QED
      BY <2>3, <3>1
  <2>6. Once(o)
    <3>1. \A k \in DOMAIN w : o[k].activity = w[k]
      BY <2>2 DEF Orphan
    <3> QED
      BY <2>1, <2>5, <3>1 DEF Once
  <2> QED
    BY <2>1, <2>5, <2>6 DEF w, id, o
<1>6. \A i \in left : \A o : o \in ToSet(orphansOf(i)) <=>
         \E k \in DOMAIN currentSteps[i].work : o = Orphan(currentSteps[i].work[k], reasons[i], currentSteps[i].identity)
  BY DEF ToSet
<1>7. /\ DOMAIN gone = 1..Len(gone) /\ Len(gone) \in Nat /\ \A k \in DOMAIN gone : gone[k] \in left
      /\ \A i \in left : \E k \in DOMAIN gone : gone[k] = i
  <2> HIDE DEF gone, left
  <2> QED
    BY <1>3 DEF ToSet
<1> HIDE DEF left, gone, orphansOf
<1>8. parts \in Seq(Seq(OrphanRecords)) /\ DOMAIN parts = DOMAIN gone /\ \A k \in DOMAIN gone : parts[k] = orphansOf(gone[k])
  <2> DEFINE g(k) == orphansOf(gone[k])
  <2>1. parts = [k \in 1..Len(gone) |-> g(k)] /\ \A k \in 1..Len(gone) : g(k) \in Seq(OrphanRecords)
    BY <1>5, <1>7
  <2> HIDE DEF g, parts
  <2>2. parts \in Seq(Seq(OrphanRecords)) /\ DOMAIN parts = 1..Len(gone) /\ \A k \in 1..Len(gone) : parts[k] = g(k)
    BY <1>7, <2>1
  <2> QED
    BY <1>7, <2>2 DEF g
<1>9. \A k, l \in DOMAIN parts : k # l => ToSet(parts[k]) \intersect ToSet(parts[l]) = {}
  <2> SUFFICES ASSUME NEW k \in DOMAIN gone, NEW l \in DOMAIN gone, k # l,
                      NEW o, o \in ToSet(orphansOf(gone[k])), o \in ToSet(orphansOf(gone[l]))
               PROVE  FALSE
    <3> HIDE DEF parts
    <3> QED
      BY <1>8
  <2>1. gone[k] \in left /\ gone[l] \in left /\ gone[k] # gone[l]
    BY <1>3, <1>7 DEF Once
  <2>2. o.activity \in ToSet(currentSteps[gone[k]].work) /\ o.activity \in ToSet(currentSteps[gone[l]].work)
    <3> HIDE DEF reasons
    <3> QED
      BY <1>6, <2>1 DEF Orphan, ToSet
  <2>3. gone[k] \in DOMAIN currentSteps /\ gone[l] \in DOMAIN currentSteps
    BY <2>1 DEF left
  <2> QED
    BY <2>1, <2>2, <2>3 DEF WorkApart, WorkOf
<1>10. \A k \in DOMAIN parts : Once(parts[k])
  <2> HIDE DEF parts
  <2> QED
    BY <1>5, <1>7, <1>8
<1> HIDE DEF parts
<1>11. /\ more \in Seq(OrphanRecords)
       /\ \A x : x \in ToSet(more) <=> \E k \in DOMAIN parts : x \in ToSet(parts[k])
       /\ Once(more)
  BY <1>8, <1>9, <1>10, FlattenedParts
<1> HIDE DEF more
<1>12. \A o : o \in ToSet(more) <=>
         \E i \in left : \E k \in DOMAIN currentSteps[i].work :
           o = Orphan(currentSteps[i].work[k], reasons[i], currentSteps[i].identity)
  <2>1. \A o : o \in ToSet(more) <=> \E i \in left : o \in ToSet(orphansOf(i))
    BY <1>7, <1>8, <1>11
  <2> HIDE DEF reasons
  <2> QED
    BY <1>6, <2>1
<1>13. reasons \in [left -> Reasons] /\ \A i \in left : reasons[i] = reason(i)
  BY <1>4
<1>14. retirements' = retirements \union {[identity |-> currentSteps[i].identity, reason |-> reasons[i]] : i \in left}
  <2> HIDE DEF reasons
  <2> QED
    BY <1>1, <1>3, <1>13
<1> HIDE DEF reasons
<1>15. Retired(kept, reasons, more)
  BY <1>1, <1>11, <1>12, <1>13, <1>14 DEF Retired, left
<1> QED
  BY <1>15

\* The parts of a concatenation.
LEMMA Joined ==
  ASSUME NEW S, NEW h \in Seq(S), NEW g \in Seq(S)
  PROVE  /\ DOMAIN (h \o g) = 1..(Len(h) + Len(g)) /\ Len(h) \in Nat /\ Len(g) \in Nat
         /\ DOMAIN h = 1..Len(h) /\ DOMAIN g = 1..Len(g)
         /\ \A k \in DOMAIN (h \o g) :
              (k <= Len(h) => (h \o g)[k] = h[k]) /\ (k > Len(h) => (h \o g)[k] = g[k - Len(h)])
OBVIOUS

\* A new plan keeps the types,
LEMMA PlanKeepsTypes ==
  ASSUME FlowTyped, NEW plan \in Plans, PlanUpdated(plan), NEW kept, NEW from, NEW reasons, NEW more,
         Continues(plan, kept, from), Retired(kept, reasons, more)
  PROVE  FlowTyped'
<1>1. /\ currentSteps \in Seq(StepRecords) /\ planOrphans \in Seq(OrphanRecords)
      /\ retirements \subseteq [identity : StepIdentities, reason : Reasons]
      /\ planOrdinal \in 0..MaxRevisions /\ worked \in 0..Len(TurnDeeds) /\ turnOver \in BOOLEAN
  BY DEF FlowTyped
<1>2. /\ planOrdinal < MaxRevisions /\ planOrdinal' = planOrdinal + 1 /\ planInvalid' = FALSE
      /\ worked' = worked /\ turnOver' = turnOver
  BY DEF PlanUpdated
<1>3. planOrdinal' \in 0..MaxRevisions
  BY <1>1, <1>2, StepsAssumption
<1>4. currentSteps' \in Seq(StepRecords)
  BY DEF Continues
<1>5. planOrphans' \in Seq(OrphanRecords)
  <2>1. planOrphans' = planOrphans \o more /\ more \in Seq(OrphanRecords)
    BY DEF Retired
  <2> QED
    BY <1>1, <2>1, ToSetOfConcat
<1>6. retirements' \subseteq [identity : StepIdentities, reason : Reasons]
  <2> DEFINE gone == DOMAIN currentSteps \ kept
  <2>1. /\ reasons \in [gone -> Reasons]
        /\ retirements' = retirements \union {[identity |-> currentSteps[i].identity, reason |-> reasons[i]] : i \in gone}
    BY DEF Retired
  <2>2. \A i \in gone : currentSteps[i].identity \in StepIdentities
    <3>1. \A i \in DOMAIN currentSteps : currentSteps[i] \in StepRecords
      BY <1>1
    <3> QED
      BY <3>1 DEF StepRecords
  <2> HIDE DEF gone
  <2> QED
    BY <1>1, <2>1, <2>2
<1> QED
  BY <1>1, <1>2, <1>3, <1>4, <1>5, <1>6 DEF FlowTyped

\* The work of the steps that go on stays with them, that of the others is orphaned.
LEMMA PlanMovesWork ==
  ASSUME FlowTyped, NEW plan \in Plans, NEW kept, NEW from, NEW reasons, NEW more,
         Continues(plan, kept, from), Retired(kept, reasons, more)
  PROVE  /\ \A j \in DOMAIN from : WorkOf(j)' = WorkOf(from[j]) /\ from[j] \in kept
         /\ \A j \in DOMAIN plan \ DOMAIN from : WorkOf(j)' = {}
         /\ {more[k].activity : k \in DOMAIN more} = UNION {WorkOf(i) : i \in DOMAIN currentSteps \ kept}
         /\ Orphans' = Orphans \union UNION {WorkOf(i) : i \in DOMAIN currentSteps \ kept}
<1> DEFINE gone == DOMAIN currentSteps \ kept
           moved == {more[k].activity : k \in DOMAIN more}
<1>1. \A j \in DOMAIN from : WorkOf(j)' = WorkOf(from[j]) /\ from[j] \in kept
  BY DEF Continues, WorkOf
<1>2. \A j \in DOMAIN plan \ DOMAIN from : WorkOf(j)' = {}
  <2>1. \A j \in DOMAIN plan \ DOMAIN from : currentSteps'[j].work = <<>>
    BY DEF Continues
  <2>2. ToSet(<<>>) = {}
    BY DEF ToSet
  <2> QED
    BY <2>1, <2>2 DEF WorkOf
<1>3. /\ planOrphans' = planOrphans \o more /\ more \in Seq(OrphanRecords) /\ planOrphans \in Seq(OrphanRecords)
      /\ \A o : o \in ToSet(more) <=>
           \E i \in gone : \E k \in DOMAIN currentSteps[i].work :
             o = Orphan(currentSteps[i].work[k], reasons[i], currentSteps[i].identity)
  BY DEF Retired, FlowTyped
<1>4. ASSUME NEW a PROVE a \in moved <=> \E i \in gone : a \in WorkOf(i)
  <2>1. ASSUME a \in moved PROVE \E i \in gone : a \in WorkOf(i)
    <3>1. PICK k \in DOMAIN more : a = more[k].activity
      BY <2>1
    <3>2. more[k] \in ToSet(more)
      BY DEF ToSet
    <3>3. PICK i \in gone : \E w \in DOMAIN currentSteps[i].work :
            more[k] = Orphan(currentSteps[i].work[w], reasons[i], currentSteps[i].identity)
      BY <1>3, <3>2
    <3>4. PICK w \in DOMAIN currentSteps[i].work :
            more[k] = Orphan(currentSteps[i].work[w], reasons[i], currentSteps[i].identity)
      BY <3>3
    <3>5. a = currentSteps[i].work[w]
      BY <3>1, <3>4 DEF Orphan
    <3> QED
      BY <3>5 DEF WorkOf, ToSet
  <2>2. ASSUME NEW i \in gone, a \in WorkOf(i) PROVE a \in moved
    <3>1. PICK k \in DOMAIN currentSteps[i].work : a = currentSteps[i].work[k]
      BY <2>2 DEF WorkOf, ToSet
    <3>2. Orphan(a, reasons[i], currentSteps[i].identity) \in ToSet(more)
      BY <1>3, <3>1
    <3>3. PICK l \in DOMAIN more : more[l] = Orphan(a, reasons[i], currentSteps[i].identity)
      BY <3>2 DEF ToSet
    <3> QED
      BY <3>3 DEF Orphan
  <2> QED
    BY <2>1, <2>2
<1>5. moved = UNION {WorkOf(i) : i \in gone}
  <2> HIDE DEF moved, gone
  <2> QED
    BY <1>4
<1>6. Orphans' = Orphans \union moved
  <2> DEFINE n == Len(planOrphans)
             m == Len(more)
  <2>1. /\ n \in Nat /\ m \in Nat /\ DOMAIN planOrphans = 1..n /\ DOMAIN more = 1..m /\ DOMAIN planOrphans' = 1..(n + m)
        /\ \A k \in 1..(n + m) : (k <= n => planOrphans'[k] = planOrphans[k]) /\ (k > n => planOrphans'[k] = more[k - n])
    BY <1>3, Joined
  <2> HIDE DEF n, m
  <2>2. ASSUME NEW a \in Orphans' PROVE a \in Orphans \union moved
    <3>1. PICK k \in 1..(n + m) : a = planOrphans'[k].activity
      BY <2>1 DEF Orphans
    <3>2. CASE k <= n
      <4>1. k \in DOMAIN planOrphans /\ planOrphans'[k] = planOrphans[k]
        BY <2>1, <3>2
      <4> QED
        BY <3>1, <4>1 DEF Orphans
    <3>3. CASE k > n
      <4>1. k - n \in DOMAIN more /\ planOrphans'[k] = more[k - n]
        BY <2>1, <3>3
      <4> QED
        BY <3>1, <4>1
    <3> QED
      BY <2>1, <3>2, <3>3
  <2>3. ASSUME NEW a \in Orphans PROVE a \in Orphans'
    <3>1. PICK k \in 1..n : a = planOrphans[k].activity
      BY <2>1, <2>3 DEF Orphans
    <3>2. k \in DOMAIN planOrphans' /\ planOrphans'[k] = planOrphans[k]
      BY <2>1
    <3> QED
      BY <3>1, <3>2 DEF Orphans
  <2>4. ASSUME NEW a \in moved PROVE a \in Orphans'
    <3>1. PICK k \in 1..m : a = more[k].activity
      BY <2>1, <2>4
    <3>2. n + k \in 1..(n + m) /\ n + k > n /\ (n + k) - n = k
      BY <2>1
    <3>3. n + k \in DOMAIN planOrphans' /\ planOrphans'[n + k] = more[k]
      BY <2>1, <3>2
    <3> QED
      BY <3>1, <3>3 DEF Orphans
  <2> HIDE DEF moved
  <2> QED
    BY <2>2, <2>3, <2>4
<1> HIDE DEF moved
<1>7. Orphans' = Orphans \union UNION {WorkOf(i) : i \in gone}
  BY <1>5, <1>6
<1> QED
  BY <1>1, <1>2, <1>5, <1>7 DEF moved

\* no work comes to stand under two steps,
LEMMA PlanKeepsWorkApart ==
  ASSUME FlowTyped, WorkApart, NEW plan \in Plans, NEW kept, NEW from, NEW reasons, NEW more,
         Continues(plan, kept, from), Retired(kept, reasons, more)
  PROVE  WorkApart'
<1> DEFINE gone == DOMAIN currentSteps \ kept
<1>1. /\ \A j \in DOMAIN from : WorkOf(j)' = WorkOf(from[j]) /\ from[j] \in kept
      /\ \A j \in DOMAIN plan \ DOMAIN from : WorkOf(j)' = {}
      /\ {more[k].activity : k \in DOMAIN more} = UNION {WorkOf(i) : i \in gone}
      /\ Orphans' = Orphans \union UNION {WorkOf(i) : i \in gone}
  BY PlanMovesWork
<1>2. /\ kept \subseteq DOMAIN currentSteps /\ DOMAIN currentSteps' = DOMAIN plan
      /\ \A j \in DOMAIN from : currentSteps'[j].work = currentSteps[from[j]].work
      /\ \A j, l \in DOMAIN from : from[j] = from[l] => j = l
      /\ \A j \in DOMAIN plan \ DOMAIN from : currentSteps'[j].work = <<>>
  BY DEF Continues
<1>3. /\ planOrphans' = planOrphans \o more /\ more \in Seq(OrphanRecords) /\ planOrphans \in Seq(OrphanRecords)
      /\ Once(more)
      /\ \A o : o \in ToSet(more) <=>
           \E i \in gone : \E k \in DOMAIN currentSteps[i].work :
             o = Orphan(currentSteps[i].work[k], reasons[i], currentSteps[i].identity)
  BY DEF Retired, FlowTyped
<1>4. /\ \A i \in DOMAIN currentSteps : Once(currentSteps[i].work) /\ WorkOf(i) \intersect Orphans = {}
      /\ \A i, j \in DOMAIN currentSteps : i # j => WorkOf(i) \intersect WorkOf(j) = {}
      /\ \A k, l \in DOMAIN planOrphans : planOrphans[k].activity = planOrphans[l].activity => k = l
  BY DEF WorkApart
<1>5. \A i \in kept : i \in DOMAIN currentSteps /\ i \notin gone
  BY <1>2
<1>6. \A j \in DOMAIN currentSteps' : Once(currentSteps'[j].work) /\ WorkOf(j)' \intersect Orphans' = {}
  <2> SUFFICES ASSUME NEW j \in DOMAIN plan
               PROVE  Once(currentSteps'[j].work) /\ WorkOf(j)' \intersect Orphans' = {}
    BY <1>2
  <2>1. CASE j \in DOMAIN from
    <3>1. /\ WorkOf(j)' = WorkOf(from[j]) /\ from[j] \in DOMAIN currentSteps /\ from[j] \notin gone
          /\ currentSteps'[j].work = currentSteps[from[j]].work
      BY <1>1, <1>2, <1>5, <2>1
    <3>2. \A i \in gone : WorkOf(from[j]) \intersect WorkOf(i) = {}
      BY <1>4, <3>1
    <3>3. Once(currentSteps[from[j]].work) /\ WorkOf(from[j]) \intersect Orphans = {}
      BY <1>4, <3>1
    <3> HIDE DEF gone
    <3>4. WorkOf(from[j]) \intersect (Orphans \union UNION {WorkOf(i) : i \in gone}) = {}
      BY <3>2, <3>3
    <3> QED
      BY <1>1, <3>1, <3>3, <3>4
  <2>2. CASE j \notin DOMAIN from
    BY <1>1, <1>2, <2>2 DEF Once
  <2> QED
    BY <2>1, <2>2
<1>7. \A j, l \in DOMAIN currentSteps' : j # l => WorkOf(j)' \intersect WorkOf(l)' = {}
  <2> SUFFICES ASSUME NEW j \in DOMAIN plan, NEW l \in DOMAIN plan, j # l
               PROVE  WorkOf(j)' \intersect WorkOf(l)' = {}
    BY <1>2
  <2>1. CASE j \in DOMAIN from /\ l \in DOMAIN from
    <3>1. from[j] # from[l] /\ from[j] \in DOMAIN currentSteps /\ from[l] \in DOMAIN currentSteps
      BY <1>1, <1>2, <2>1
    <3> QED
      BY <1>1, <1>4, <2>1, <3>1
  <2>2. CASE j \notin DOMAIN from \/ l \notin DOMAIN from
    BY <1>1, <2>2
  <2> QED
    BY <2>1, <2>2
<1>8. \A k, l \in DOMAIN planOrphans' : planOrphans'[k].activity = planOrphans'[l].activity => k = l
  <2> DEFINE n == Len(planOrphans)
             m == Len(more)
             fresh == {more[k].activity : k \in DOMAIN more}
  <2>1. /\ n \in Nat /\ m \in Nat /\ DOMAIN planOrphans = 1..n /\ DOMAIN more = 1..m /\ DOMAIN planOrphans' = 1..(n + m)
        /\ \A k \in 1..(n + m) : (k <= n => planOrphans'[k] = planOrphans[k]) /\ (k > n => planOrphans'[k] = more[k - n])
    BY <1>3, Joined
  <2>2. \A k, l \in DOMAIN more : more[k].activity = more[l].activity => k = l
    <3> SUFFICES ASSUME NEW k \in DOMAIN more, NEW l \in DOMAIN more, more[k].activity = more[l].activity
                 PROVE  k = l
      OBVIOUS
    <3>1. more[k] \in ToSet(more) /\ more[l] \in ToSet(more)
      BY DEF ToSet
    <3>2. PICK i \in gone : \E w \in DOMAIN currentSteps[i].work :
            more[k] = Orphan(currentSteps[i].work[w], reasons[i], currentSteps[i].identity)
      BY <1>3, <3>1
    <3>3. PICK j \in gone : \E w \in DOMAIN currentSteps[j].work :
            more[l] = Orphan(currentSteps[j].work[w], reasons[j], currentSteps[j].identity)
      BY <1>3, <3>1
    <3>4. PICK v \in DOMAIN currentSteps[i].work :
            more[k] = Orphan(currentSteps[i].work[v], reasons[i], currentSteps[i].identity)
      BY <3>2
    <3>5. PICK w \in DOMAIN currentSteps[j].work :
            more[l] = Orphan(currentSteps[j].work[w], reasons[j], currentSteps[j].identity)
      BY <3>3
    <3>6. currentSteps[i].work[v] = currentSteps[j].work[w]
      BY <3>4, <3>5 DEF Orphan
    <3>7. currentSteps[i].work[v] \in WorkOf(i) /\ currentSteps[j].work[w] \in WorkOf(j)
      BY DEF WorkOf, ToSet
    <3>8. i = j
      BY <1>4, <3>6, <3>7
    <3>9. more[k] = more[l]
      BY <3>4, <3>5, <3>6, <3>8
    <3> QED
      BY <1>3, <3>9 DEF Once
  <2>3. \A a \in Orphans : a \notin fresh
    <3>1. fresh = UNION {WorkOf(i) : i \in gone}
      BY <1>1
    <3> HIDE DEF fresh
    <3> QED
      BY <1>4, <3>1
  <2>4. \A k \in 1..n : planOrphans[k].activity \in Orphans
    BY <2>1 DEF Orphans
  <2>5. \A k \in 1..m : more[k].activity \in fresh
    BY <2>1
  <2> HIDE DEF n, m, fresh
  <2> SUFFICES ASSUME NEW k \in 1..(n + m), NEW l \in 1..(n + m), planOrphans'[k].activity = planOrphans'[l].activity
               PROVE  k = l
    BY <2>1
  <2>6. CASE k <= n /\ l <= n
    <3>1. k \in 1..n /\ l \in 1..n /\ planOrphans'[k] = planOrphans[k] /\ planOrphans'[l] = planOrphans[l]
      BY <2>1, <2>6
    <3> QED
      BY <1>4, <2>1, <3>1
  <2>7. CASE k > n /\ l > n
    <3>1. k - n \in 1..m /\ l - n \in 1..m /\ planOrphans'[k] = more[k - n] /\ planOrphans'[l] = more[l - n]
      BY <2>1, <2>7
    <3>2. k - n = l - n
      BY <2>1, <2>2, <3>1
    <3> QED
      BY <2>1, <3>2
  <2>8. CASE k <= n /\ l > n
    <3>1. k \in 1..n /\ l - n \in 1..m /\ planOrphans'[k] = planOrphans[k] /\ planOrphans'[l] = more[l - n]
      BY <2>1, <2>8
    <3> QED
      BY <2>3, <2>4, <2>5, <3>1
  <2>9. CASE k > n /\ l <= n
    <3>1. l \in 1..n /\ k - n \in 1..m /\ planOrphans'[l] = planOrphans[l] /\ planOrphans'[k] = more[k - n]
      BY <2>1, <2>9
    <3> QED
      BY <2>3, <2>4, <2>5, <3>1
  <2> QED
    BY <2>1, <2>6, <2>7, <2>8, <2>9
<1> QED
  BY <1>6, <1>7, <1>8 DEF WorkApart

\* none is lost,
LEMMA PlanKeepsWorkComplete ==
  ASSUME FlowTyped, WorkComplete, NEW plan \in Plans, PlanUpdated(plan), NEW kept, NEW from, NEW reasons, NEW more,
         Continues(plan, kept, from), Retired(kept, reasons, more)
  PROVE  WorkComplete'
<1> DEFINE gone == DOMAIN currentSteps \ kept
           all == UNION {WorkOf(i) : i \in DOMAIN currentSteps}
           nextAll == UNION {WorkOf(j)' : j \in DOMAIN currentSteps'}
<1>1. /\ \A j \in DOMAIN from : WorkOf(j)' = WorkOf(from[j]) /\ from[j] \in kept
      /\ \A j \in DOMAIN plan \ DOMAIN from : WorkOf(j)' = {}
      /\ Orphans' = Orphans \union UNION {WorkOf(i) : i \in gone}
  BY PlanMovesWork
<1>2. /\ kept \subseteq DOMAIN currentSteps /\ DOMAIN currentSteps' = DOMAIN plan /\ DOMAIN from \subseteq DOMAIN plan
      /\ \A i \in kept : \E j \in DOMAIN from : from[j] = i
  BY DEF Continues
<1>3. \A a : a \in nextAll <=> \E i \in kept : a \in WorkOf(i)
  <2> SUFFICES ASSUME NEW a PROVE a \in nextAll <=> \E i \in kept : a \in WorkOf(i)
    OBVIOUS
  <2>1. a \in nextAll <=> \E j \in DOMAIN currentSteps' : a \in WorkOf(j)'
    OBVIOUS
  <2> HIDE DEF nextAll
  <2>2. ASSUME NEW j \in DOMAIN currentSteps', a \in WorkOf(j)' PROVE \E i \in kept : a \in WorkOf(i)
    BY <1>1, <1>2, <2>2
  <2>3. ASSUME NEW i \in kept, a \in WorkOf(i) PROVE \E j \in DOMAIN currentSteps' : a \in WorkOf(j)'
    BY <1>1, <1>2, <2>3
  <2> QED
    BY <2>1, <2>2, <2>3
<1>4. \A a : a \in all <=> \E i \in DOMAIN currentSteps : a \in WorkOf(i)
  OBVIOUS
<1>5. \A a : a \in UNION {WorkOf(i) : i \in gone} <=> \E i \in gone : a \in WorkOf(i)
  OBVIOUS
<1>6. \A i : i \in DOMAIN currentSteps <=> i \in kept \/ i \in gone
  BY <1>2
<1>8. all \union Orphans = {a \in 1..worked : ClassOf(a) # "control"}
  BY DEF WorkComplete
<1>9. WorkComplete' <=> nextAll \union Orphans' = {a \in 1..worked' : ClassOf(a) # "control"}
  BY DEF WorkComplete
<1> HIDE DEF gone, all, nextAll
<1>7. nextAll \union Orphans' = all \union Orphans
  BY <1>1, <1>3, <1>4, <1>5, <1>6
<1>10. worked' = worked
  BY DEF PlanUpdated
<1> QED
  BY <1>7, <1>8, <1>9, <1>10

\* and no two steps share an identity.
LEMMA PlanKeepsIdentities ==
  ASSUME FlowTyped, IdentitiesApart, NEW plan \in Plans, PlanUpdated(plan), NEW kept, NEW from, NEW reasons, NEW more,
         Continues(plan, kept, from), Retired(kept, reasons, more)
  PROVE  IdentitiesApart'
<1> DEFINE gone == DOMAIN currentSteps \ kept
<1>1. /\ kept \subseteq DOMAIN currentSteps /\ DOMAIN currentSteps' = DOMAIN plan
      /\ \A j \in DOMAIN from : from[j] \in kept /\ currentSteps'[j].identity = currentSteps[from[j]].identity
      /\ \A j, l \in DOMAIN from : from[j] = from[l] => j = l
      /\ \A j \in DOMAIN plan \ DOMAIN from :
           currentSteps'[j].identity = [ordinal |-> planOrdinal + 1, position |-> j]
  BY DEF Continues
<1>2. retirements' = retirements \union {[identity |-> currentSteps[i].identity, reason |-> reasons[i]] : i \in gone}
  BY DEF Retired
<1>3. /\ \A i \in DOMAIN currentSteps : currentSteps[i].identity.ordinal <= planOrdinal
      /\ \A r \in retirements : r.identity.ordinal <= planOrdinal
      /\ \A i, j \in DOMAIN currentSteps : currentSteps[i].identity = currentSteps[j].identity => i = j
      /\ \A i \in DOMAIN currentSteps, r \in retirements : r.identity # currentSteps[i].identity
  BY DEF IdentitiesApart
<1>4. planOrdinal' = planOrdinal + 1 /\ planOrdinal \in Nat
  <2>1. planOrdinal \in 0..MaxRevisions
    BY DEF FlowTyped
  <2>2. planOrdinal' = planOrdinal + 1
    BY DEF PlanUpdated
  <2> QED
    BY <2>1, <2>2
<1>5. /\ \A i \in DOMAIN currentSteps : currentSteps[i].identity.ordinal \in Int
      /\ \A r \in retirements : r.identity.ordinal \in Int
  <2>1. currentSteps \in Seq(StepRecords) /\ retirements \subseteq [identity : StepIdentities, reason : Reasons]
    BY DEF FlowTyped
  <2>2. \A s \in StepRecords : s.identity.ordinal \in Int
    BY DEF StepRecords, StepIdentities
  <2>3. \A r \in [identity : StepIdentities, reason : Reasons] : r.identity.ordinal \in Int
    BY DEF StepIdentities
  <2> QED
    BY <2>1, <2>2, <2>3
\* What is retired afterwards was retired before or goes now.
<1>6. \A r \in retirements' : r \in retirements \/ \E i \in gone : r.identity = currentSteps[i].identity
  BY <1>2
<1>7. \A j \in DOMAIN plan : \/ j \in DOMAIN from /\ from[j] \in kept /\ from[j] \in DOMAIN currentSteps
                                /\ currentSteps'[j].identity = currentSteps[from[j]].identity
                             \/ j \notin DOMAIN from /\ currentSteps'[j].identity.ordinal = planOrdinal + 1
                                /\ currentSteps'[j].identity.position = j
  <2> SUFFICES ASSUME NEW j \in DOMAIN plan
               PROVE  \/ j \in DOMAIN from /\ from[j] \in kept /\ from[j] \in DOMAIN currentSteps
                         /\ currentSteps'[j].identity = currentSteps[from[j]].identity
                      \/ j \notin DOMAIN from /\ currentSteps'[j].identity.ordinal = planOrdinal + 1
                         /\ currentSteps'[j].identity.position = j
    OBVIOUS
  <2>1. CASE j \in DOMAIN from
    BY <1>1, <2>1
  <2>2. CASE j \notin DOMAIN from
    <3>1. currentSteps'[j].identity = [ordinal |-> planOrdinal + 1, position |-> j]
      BY <1>1, <2>2
    <3> QED
      BY <2>2, <3>1
  <2> QED
    BY <2>1, <2>2
<1>8. \A j \in DOMAIN plan : currentSteps'[j].identity.ordinal <= planOrdinal'
  BY <1>3, <1>4, <1>5, <1>7
<1>9. \A r \in retirements' : r.identity.ordinal <= planOrdinal
  BY <1>3, <1>6
<1>10. \A r \in retirements' : r.identity.ordinal <= planOrdinal' /\ r.identity.ordinal # planOrdinal + 1
  <2> SUFFICES ASSUME NEW r \in retirements'
               PROVE  r.identity.ordinal <= planOrdinal' /\ r.identity.ordinal # planOrdinal + 1
    OBVIOUS
  <2>1. r.identity.ordinal \in Int
    BY <1>5, <1>6
  <2> QED
    BY <1>4, <1>9, <2>1
<1>11. ASSUME NEW j \in DOMAIN plan, NEW l \in DOMAIN plan, currentSteps'[j].identity = currentSteps'[l].identity
       PROVE  j = l
  <2>1. CASE j \in DOMAIN from /\ l \in DOMAIN from
    BY <1>1, <1>3, <1>7, <1>11, <2>1
  <2>2. CASE j \notin DOMAIN from /\ l \notin DOMAIN from
    BY <1>7, <1>11, <2>2
  <2>3. CASE j \in DOMAIN from /\ l \notin DOMAIN from
    <3>1. currentSteps[from[j]].identity.ordinal = planOrdinal + 1 /\ from[j] \in DOMAIN currentSteps
      BY <1>7, <1>11, <2>3
    <3> QED
      BY <1>3, <1>4, <3>1
  <2>4. CASE j \notin DOMAIN from /\ l \in DOMAIN from
    <3>1. currentSteps[from[l]].identity.ordinal = planOrdinal + 1 /\ from[l] \in DOMAIN currentSteps
      BY <1>7, <1>11, <2>4
    <3> QED
      BY <1>3, <1>4, <3>1
  <2> QED
    BY <2>1, <2>2, <2>3, <2>4
<1>12. ASSUME NEW j \in DOMAIN plan, NEW r \in retirements', r.identity = currentSteps'[j].identity
       PROVE  FALSE
  <2>1. j \in DOMAIN from /\ from[j] \in DOMAIN currentSteps /\ from[j] \in kept
        /\ r.identity = currentSteps[from[j]].identity
    BY <1>7, <1>10, <1>12
  <2>2. r \notin retirements
    BY <1>3, <2>1
  <2>3. PICK i \in gone : r.identity = currentSteps[i].identity
    BY <1>6, <2>2
  <2>4. i = from[j]
    BY <1>3, <2>1, <2>3
  <2> QED
    BY <2>1, <2>4
<1> HIDE DEF gone
<1> QED
  BY <1>1, <1>8, <1>10, <1>11, <1>12 DEF IdentitiesApart

\* So a new plan keeps the invariant.
LEMMA PlanKeepsSteps ==
  ASSUME StepsInv, NEW plan \in Plans, PlanUpdated(plan)
  PROVE  StepsInv'
<1> DEFINE kept == {p[1] : p \in Matches(currentSteps, plan)}
<1>1. FlowTyped /\ WorkApart /\ WorkComplete /\ IdentitiesApart
  BY DEF StepsInv
<1>2. PICK from : Continues(plan, kept, from)
  BY <1>1, StepsContinue
<1>3. PICK reasons, more : Retired(kept, reasons, more)
  BY <1>1, StepsRetire
<1> HIDE DEF kept
<1>4. FlowTyped'
  BY <1>1, <1>2, <1>3, PlanKeepsTypes
<1>5. WorkApart'
  BY <1>1, <1>2, <1>3, PlanKeepsWorkApart
<1>6. WorkComplete'
  BY <1>1, <1>2, <1>3, PlanKeepsWorkComplete
<1>7. IdentitiesApart'
  BY <1>1, <1>2, <1>3, PlanKeepsIdentities
<1> QED
  BY <1>4, <1>5, <1>6, <1>7 DEF StepsInv

\* Work of no step is an orphan, and only that.
LEMMA WorkOrphaned ==
  ASSUME StepsInv, NEW reason \in Reasons, worked < Len(TurnDeeds),
         ClassOf(worked + 1) # "control", worked' = worked + 1,
         planOrphans' = Append(planOrphans, Orphan(worked + 1, reason, NoIdentity)),
         UNCHANGED <<currentSteps, planOrdinal, planInvalid, retirements, turnOver>>
  PROVE  StepsInv'
<1> DEFINE o == Orphan(worked + 1, reason, NoIdentity)
           n == Len(planOrphans)
           all == UNION {WorkOf(i) : i \in DOMAIN currentSteps}
<1>1. /\ currentSteps \in Seq(StepRecords) /\ planOrphans \in Seq(OrphanRecords) /\ planOrdinal \in 0..MaxRevisions
      /\ retirements \subseteq [identity : StepIdentities, reason : Reasons]
      /\ worked \in 0..Len(TurnDeeds) /\ planInvalid \in BOOLEAN /\ turnOver \in BOOLEAN
  BY DEF StepsInv, FlowTyped
<1>2. Len(TurnDeeds) \in Nat
  BY StepsAssumption
<1>3. o \in OrphanRecords /\ o.activity = worked + 1
  <2>1. NoIdentity \in StepIdentities
    BY StepsAssumption DEF NoIdentity, StepIdentities
  <2>2. worked + 1 \in Works
    BY <1>1, <1>2 DEF Works
  <2> QED
    BY <2>1, <2>2 DEF Orphan, OrphanRecords
<1>4. /\ n \in Nat /\ DOMAIN planOrphans = 1..n /\ DOMAIN planOrphans' = 1..(n + 1) /\ planOrphans' \in Seq(OrphanRecords)
      /\ planOrphans'[n + 1] = o /\ \A k \in 1..n : planOrphans'[k] = planOrphans[k]
  <2> HIDE DEF o
  <2>1. planOrphans' = Append(planOrphans, o)
    BY DEF o
  <2> QED
    BY <1>1, <1>3, <2>1
<1> HIDE DEF o, n
<1>5. FlowTyped'
  <2>1. worked' \in 0..Len(TurnDeeds)
    BY <1>1, <1>2
  <2> QED
    BY <1>1, <1>4, <2>1 DEF FlowTyped
<1>6. Orphans' = Orphans \union {worked + 1}
  <2>1. Orphans = {planOrphans[k].activity : k \in 1..n}
    BY <1>4 DEF Orphans
  <2>2. Orphans' = {planOrphans'[k].activity : k \in 1..(n + 1)}
    BY <1>4 DEF Orphans
  <2>3. 1..(n + 1) = 1..n \union {n + 1}
    BY <1>4
  <2>4. \A a \in Orphans' : a \in Orphans \union {worked + 1}
    BY <1>3, <1>4, <2>1, <2>2, <2>3
  <2>5. \A a \in Orphans : a \in Orphans'
    BY <1>4, <2>1, <2>2, <2>3
  <2>6. worked + 1 \in Orphans'
    BY <1>3, <1>4, <2>2
  <2> QED
    BY <2>4, <2>5, <2>6
<1>7. all \union Orphans = {a \in 1..worked : ClassOf(a) # "control"}
  BY DEF StepsInv, WorkComplete
<1>8. worked + 1 \notin all /\ worked + 1 \notin Orphans
  <2> HIDE DEF all
  <2> QED
    BY <1>1, <1>7
<1>9. \A i \in DOMAIN currentSteps : WorkOf(i)' = WorkOf(i) /\ worked + 1 \notin WorkOf(i)
  BY <1>8 DEF WorkOf
<1>10. WorkApart'
  <2>1. /\ \A i \in DOMAIN currentSteps : Once(currentSteps[i].work) /\ WorkOf(i) \intersect Orphans = {}
        /\ \A i, j \in DOMAIN currentSteps : i # j => WorkOf(i) \intersect WorkOf(j) = {}
        /\ \A k, l \in DOMAIN planOrphans : planOrphans[k].activity = planOrphans[l].activity => k = l
    BY DEF StepsInv, WorkApart
  <2>2. \A i \in DOMAIN currentSteps' : Once(currentSteps'[i].work) /\ WorkOf(i)' \intersect Orphans' = {}
    BY <1>6, <1>9, <2>1
  <2>3. \A i, j \in DOMAIN currentSteps' : i # j => WorkOf(i)' \intersect WorkOf(j)' = {}
    BY <1>9, <2>1
  <2>4. ASSUME NEW k \in DOMAIN planOrphans', NEW l \in DOMAIN planOrphans',
               planOrphans'[k].activity = planOrphans'[l].activity
        PROVE  k = l
    <3>1. \A p \in 1..n : planOrphans'[p].activity \in Orphans
      BY <1>4 DEF Orphans
    <3>2. \A p \in 1..n : planOrphans'[p].activity # worked + 1
      BY <1>8, <3>1
    <3>3. k \in 1..n /\ l \in 1..n => k = l
      BY <1>4, <2>1, <2>4
    <3>4. k = n + 1 <=> l = n + 1
      BY <1>3, <1>4, <2>4, <3>2
    <3> QED
      BY <1>4, <3>3, <3>4
  <2> QED
    BY <2>2, <2>3, <2>4 DEF WorkApart
<1>11. WorkComplete'
  <2>1. WorkComplete' <=> all \union Orphans' = {a \in 1..worked' : ClassOf(a) # "control"}
    BY DEF WorkComplete, WorkOf
  <2>2. 1..worked' = 1..worked \union {worked + 1}
    BY <1>1
  <2> HIDE DEF all
  <2>3. all \union Orphans' = {a \in 1..worked' : ClassOf(a) # "control"}
    BY <1>6, <1>7, <2>2
  <2> QED
    BY <2>1, <2>3
<1>12. IdentitiesApart'
  BY DEF StepsInv, IdentitiesApart
<1> QED
  BY <1>5, <1>10, <1>11, <1>12 DEF StepsInv

\* The step that runs is the only one to get the work.
LEMMA WorkTaken ==
  ASSUME StepsInv, worked < Len(TurnDeeds), ClassOf(worked + 1) # "control", worked' = worked + 1,
         Cardinality(RunningSteps) = 1,
         currentSteps' = [i \in DOMAIN currentSteps |->
                            IF i \in RunningSteps THEN [currentSteps[i] EXCEPT !.work = Append(@, worked + 1)]
                            ELSE currentSteps[i]],
         UNCHANGED <<planOrphans, planOrdinal, planInvalid, retirements, turnOver>>
  PROVE  StepsInv'
<1> DEFINE all == UNION {WorkOf(i) : i \in DOMAIN currentSteps}
           nextAll == UNION {WorkOf(i)' : i \in DOMAIN currentSteps'}
<1>1. /\ currentSteps \in Seq(StepRecords) /\ planOrphans \in Seq(OrphanRecords) /\ planOrdinal \in 0..MaxRevisions
      /\ retirements \subseteq [identity : StepIdentities, reason : Reasons]
      /\ worked \in 0..Len(TurnDeeds) /\ planInvalid \in BOOLEAN /\ turnOver \in BOOLEAN
  BY DEF StepsInv, FlowTyped
<1>2. Len(TurnDeeds) \in Nat
  BY StepsAssumption
<1>3. PICK r \in RunningSteps : \A i \in RunningSteps : i = r
  <2>1. RunningSteps \in SUBSET DOMAIN currentSteps
    BY DEF RunningSteps
  <2>2. IsFiniteSet(RunningSteps)
    BY <1>1, <2>1, SomePositions
  <2>3. RunningSteps # {}
    BY FS_EmptySet
  <2>4. PICK r : r \in RunningSteps
    BY <2>3
  <2>5. \A i \in RunningSteps : i = r
    BY <2>2, <2>4, OnlyOne
  <2> QED
    BY <2>4, <2>5
<1>4. /\ r \in DOMAIN currentSteps
      /\ \A i \in DOMAIN currentSteps : i # r => i \notin RunningSteps
  BY <1>3 DEF RunningSteps
<1>5. /\ DOMAIN currentSteps' = DOMAIN currentSteps
      /\ currentSteps'[r] = [currentSteps[r] EXCEPT !.work = Append(@, worked + 1)]
      /\ \A i \in DOMAIN currentSteps : i # r => currentSteps'[i] = currentSteps[i]
  <2> HIDE DEF all, nextAll
  <2> QED
    BY <1>4
<1>6. \A i \in DOMAIN currentSteps : currentSteps[i] \in StepRecords /\ currentSteps[i].work \in Seq(Works)
  <2>1. \A i \in DOMAIN currentSteps : currentSteps[i] \in StepRecords
    BY <1>1
  <2> QED
    BY <2>1 DEF StepRecords
<1>7. worked + 1 \in Works
  BY <1>1, <1>2 DEF Works
<1>8. all \union Orphans = {a \in 1..worked : ClassOf(a) # "control"}
  BY DEF StepsInv, WorkComplete
<1>9. \A i \in DOMAIN currentSteps : worked + 1 \notin WorkOf(i)
  <2>1. worked + 1 \notin all
    <3> HIDE DEF all
    <3> QED
      BY <1>1, <1>8
  <2> QED
    BY <2>1
<1>10. worked + 1 \notin Orphans
  <2> HIDE DEF all
  <2> QED
    BY <1>1, <1>8
<1>11. /\ \A i \in DOMAIN currentSteps : Once(currentSteps[i].work) /\ WorkOf(i) \intersect Orphans = {}
       /\ \A i, j \in DOMAIN currentSteps : i # j => WorkOf(i) \intersect WorkOf(j) = {}
       /\ \A k, l \in DOMAIN planOrphans : planOrphans[k].activity = planOrphans[l].activity => k = l
  BY DEF StepsInv, WorkApart
<1>12. /\ currentSteps'[r].work = Append(currentSteps[r].work, worked + 1)
       /\ currentSteps'[r].work \in Seq(Works)
       /\ WorkOf(r)' = WorkOf(r) \union {worked + 1} /\ Once(currentSteps'[r].work)
       /\ currentSteps'[r].identity = currentSteps[r].identity
       /\ currentSteps'[r] \in StepRecords
  <2> DEFINE w == currentSteps[r].work
             a == worked + 1
  <2>1. w \in Seq(Works) /\ a \in Works /\ Once(w) /\ a \notin ToSet(w) /\ currentSteps[r] \in StepRecords
    BY <1>4, <1>6, <1>7, <1>9, <1>11 DEF WorkOf
  <2>2. currentSteps'[r] = [currentSteps[r] EXCEPT !.work = Append(w, a)]
    BY <1>5
  <2> HIDE DEF w, a
  <2>3. Append(w, a) \in Seq(Works) /\ ToSet(Append(w, a)) = ToSet(w) \union {a} /\ Once(Append(w, a))
    BY <2>1, ToSetOfAppend
  <2>4. currentSteps'[r].work = Append(w, a) /\ currentSteps'[r].identity = currentSteps[r].identity
        /\ currentSteps'[r] \in StepRecords
    <3> DEFINE v == Append(w, a)
    <3>1. currentSteps'[r] = [currentSteps[r] EXCEPT !.work = v] /\ v \in Seq(Works) /\ currentSteps[r] \in StepRecords
      BY <2>1, <2>2, <2>3
    <3> HIDE DEF v
    <3>2. currentSteps'[r].work = v /\ currentSteps'[r].identity = currentSteps[r].identity
          /\ currentSteps'[r] \in StepRecords
      BY <3>1 DEF StepRecords
    <3> QED
      BY <3>2 DEF v
  <2>5. WorkOf(r)' = ToSet(currentSteps'[r].work) /\ WorkOf(r) = ToSet(w)
    BY DEF WorkOf, w
  <2> QED
    BY <2>3, <2>4, <2>5 DEF w, a
<1>13. \A i \in DOMAIN currentSteps : i # r => WorkOf(i)' = WorkOf(i)
  BY <1>5 DEF WorkOf
<1> HIDE DEF all, nextAll
<1>14. FlowTyped'
  <2>1. worked' \in 0..Len(TurnDeeds)
    BY <1>1, <1>2
  <2>2. currentSteps' \in Seq(StepRecords)
    <3>1. \A i \in DOMAIN currentSteps : currentSteps'[i] \in StepRecords
      BY <1>5, <1>6, <1>12
    <3>2. DOMAIN currentSteps = 1..Len(currentSteps) /\ Len(currentSteps) \in Nat
      BY <1>1
    <3> DEFINE g(i) == IF i \in RunningSteps THEN [currentSteps[i] EXCEPT !.work = Append(@, worked + 1)]
                       ELSE currentSteps[i]
               n == Len(currentSteps)
    <3>3. currentSteps' = [i \in 1..n |-> g(i)] /\ n \in Nat
      BY <3>2
    <3> HIDE DEF g, n
    <3>4. \A i \in 1..n : g(i) \in StepRecords
      <4>1. \A i \in 1..n : i \in DOMAIN currentSteps /\ currentSteps'[i] = g(i)
        BY <1>5, <3>3
      <4> QED
        BY <3>1, <4>1
    <3>5. [i \in 1..n |-> g(i)] \in Seq(StepRecords)
      BY <3>3, <3>4
    <3> QED
      BY <3>3, <3>5
  <2>3. /\ planOrphans' = planOrphans /\ planOrdinal' = planOrdinal /\ planInvalid' = planInvalid
        /\ retirements' = retirements /\ turnOver' = turnOver
    OBVIOUS
  <2> QED
    BY <1>1, <2>1, <2>2, <2>3 DEF FlowTyped
<1>15. Orphans' = Orphans
  BY DEF Orphans
<1>16. WorkApart'
  <2>1. \A i \in DOMAIN currentSteps : Once(currentSteps'[i].work) /\ WorkOf(i)' \intersect Orphans' = {}
    <3> SUFFICES ASSUME NEW i \in DOMAIN currentSteps
                 PROVE  Once(currentSteps'[i].work) /\ WorkOf(i)' \intersect Orphans' = {}
      OBVIOUS
    <3>1. CASE i = r
      BY <1>10, <1>11, <1>12, <1>15, <3>1
    <3>2. CASE i # r
      BY <1>5, <1>11, <1>13, <1>15, <3>2
    <3> QED
      BY <3>1, <3>2
  <2>2. \A i, j \in DOMAIN currentSteps : i # j => WorkOf(i)' \intersect WorkOf(j)' = {}
    <3> SUFFICES ASSUME NEW i \in DOMAIN currentSteps, NEW j \in DOMAIN currentSteps, i # j
                 PROVE  WorkOf(i)' \intersect WorkOf(j)' = {}
      OBVIOUS
    <3>1. WorkOf(i) \intersect WorkOf(j) = {} /\ worked + 1 \notin WorkOf(i) /\ worked + 1 \notin WorkOf(j)
      BY <1>9, <1>11
    <3>2. CASE i = r
      BY <1>12, <1>13, <3>1, <3>2
    <3>3. CASE j = r
      BY <1>12, <1>13, <3>1, <3>3
    <3>4. CASE i # r /\ j # r
      BY <1>13, <3>1, <3>4
    <3> QED
      BY <3>2, <3>3, <3>4
  <2>3. \A k, l \in DOMAIN planOrphans' : planOrphans'[k].activity = planOrphans'[l].activity => k = l
    BY <1>11
  <2> QED
    BY <1>5, <2>1, <2>2, <2>3 DEF WorkApart
<1>17. WorkComplete'
  <2>1. WorkComplete' <=> nextAll \union Orphans' = {a \in 1..worked' : ClassOf(a) # "control"}
    BY DEF WorkComplete, nextAll
  <2>2. \A a : a \in nextAll <=> \E i \in DOMAIN currentSteps : a \in WorkOf(i)'
    BY <1>5 DEF nextAll
  <2>3. \A a : a \in all <=> \E i \in DOMAIN currentSteps : a \in WorkOf(i)
    BY DEF all
  <2>4. nextAll = all \union {worked + 1}
    <3>1. \A a : a \in nextAll => a \in all \union {worked + 1}
      <4> SUFFICES ASSUME NEW a, NEW i \in DOMAIN currentSteps, a \in WorkOf(i)'
                   PROVE  a \in all \union {worked + 1}
        BY <2>2
      <4>1. a \in WorkOf(i) \/ a = worked + 1
        BY <1>12, <1>13
      <4> QED
        BY <2>3, <4>1
    <3>2. \A a \in all : a \in nextAll
      <4> SUFFICES ASSUME NEW a, NEW i \in DOMAIN currentSteps, a \in WorkOf(i)
                   PROVE  a \in nextAll
        BY <2>3
      <4>1. a \in WorkOf(i)'
        BY <1>12, <1>13
      <4> QED
        BY <2>2, <4>1
    <3>3. worked + 1 \in nextAll
      BY <1>4, <1>12, <2>2
    <3> QED
      BY <3>1, <3>2, <3>3
  <2>5. 1..worked' = 1..worked \union {worked + 1}
    BY <1>1
  <2>6. nextAll \union Orphans' = {a \in 1..worked' : ClassOf(a) # "control"}
    BY <1>8, <1>15, <2>4, <2>5
  <2> QED
    BY <2>1, <2>6
<1>18. IdentitiesApart'
  <2>1. \A i \in DOMAIN currentSteps : currentSteps'[i].identity = currentSteps[i].identity
    BY <1>5, <1>12
  <2>2. /\ \A i \in DOMAIN currentSteps : currentSteps[i].identity.ordinal <= planOrdinal
        /\ \A q \in retirements : q.identity.ordinal <= planOrdinal
        /\ \A i, j \in DOMAIN currentSteps : currentSteps[i].identity = currentSteps[j].identity => i = j
        /\ \A i \in DOMAIN currentSteps, q \in retirements : q.identity # currentSteps[i].identity
    BY DEF StepsInv, IdentitiesApart
  <2>3. planOrdinal' = planOrdinal /\ retirements' = retirements
    OBVIOUS
  <2>4. /\ \A i \in DOMAIN currentSteps' : currentSteps'[i].identity.ordinal <= planOrdinal'
        /\ \A q \in retirements' : q.identity.ordinal <= planOrdinal'
        /\ \A i, j \in DOMAIN currentSteps' : currentSteps'[i].identity = currentSteps'[j].identity => i = j
        /\ \A i \in DOMAIN currentSteps', q \in retirements' : q.identity # currentSteps'[i].identity
    BY <1>5, <2>1, <2>2, <2>3
  <2> QED
    BY <2>4 DEF IdentitiesApart
<1> QED
  BY <1>14, <1>16, <1>17, <1>18 DEF StepsInv

\* Work becomes an orphan, or work of the one step that runs.
LEMMA WorkIsPlaced ==
  ASSUME StepsInv, NEW own \in BOOLEAN, WorkDone(own)
  PROVE  /\ worked < Len(TurnDeeds) /\ ClassOf(worked + 1) # "control" /\ worked' = worked + 1
         /\ UNCHANGED <<planOrdinal, planInvalid, retirements, turnOver>>
         /\ \/ /\ \E reason \in Reasons : planOrphans' = Append(planOrphans, Orphan(worked + 1, reason, NoIdentity))
               /\ currentSteps' = currentSteps
            \/ /\ Cardinality(RunningSteps) = 1 /\ planOrphans' = planOrphans
               /\ currentSteps' = [i \in DOMAIN currentSteps |->
                                     IF i \in RunningSteps THEN [currentSteps[i] EXCEPT !.work = Append(@, worked + 1)]
                                     ELSE currentSteps[i]]
<1> DEFINE a == worked + 1
           orphaned(reason) == planOrphans' = Append(planOrphans, Orphan(a, reason, NoIdentity))
<1>1. /\ worked < Len(TurnDeeds) /\ ClassOf(a) # "control" /\ worked' = a
      /\ UNCHANGED <<planOrdinal, planInvalid, retirements, turnOver>>
  BY DEF WorkDone
<1>2. \/ \E reason \in Reasons : orphaned(reason) /\ currentSteps' = currentSteps
      \/ /\ Cardinality(RunningSteps) = 1 /\ planOrphans' = planOrphans
         /\ currentSteps' = [i \in DOMAIN currentSteps |->
                               IF i \in RunningSteps THEN [currentSteps[i] EXCEPT !.work = Append(@, a)]
                               ELSE currentSteps[i]]
  <2>1. {"source_mismatch", "invalid_revision", "pre_plan", "no_unambiguous_running_item"} \subseteq Reasons
    BY DEF Reasons
  <2>2. planOrdinal \in 0..MaxRevisions /\ planInvalid \in BOOLEAN
    BY DEF StepsInv, FlowTyped
  <2>3. planOrdinal = 0 \/ planOrdinal > 0
    BY <2>2, StepsAssumption
  <2>4. CASE ~own
    BY <2>1, <2>4 DEF WorkDone
  <2>5. CASE own /\ planInvalid
    BY <2>1, <2>5 DEF WorkDone
  <2>6. CASE own /\ ~planInvalid /\ planOrdinal = 0
    BY <2>1, <2>6 DEF WorkDone
  <2>7. CASE own /\ ~planInvalid /\ planOrdinal > 0 /\ Cardinality(RunningSteps) # 1
    BY <2>1, <2>2, <2>7 DEF WorkDone
  <2>8. CASE own /\ ~planInvalid /\ planOrdinal > 0 /\ Cardinality(RunningSteps) = 1
    BY <2>2, <2>8 DEF WorkDone
  <2> QED
    BY <2>3, <2>4, <2>5, <2>6, <2>7, <2>8
<1> QED
  BY <1>1, <1>2

\* Work under the step that runs, or beside it, keeps the invariant.
LEMMA WorkKeepsSteps ==
  ASSUME StepsInv, NEW own \in BOOLEAN, WorkDone(own)
  PROVE  StepsInv'
<1>1. CASE /\ \E reason \in Reasons : planOrphans' = Append(planOrphans, Orphan(worked + 1, reason, NoIdentity))
           /\ currentSteps' = currentSteps
  BY <1>1, WorkIsPlaced, WorkOrphaned
<1>2. CASE ~(/\ \E reason \in Reasons : planOrphans' = Append(planOrphans, Orphan(worked + 1, reason, NoIdentity))
             /\ currentSteps' = currentSteps)
  BY <1>2, WorkIsPlaced, WorkTaken
<1> QED
  BY <1>1, <1>2

\* So do control calls, plans that are refused and the end of the turn.
LEMMA RestKeepsSteps ==
  ASSUME StepsInv, ControlSeen \/ PlanRejected \/ TurnOver \/ JournalBroken \/ UNCHANGED stepVars
  PROVE  StepsInv'
<1>1. /\ currentSteps' = currentSteps /\ planOrdinal' = planOrdinal /\ retirements' = retirements
      /\ planOrphans' = planOrphans /\ planInvalid' \in BOOLEAN /\ turnOver' \in BOOLEAN
      /\ \/ worked' = worked
         \/ worked < Len(TurnDeeds) /\ ClassOf(worked + 1) = "control" /\ worked' = worked + 1
  <2>1. planInvalid \in BOOLEAN /\ turnOver \in BOOLEAN
    BY DEF StepsInv, FlowTyped
  <2>2. CASE ControlSeen
    BY <2>1, <2>2 DEF ControlSeen
  <2>3. CASE PlanRejected
    <3>1. /\ currentSteps' = currentSteps /\ planOrdinal' = planOrdinal /\ retirements' = retirements
          /\ planOrphans' = planOrphans /\ planInvalid' = TRUE /\ turnOver' = turnOver /\ worked' = worked
      BY <2>3 DEF PlanRejected
    <3> QED
      BY <2>1, <3>1
  <2>4. CASE TurnOver
    <3>1. /\ currentSteps' = currentSteps /\ planOrdinal' = planOrdinal /\ retirements' = retirements
          /\ planOrphans' = planOrphans /\ planInvalid' = planInvalid /\ turnOver' = TRUE /\ worked' = worked
      BY <2>4 DEF TurnOver
    <3> QED
      BY <2>1, <3>1
  <2>5. CASE JournalBroken
    <3>1. /\ currentSteps' = currentSteps /\ planOrdinal' = planOrdinal /\ retirements' = retirements
          /\ planOrphans' = planOrphans /\ planInvalid' = planInvalid /\ turnOver' = TRUE /\ worked' = worked
      BY <2>5 DEF JournalBroken
    <3> QED
      BY <2>1, <3>1
  <2>6. CASE UNCHANGED stepVars
    <3>1. /\ currentSteps' = currentSteps /\ planOrdinal' = planOrdinal /\ retirements' = retirements
          /\ planOrphans' = planOrphans /\ planInvalid' = planInvalid /\ turnOver' = turnOver /\ worked' = worked
      BY <2>6 DEF stepVars
    <3> QED
      BY <2>1, <3>1
  <2> QED
    BY <2>2, <2>3, <2>4, <2>5, <2>6
<1>2. worked \in 0..Len(TurnDeeds) /\ Len(TurnDeeds) \in Nat
  BY StepsAssumption DEF StepsInv, FlowTyped
<1>3. FlowTyped'
  <2>1. worked' \in 0..Len(TurnDeeds)
    BY <1>1, <1>2
  <2> QED
    BY <1>1, <2>1 DEF StepsInv, FlowTyped
<1>4. WorkApart'
  <2>1. \A i \in DOMAIN currentSteps : WorkOf(i)' = WorkOf(i)
    BY <1>1 DEF WorkOf
  <2>2. Orphans' = Orphans
    BY <1>1 DEF Orphans
  <2>3. WorkApart
    BY DEF StepsInv
  <2> QED
    BY <1>1, <2>1, <2>2, <2>3 DEF WorkApart
<1>5. WorkComplete'
  <2> DEFINE all == (UNION {WorkOf(i) : i \in DOMAIN currentSteps}) \union Orphans
  <2>1. all = {a \in 1..worked : ClassOf(a) # "control"}
    BY DEF StepsInv, WorkComplete
  <2>2. WorkComplete' <=> all = {a \in 1..worked' : ClassOf(a) # "control"}
    BY <1>1 DEF WorkComplete, WorkOf, Orphans
  <2> HIDE DEF all
  <2>3. CASE worked' = worked
    BY <2>1, <2>2, <2>3
  <2>4. CASE ClassOf(worked + 1) = "control" /\ worked' = worked + 1
    <3>1. 1..worked' = 1..worked \union {worked + 1}
      BY <1>2, <2>4
    <3> QED
      BY <2>1, <2>2, <2>4, <3>1
  <2> QED
    BY <1>1, <2>3, <2>4
<1>6. IdentitiesApart'
  BY <1>1 DEF StepsInv, IdentitiesApart
<1> QED
  BY <1>3, <1>4, <1>5, <1>6 DEF StepsInv

\* The invariant holds of every behaviour.
LEMMA StepsInvHolds == StepsSpec => []StepsInv
<1>1. StepsInit => StepsInv
  <2> SUFFICES ASSUME StepsInit PROVE StepsInv
    OBVIOUS
  <2>1. currentSteps = <<>> /\ planOrphans = <<>> /\ retirements = {} /\ planOrdinal = 0 /\ worked = 0
        /\ planInvalid = FALSE /\ turnOver = FALSE
    BY DEF StepsInit
  <2>2. DOMAIN currentSteps = {} /\ DOMAIN planOrphans = {}
    BY <2>1
  <2>3. FlowTyped
    <3>1. currentSteps \in Seq(StepRecords) /\ planOrphans \in Seq(OrphanRecords)
      BY <2>1
    <3>2. planOrdinal \in 0..MaxRevisions /\ worked \in 0..Len(TurnDeeds)
      <4>1. Len(TurnDeeds) \in Nat
        BY StepsAssumption
      <4> QED
        BY <2>1, <4>1, StepsAssumption
    <3> QED
      BY <2>1, <3>1, <3>2 DEF FlowTyped
  <2>4. WorkApart
    BY <2>2 DEF WorkApart
  <2>5. WorkComplete
    <3>1. Orphans = {} /\ UNION {WorkOf(i) : i \in DOMAIN currentSteps} = {}
      BY <2>2 DEF Orphans
    <3>2. 1..worked = {}
      BY <2>1
    <3> QED
      BY <3>1, <3>2 DEF WorkComplete
  <2>6. IdentitiesApart
    BY <2>1, <2>2 DEF IdentitiesApart
  <2> QED
    BY <2>3, <2>4, <2>5, <2>6 DEF StepsInv
<1>2. StepsInv /\ [StepsNext]_stepVars => StepsInv'
  <2> SUFFICES ASSUME StepsInv, [StepsNext]_stepVars PROVE StepsInv'
    OBVIOUS
  <2>1. ASSUME NEW plan \in Plans, PlanUpdated(plan) PROVE StepsInv'
    BY <2>1, PlanKeepsSteps
  <2>2. ASSUME NEW own \in BOOLEAN, WorkDone(own) PROVE StepsInv'
    BY <2>2, WorkKeepsSteps
  <2>3. CASE ControlSeen \/ PlanRejected \/ TurnOver \/ JournalBroken \/ UNCHANGED stepVars
    BY <2>3, RestKeepsSteps
  <2> QED
    BY <2>1, <2>2, <2>3 DEF StepsNext
<1> QED
  BY <1>1, <1>2, PTL DEF StepsSpec

\* With another plan, a step goes on only as an entry that is its own, and takes only its own work.
LEMMA PlanLeavesWork ==
  ASSUME StepsInv, NEW plan \in Plans, PlanUpdated(plan)
  PROVE  WorkStays
<1>1. PICK kept, from : Continues(plan, kept, from)
  BY StepsContinue DEF StepsInv
<1>2. planOrdinal \in 0..MaxRevisions /\ MaxRevisions \in Nat
  BY StepsAssumption DEF StepsInv, FlowTyped
<1>3. DOMAIN currentSteps' = DOMAIN plan
  BY <1>1 DEF Continues
<1> SUFFICES ASSUME NEW i \in DOMAIN currentSteps, NEW j \in DOMAIN plan
             PROVE  IF currentSteps[i].identity = currentSteps'[j].identity
                    THEN /\ ToSet(currentSteps[i].work) \subseteq ToSet(currentSteps'[j].work)
                         /\ SameEntry(currentSteps, currentSteps', i, j)
                    ELSE ToSet(currentSteps[i].work) \intersect ToSet(currentSteps'[j].work) = {}
  BY <1>3 DEF WorkStays
<1>4. CASE j \in DOMAIN from
  <2>1. /\ from[j] \in DOMAIN currentSteps
        /\ currentSteps'[j].identity = currentSteps[from[j]].identity /\ currentSteps'[j].work = currentSteps[from[j]].work
        /\ SameEntry(currentSteps, plan, from[j], j)
        /\ \A l \in DOMAIN plan : currentSteps'[l].token = plan[l].token
    BY <1>1, <1>4 DEF Continues
  <2>2. CASE from[j] = i
    <3>1. \A t : Blocked(currentSteps, currentSteps', t) <=> Blocked(currentSteps, plan, t)
      BY <1>3, <2>1 DEF Blocked, ToSet
    <3>2. (Alone(plan, j) => Alone(currentSteps', j))
          /\ (AllStay(currentSteps, plan, i, j) => AllStay(currentSteps, currentSteps', i, j))
          /\ (AllStay(plan, currentSteps, j, i) => AllStay(currentSteps', currentSteps, j, i))
      BY <1>3, <2>1 DEF Alone, AllStay
    <3>3. SameEntry(currentSteps, currentSteps', i, j)
      BY <2>1, <2>2, <3>1, <3>2 DEF SameEntry
    <3> QED
      BY <2>1, <2>2, <3>3
  <2>3. CASE from[j] # i
    BY <2>1, <2>3 DEF StepsInv, IdentitiesApart, WorkApart, WorkOf
  <2> QED
    BY <2>2, <2>3
<1>5. CASE j \notin DOMAIN from
  <2>1. currentSteps'[j].identity.ordinal = planOrdinal + 1 /\ currentSteps'[j].work = <<>>
    <3>1. j \in DOMAIN plan \ DOMAIN from
      BY <1>5
    <3>2. currentSteps'[j].identity = [ordinal |-> planOrdinal + 1, position |-> j] /\ currentSteps'[j].work = <<>>
      BY <1>1, <3>1 DEF Continues
    <3> QED
      BY <3>2
  <2>2. currentSteps[i].identity.ordinal <= planOrdinal /\ currentSteps[i] \in StepRecords
    BY DEF StepsInv, IdentitiesApart, FlowTyped
  <2>3. currentSteps[i].identity # currentSteps'[j].identity
    BY <1>2, <2>1, <2>2 DEF StepRecords, StepIdentities
  <2>4. ToSet(currentSteps'[j].work) = {}
    BY <2>1 DEF ToSet
  <2> DEFINE before == ToSet(currentSteps[i].work)
             after == ToSet(currentSteps'[j].work)
  <2>5. before \intersect after = {}
    BY <2>4
  <2> HIDE DEF before, after
  <2>6. IF currentSteps[i].identity = currentSteps'[j].identity
        THEN before \subseteq after /\ SameEntry(currentSteps, currentSteps', i, j)
        ELSE before \intersect after = {}
    BY <2>3, <2>5
  <2> QED
    BY <2>6 DEF before, after
<1> QED
  BY <1>4, <1>5

\* A step that gets no other work than the next of all keeps what it has, and so do the others.
LEMMA AddedWorkStays ==
  ASSUME StepsInv, DOMAIN currentSteps' = DOMAIN currentSteps, planOrdinal' = planOrdinal,
         \A i \in DOMAIN currentSteps :
           /\ currentSteps'[i].identity = currentSteps[i].identity
           /\ WorkOf(i) \subseteq ToSet(currentSteps'[i].work)
           /\ ToSet(currentSteps'[i].work) \subseteq WorkOf(i) \union {worked + 1}
  PROVE  WorkStays
<1>1. \A i \in DOMAIN currentSteps : worked + 1 \notin WorkOf(i)
  <2> DEFINE all == UNION {WorkOf(i) : i \in DOMAIN currentSteps}
  <2>1. all \union Orphans = {a \in 1..worked : ClassOf(a) # "control"} /\ worked \in 0..Len(TurnDeeds)
    BY DEF StepsInv, WorkComplete, FlowTyped
  <2>2. \A i \in DOMAIN currentSteps : WorkOf(i) \subseteq all
    OBVIOUS
  <2>3. Len(TurnDeeds) \in Nat
    BY StepsAssumption
  <2> HIDE DEF all
  <2>4. worked + 1 \notin all
    BY <2>1, <2>3
  <2> QED
    BY <2>2, <2>4
<1> SUFFICES ASSUME NEW i \in DOMAIN currentSteps, NEW j \in DOMAIN currentSteps
             PROVE  IF currentSteps[i].identity = currentSteps'[j].identity
                    THEN ToSet(currentSteps[i].work) \subseteq ToSet(currentSteps'[j].work)
                    ELSE ToSet(currentSteps[i].work) \intersect ToSet(currentSteps'[j].work) = {}
  BY DEF WorkStays
<1>2. currentSteps[i].identity = currentSteps[j].identity => i = j
  BY DEF StepsInv, IdentitiesApart
<1>3. i # j => WorkOf(i) \intersect WorkOf(j) = {}
  BY DEF StepsInv, WorkApart
<1> QED
  BY <1>1, <1>2, <1>3 DEF WorkOf

\* Work that is done stays where it is, and leaves the work of before where it was.
LEMMA WorkLeavesWork ==
  ASSUME StepsInv, NEW own \in BOOLEAN, WorkDone(own)
  PROVE  WorkStays
<1>1. \A i \in DOMAIN currentSteps : currentSteps[i] \in StepRecords
  BY DEF StepsInv, FlowTyped
<1>2. worked + 1 \in Works
  <2>1. worked < Len(TurnDeeds)
    BY WorkIsPlaced
  <2> QED
    BY <2>1, StepsAssumption DEF StepsInv, FlowTyped, Works
<1>3. ASSUME NEW i \in DOMAIN currentSteps,
             currentSteps'[i] = [currentSteps[i] EXCEPT !.work = Append(@, worked + 1)]
      PROVE  /\ currentSteps'[i].identity = currentSteps[i].identity
             /\ ToSet(currentSteps'[i].work) = WorkOf(i) \union {worked + 1}
  <2>1. currentSteps[i] \in StepRecords /\ currentSteps[i].work \in Seq(Works)
    BY <1>1 DEF StepRecords
  <2>2. /\ currentSteps'[i].work = Append(currentSteps[i].work, worked + 1)
        /\ currentSteps'[i].identity = currentSteps[i].identity
    BY <1>3, <2>1 DEF StepRecords
  <2>3. ToSet(Append(currentSteps[i].work, worked + 1)) = ToSet(currentSteps[i].work) \union {worked + 1}
    BY <1>2, <2>1, ToSetOfAppend
  <2> QED
    BY <2>2, <2>3 DEF WorkOf
<1>4. \A i \in DOMAIN currentSteps :
        \/ currentSteps'[i] = currentSteps[i]
        \/ currentSteps'[i] = [currentSteps[i] EXCEPT !.work = Append(@, worked + 1)]
  BY WorkIsPlaced
<1>5. DOMAIN currentSteps' = DOMAIN currentSteps /\ planOrdinal' = planOrdinal
  BY WorkIsPlaced
<1>6. \A i \in DOMAIN currentSteps :
        /\ currentSteps'[i].identity = currentSteps[i].identity
        /\ WorkOf(i) \subseteq ToSet(currentSteps'[i].work)
        /\ ToSet(currentSteps'[i].work) \subseteq WorkOf(i) \union {worked + 1}
  BY <1>3, <1>4 DEF WorkOf
<1> QED
  BY <1>5, <1>6, AddedWorkStays

\* Every step of the fold leaves the work where it is.
LEMMA StepsLeaveWork == ASSUME StepsInv, [StepsNext]_stepVars PROVE [WorkStays]_stepVars
<1>1. ASSUME NEW plan \in Plans, PlanUpdated(plan) PROVE WorkStays
  BY <1>1, PlanLeavesWork
<1>2. ASSUME NEW own \in BOOLEAN, WorkDone(own) PROVE WorkStays
  BY <1>2, WorkLeavesWork
<1>3. CASE ControlSeen \/ PlanRejected \/ TurnOver \/ JournalBroken
  <2>1. currentSteps' = currentSteps /\ planOrdinal' = planOrdinal
    BY <1>3 DEF ControlSeen, PlanRejected, TurnOver, JournalBroken
  <2> QED
    BY <2>1, AddedWorkStays DEF WorkOf
<1> QED
  BY <1>1, <1>2, <1>3 DEF StepsNext

\* A deed is of one class.
LEMMA ClassesApart ==
  ASSUME NEW a \in DOMAIN TurnDeeds
  PROVE  ClassOf(a) \in {"action", "observation", "control"}
BY DEF ClassOf, WorkClass

\* What is shown of a step is its work, each piece once.
LEMMA ShownIsTheWork ==
  ASSUME StepsInv, NEW i \in DOMAIN currentSteps
  PROVE  LET told == ShownOf(currentSteps[i]).actions \o ShownOf(currentSteps[i]).observations
         IN  told \in Seq(Works) /\ Once(told) /\ ToSet(told) = WorkOf(i)
<1> DEFINE w == currentSteps[i].work
           A == {a \in DOMAIN TurnDeeds : ClassOf(a) = "action"}
           O == {a \in DOMAIN TurnDeeds : ClassOf(a) = "observation"}
           actions == Selected(w, A)
           observations == Selected(w, O)
<1>1. w \in Seq(Works) /\ Once(w)
  <2>1. currentSteps[i] \in StepRecords
    BY DEF StepsInv, FlowTyped
  <2>2. Once(w)
    BY DEF StepsInv, WorkApart
  <2> QED
    BY <2>1, <2>2 DEF StepRecords
<1>2. \A a \in ToSet(w) : a \in DOMAIN TurnDeeds /\ ClassOf(a) # "control"
  <2>1. (UNION {WorkOf(j) : j \in DOMAIN currentSteps}) \union Orphans = {a \in 1..worked : ClassOf(a) # "control"}
    BY DEF StepsInv, WorkComplete
  <2>2. \A a \in ToSet(w) : a \in UNION {WorkOf(j) : j \in DOMAIN currentSteps}
    BY DEF WorkOf
  <2>3. worked \in 0..Len(TurnDeeds) /\ DOMAIN TurnDeeds = 1..Len(TurnDeeds) /\ Len(TurnDeeds) \in Nat
    BY StepsAssumption DEF StepsInv, FlowTyped
  <2>4. \A a \in 1..worked : a \in DOMAIN TurnDeeds
    BY <2>3
  <2> QED
    BY <2>1, <2>2, <2>4
<1>3. ShownOf(currentSteps[i]).actions = actions /\ ShownOf(currentSteps[i]).observations = observations
  BY DEF ShownOf, OfClass
<1>4. A \intersect O = {} /\ ToSet(w) \subseteq A \union O
  BY <1>2, ClassesApart
<1> HIDE DEF w, A, O
<1>5. /\ actions \in Seq(Works) /\ ToSet(actions) = ToSet(w) \intersect A /\ Once(actions)
      /\ observations \in Seq(Works) /\ ToSet(observations) = ToSet(w) \intersect O /\ Once(observations)
  BY <1>1, SelectedOnce
<1> HIDE DEF actions, observations
<1>6. /\ actions \o observations \in Seq(Works) /\ ToSet(actions \o observations) = ToSet(w)
      /\ Once(actions \o observations)
  <2>1. ToSet(actions) \intersect ToSet(observations) = {} /\ ToSet(actions) \union ToSet(observations) = ToSet(w)
    BY <1>4, <1>5
  <2>2. /\ actions \o observations \in Seq(Works) /\ Once(actions \o observations)
        /\ ToSet(actions \o observations) = ToSet(actions) \union ToSet(observations)
    BY <1>5, <2>1, ToSetOfConcat
  <2> QED
    BY <2>1, <2>2
<1> QED
  BY <1>3, <1>6 DEF WorkOf, w

\* Whatever plans replace each other, each piece of work of the turn is told once: as work of one
\* step or as an orphan; and it stays under the step it was done for, which goes on only as an entry
\* that is its own beyond doubt (WorkToldOnce): reconcile and the isolated edit.
THEOREM WorkIsToldOnce == StepsSpec => WorkToldOnce
<1>1. StepsInv => ToldOnce
  <2> SUFFICES ASSUME StepsInv PROVE ToldOnce
    OBVIOUS
  <2> DEFINE ofStep(i) == ShownOf(currentSteps[i]).actions \o ShownOf(currentSteps[i]).observations
             parts == [i \in DOMAIN currentSteps |-> ofStep(i)]
             steps == FlattenSeq(parts)
             orphans == [k \in DOMAIN planOrphans |-> planOrphans[k].activity]
  <2>1. \A i \in DOMAIN currentSteps : ofStep(i) \in Seq(Works) /\ Once(ofStep(i)) /\ ToSet(ofStep(i)) = WorkOf(i)
    BY ShownIsTheWork
  <2>2. /\ currentSteps \in Seq(StepRecords) /\ planOrphans \in Seq(OrphanRecords)
        /\ (UNION {WorkOf(i) : i \in DOMAIN currentSteps}) \union Orphans = {a \in 1..worked : ClassOf(a) # "control"}
        /\ \A i \in DOMAIN currentSteps : WorkOf(i) \intersect Orphans = {}
        /\ \A i, j \in DOMAIN currentSteps : i # j => WorkOf(i) \intersect WorkOf(j) = {}
        /\ \A k, l \in DOMAIN planOrphans : planOrphans[k].activity = planOrphans[l].activity => k = l
        /\ \A i, j \in DOMAIN currentSteps :
             /\ currentSteps[i].identity = currentSteps[j].identity => i = j
             /\ \A r \in retirements : r.identity # currentSteps[i].identity
    BY DEF StepsInv, FlowTyped, WorkComplete, WorkApart, IdentitiesApart
  <2>3. ToldOnce <=>
          /\ IsInjective(steps \o orphans)
          /\ ToSet(steps \o orphans) = {a \in 1..worked : ClassOf(a) # "control"}
          /\ \A i, j \in DOMAIN currentSteps :
               /\ currentSteps[i].identity = currentSteps[j].identity => i = j
               /\ \A r \in retirements : r.identity # currentSteps[i].identity
    BY DEF ToldOnce
  <2> HIDE DEF ofStep
  <2>4. parts \in Seq(Seq(Works)) /\ DOMAIN parts = DOMAIN currentSteps
        /\ \A i \in DOMAIN currentSteps : parts[i] = ofStep(i)
    <3> DEFINE n == Len(currentSteps)
    <3>1. DOMAIN currentSteps = 1..n /\ n \in Nat
      BY <2>2
    <3> HIDE DEF n
    <3>2. [i \in 1..n |-> ofStep(i)] \in Seq(Seq(Works))
      BY <2>1, <3>1
    <3> QED
      BY <3>1, <3>2
  <2>5. orphans \in Seq(Works) /\ Once(orphans) /\ ToSet(orphans) = Orphans
    <3> DEFINE n == Len(planOrphans)
               act(k) == planOrphans[k].activity
    <3>1. DOMAIN planOrphans = 1..n /\ n \in Nat /\ \A k \in 1..n : act(k) \in Works
      <4>1. \A k \in DOMAIN planOrphans : planOrphans[k] \in OrphanRecords
        BY <2>2
      <4> QED
        BY <2>2, <4>1 DEF OrphanRecords
    <3>2. Once(orphans) /\ ToSet(orphans) = Orphans
      BY <2>2 DEF Once, ToSet, Orphans
    <3> HIDE DEF n, act
    <3>3. [k \in 1..n |-> act(k)] \in Seq(Works)
      BY <3>1
    <3>4. orphans = [k \in 1..n |-> act(k)]
      BY <3>1 DEF act
    <3> QED
      BY <3>2, <3>3, <3>4
  <2> HIDE DEF parts, orphans
  <2>6. steps \in Seq(Works) /\ Once(steps) /\ \A x : x \in ToSet(steps) <=> \E i \in DOMAIN currentSteps : x \in WorkOf(i)
    <3>1. \A i \in DOMAIN parts : Once(parts[i]) /\ ToSet(parts[i]) = WorkOf(i)
      BY <2>1, <2>4
    <3>2. \A i, j \in DOMAIN parts : i # j => ToSet(parts[i]) \intersect ToSet(parts[j]) = {}
      BY <2>2, <2>4, <3>1
    <3>3. /\ steps \in Seq(Works) /\ Once(steps)
          /\ \A x : x \in ToSet(steps) <=> \E i \in DOMAIN parts : x \in ToSet(parts[i])
      BY <2>4, <3>1, <3>2, FlattenedParts
    <3> QED
      BY <2>4, <3>1, <3>3
  <2> HIDE DEF steps
  <2>7. ToSet(steps) \intersect ToSet(orphans) = {}
    BY <2>2, <2>5, <2>6
  <2>8. ToSet(steps) = UNION {WorkOf(i) : i \in DOMAIN currentSteps}
    BY <2>6
  <2>9. /\ steps \o orphans \in Seq(Works) /\ Once(steps \o orphans)
        /\ ToSet(steps \o orphans) = ToSet(steps) \union ToSet(orphans)
    BY <2>5, <2>6, <2>7, ToSetOfConcat
  <2>10. IsInjective(steps \o orphans)
    <3> DEFINE told == steps \o orphans
    <3>1. Once(told)
      BY <2>9
    <3> HIDE DEF told
    <3>2. IsInjective(told)
      BY <3>1 DEF Once, IsInjective
    <3> QED
      BY <3>2 DEF told
  <2> QED
    BY <2>2, <2>3, <2>5, <2>8, <2>9, <2>10
<1>2. StepsInv /\ [StepsNext]_stepVars => [WorkStays]_stepVars
  BY StepsLeaveWork
<1> QED
  BY <1>1, <1>2, StepsInvHolds, PTL DEF StepsSpec, WorkToldOnce

\* The steps, the orphans and the retired identities are what the types say, and no work is told that
\* has not come yet (StepsTypeOK).
THEOREM StepsAreTyped == StepsSpec => []StepsTypeOK
<1>1. StepsInv => StepsTypeOK
  <2> SUFFICES ASSUME StepsInv PROVE StepsTypeOK
    OBVIOUS
  <2>1. FlowTyped /\ WorkComplete
    BY DEF StepsInv
  <2>2. /\ currentSteps \in Seq(StepRecords) /\ planOrphans \in Seq(OrphanRecords)
        /\ retirements \subseteq [identity : StepIdentities, reason : Reasons]
        /\ (UNION {WorkOf(i) : i \in DOMAIN currentSteps}) \union Orphans = {a \in 1..worked : ClassOf(a) # "control"}
    BY <2>1 DEF FlowTyped, WorkComplete
  <2>3. ASSUME NEW s \in ToSet(currentSteps)
        PROVE  s.token \in PlanTokens /\ s.identity \in StepIdentities /\ ToSet(s.work) \subseteq 1..worked
    <3>1. PICK i \in DOMAIN currentSteps : s = currentSteps[i]
      BY DEF ToSet
    <3>2. s \in StepRecords
      BY <2>2, <3>1
    <3>3. WorkOf(i) \subseteq UNION {WorkOf(j) : j \in DOMAIN currentSteps}
      OBVIOUS
    <3>4. ToSet(s.work) \subseteq 1..worked
      <4>1. ToSet(s.work) = WorkOf(i)
        BY <3>1 DEF WorkOf
      <4> QED
        BY <2>2, <3>3, <4>1
    <3> QED
      BY <3>2, <3>4 DEF StepRecords
  <2>4. ASSUME NEW o \in ToSet(planOrphans) PROVE o.activity \in 1..worked /\ o.prior \in StepIdentities
    <3>1. PICK k \in DOMAIN planOrphans : o = planOrphans[k]
      BY DEF ToSet
    <3>2. o \in OrphanRecords /\ o.activity \in Orphans
      BY <2>2, <3>1 DEF Orphans
    <3> QED
      BY <2>2, <3>2 DEF OrphanRecords
  <2>5. \A r \in retirements : r.identity \in StepIdentities
    BY <2>2
  <2> QED
    BY <2>1, <2>3, <2>4, <2>5 DEF StepsTypeOK, FlowTyped
<1> QED
  BY <1>1, StepsInvHolds, PTL
=============================================================================
