------------------------------- MODULE Reviews -------------------------------
(***************************************************************************)
(* External reviews of T-notes (ProjectWorkbench.previewReview, sendReview, *)
(* src/application/review-service.ts, src/domain/review.ts, the adapters   *)
(* and the provenance file).  A preview fixes a packet, redacted and with  *)
(* a digest; what is approved is the digest; the packet goes to Claude's   *)
(* CLI or to Google's API; provenance is recorded before the result is     *)
(* shown.  How the CLI's process ends is in ProcessRuns.                   *)
(***************************************************************************)
EXTENDS Integers, Sequences, SequencesExt, FiniteSets

CONSTANTS
  ReviewNotes,
  MaxReviewSteps,           \* bound on edits and previews
  MaxSends, MaxReviewFaults

ASSUME ReviewAssumption ==
  MaxReviewSteps \in Nat /\ MaxSends \in Nat /\ MaxReviewFaults \in Nat

Providers == {"anthropic", "google"}

VARIABLES
  noteTexts,       \* note -> the version of its text
  previews,        \* reviewPreviews: digest -> provider and packet
  reviewShown,     \* actionResult: a preview, a result, or nothing
  underReview,         \* the send under way, and the await it is at
  transmitted,     \* history: what left for a provider
  refusals,        \* history: digests whose send ended without a result
  provenance,      \* review-provenance.jsonl
  cliVersion,      \* what "claude --version" says
  reviewSteps, sends, reviewFaults

reviewVars == <<noteTexts, previews, reviewShown, underReview, transmitted, refusals, provenance,
                cliVersion, reviewSteps, sends, reviewFaults>>

NoSend == [phase |-> "idle"]
NothingShown == [kind |-> "none"]

-----------------------------------------------------------------------------
(* The packet: every field is public and redacted; its digest is that of   *)
(* its contents, the time of the preview among them.                       *)

Packet(note, text, at) == [note |-> note, text |-> text, at |-> at]
Digest(packet) == packet            \* sha256 of the stable JSON: equal only for equal contents

\* verifyReviewPacket, which the service's comparison of the approved digest goes before.
Verified(packet, digest) == Digest(packet) = digest

\* The draft of a note is edited; the previews made of it stay what they are.
EditNote(note) ==
  /\ reviewSteps < MaxReviewSteps /\ reviewSteps' = reviewSteps + 1
  /\ noteTexts' = [noteTexts EXCEPT ![note] = @ + 1]
  /\ UNCHANGED <<previews, reviewShown, underReview, transmitted, refusals, provenance, cliVersion, sends, reviewFaults>>

\* Two previews may be made in one millisecond: one packet then, with the later provider.
SameMillisecond ==
  IF reviewShown.kind = "preview" /\ ~\E r \in ToSet(transmitted) : r.digest = reviewShown.digest
  THEN {reviewShown.digest.at} ELSE {}
PreviewReview(note, provider) ==
  /\ underReview.phase = "idle" /\ reviewSteps < MaxReviewSteps /\ reviewSteps' = reviewSteps + 1
  /\ \E at \in {reviewSteps} \union SameMillisecond :
       LET packet == Packet(note, noteTexts[note], at)
       IN  /\ previews' = [d \in DOMAIN previews \union {Digest(packet)} |->
                             IF d = Digest(packet) THEN [provider |-> provider, packet |-> packet] ELSE previews[d]]
           /\ reviewShown' = [kind |-> "preview", provider |-> provider, digest |-> Digest(packet)]
  /\ UNCHANGED <<noteTexts, underReview, transmitted, refusals, provenance, cliVersion, sends, reviewFaults>>

-----------------------------------------------------------------------------
(* Sending: commands follow one another, so there is one send at a time.   *)

SendTo(phase) == underReview' = [underReview EXCEPT !.phase = phase]
KeepsReviews == UNCHANGED <<noteTexts, cliVersion, reviewSteps, sends>>

\* The receipt says why; the preview stays, to be approved again.
\* Mutant of Refuse: what failed counts as sent.
RefuseAndForget ==
  /\ underReview' = NoSend /\ refusals' = Append(refusals, underReview.digest)
  /\ reviewShown' = [kind |-> "result", provider |-> underReview.provider, digest |-> underReview.digest]
  /\ previews' = [d \in DOMAIN previews \ {underReview.digest} |-> previews[d]]
Refuse ==
  /\ underReview' = NoSend /\ refusals' = Append(refusals, underReview.digest)
  /\ UNCHANGED <<previews, reviewShown>>

SendReview(digest) ==
  /\ underReview.phase = "idle" /\ sends < MaxSends /\ sends' = sends + 1
  /\ digest \in DOMAIN previews
  /\ Verified(previews[digest].packet, digest)
  \* The CLI must be installed: its version is asked for before the packet leaves.
  /\ underReview' = [phase |-> IF previews[digest].provider = "google" \/ cliVersion # 0 THEN "away" ELSE "failed",
                 digest |-> digest, provider |-> previews[digest].provider, version |-> cliVersion]
  /\ transmitted' = IF underReview'.phase = "away" THEN Append(transmitted, [digest |-> digest, provider |-> underReview'.provider])
                    ELSE transmitted
  /\ UNCHANGED <<noteTexts, previews, reviewShown, refusals, provenance, cliVersion, reviewSteps, reviewFaults>>

\* Another version is installed, or none.
CliChanges ==
  /\ reviewFaults < MaxReviewFaults /\ reviewFaults' = reviewFaults + 1
  /\ \E v \in (0..2) \ {cliVersion} : cliVersion' = v
  /\ UNCHANGED <<noteTexts, previews, reviewShown, underReview, transmitted, refusals, provenance, reviewSteps, sends>>

\* Timeout, too much output, an exit code, malformed JSON, a tool call, an error of the provider.
ReviewFails ==
  /\ underReview.phase = "away" /\ reviewFaults < MaxReviewFaults /\ reviewFaults' = reviewFaults + 1
  /\ Refuse
  /\ UNCHANGED <<transmitted, provenance>> /\ KeepsReviews
ReviewUnavailable ==
  /\ underReview.phase = "failed" /\ Refuse
  /\ UNCHANGED <<transmitted, provenance, reviewFaults>> /\ KeepsReviews

\* The service compares the version with the adapter's, which asks the CLI again.
FitsAdapter == underReview.provider = "google" \/ underReview.version = cliVersion
ReviewAnswers ==
  /\ underReview.phase = "away"
  /\ IF FitsAdapter THEN SendTo("recording") /\ UNCHANGED <<refusals, previews, reviewShown>> ELSE Refuse
  /\ UNCHANGED <<transmitted, provenance, reviewFaults>> /\ KeepsReviews

ReviewRecord == [digest |-> underReview.digest, provider |-> underReview.provider]

\* The record is written; then the preview is over and the result is shown.
Recorded(digest) ==
  /\ provenance' = Append(provenance, ReviewRecord)
  /\ previews' = [d \in DOMAIN previews \ {digest} |-> previews[d]]
  /\ reviewShown' = [kind |-> "result", provider |-> underReview.provider, digest |-> digest]
  /\ underReview' = NoSend
RecordReview ==
  /\ underReview.phase = "recording" /\ Recorded(underReview.digest)
  /\ UNCHANGED <<transmitted, refusals, reviewFaults>> /\ KeepsReviews

\* The append fails, or what follows it (chmod) does: the record may be there.
RecordFails ==
  /\ underReview.phase = "recording" /\ reviewFaults < MaxReviewFaults /\ reviewFaults' = reviewFaults + 1
  /\ provenance' \in {provenance, Append(provenance, ReviewRecord)}
  /\ Refuse
  /\ UNCHANGED transmitted /\ KeepsReviews

\* Previews are in memory; the process may end while a packet is away.
ReviewerRestarts ==
  /\ reviewFaults < MaxReviewFaults /\ reviewFaults' = reviewFaults + 1
  /\ previews' = <<>> /\ reviewShown' = NothingShown /\ underReview' = NoSend
  /\ refusals' = IF underReview.phase = "idle" THEN refusals ELSE Append(refusals, underReview.digest)
  /\ UNCHANGED <<transmitted, provenance>> /\ KeepsReviews

-----------------------------------------------------------------------------
ReviewInit ==
  /\ noteTexts = [n \in ReviewNotes |-> 0] /\ previews = <<>> /\ reviewShown = NothingShown
  /\ underReview = NoSend /\ transmitted = <<>> /\ refusals = <<>> /\ provenance = <<>>
  /\ cliVersion \in {0, 1} /\ reviewSteps = 0 /\ sends = 0 /\ reviewFaults = 0

ReviewNext ==
  \/ \E n \in ReviewNotes : EditNote(n) \/ \E p \in Providers : PreviewReview(n, p)
  \/ \E d \in DOMAIN previews : SendReview(d)
  \/ CliChanges \/ ReviewFails \/ ReviewUnavailable \/ ReviewAnswers \/ RecordReview \/ RecordFails
  \/ ReviewerRestarts

ReviewSpec == ReviewInit /\ [][ReviewNext]_reviewVars

-----------------------------------------------------------------------------
ReviewTimes(digest, history) == Cardinality({i \in DOMAIN history : history[i].digest = digest})
TimesRefused(digest) == Cardinality({i \in DOMAIN refusals : refusals[i] = digest})

\* The variables have their types; a send is of a preview and of its provider.
ReviewTypeOK ==
  /\ \A d \in DOMAIN previews : previews[d].provider \in Providers /\ previews[d].packet.text <= noteTexts[previews[d].packet.note]
  /\ underReview.phase \in {"idle", "away", "failed", "recording"}
  /\ underReview.phase # "idle" => underReview.digest \in DOMAIN previews
  /\ cliVersion \in 0..2

\* A result that is shown has its record; a packet leaves again only after a send of it that ended
\* without a result; and no packet is on record that did not leave for that provider
\* (ReviewService.send, ProjectWorkbench.sendReview).
ReviewsOnRecord ==
  /\ reviewShown.kind = "result" => [digest |-> reviewShown.digest, provider |-> reviewShown.provider] \in ToSet(provenance)
  /\ \A r \in ToSet(transmitted) : ReviewTimes(r.digest, transmitted) <= 1 + TimesRefused(r.digest)
  /\ ToSet(provenance) \subseteq ToSet(transmitted)
=============================================================================
