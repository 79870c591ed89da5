-------------------------- MODULE CanonicalPromotion --------------------------
(***************************************************************************)
(* Promotion of drafts to tracked Markdown: a person accepts what a draft  *)
(* would change, which mints a token; the token promotes that draft over   *)
(* that document (src/application/canonical-promotion.ts,                  *)
(* src/infrastructure/canonical-document-store.ts).                        *)
(*                                                                         *)
(* A body stands for its digest, and for the source it was made from.  The *)
(* workbench runs one command at a time; editors write when they like.     *)
(***************************************************************************)
EXTENDS Integers, FiniteSets

CONSTANTS
  Targets,           \* tracked documents
  Bodies,            \* what a draft or an editor may put into one
  MaxTokens,
  MaxPromotions,     \* promotions in a behaviour
  MaxEdits

ASSUME PromotionAssumption ==
  MaxTokens \in Nat /\ MaxPromotions \in Nat /\ MaxEdits \in Nat

Empty == "empty"           \* no file: the body ""

VARIABLES
  content,       \* target -> its body
  pending,       \* tokens that may still promote
  accepted,      \* token -> [target, before, body] the person saw
  minted,        \* tokens so far
  promotion,     \* the command under way
  writes,        \* token -> times it replaced a document
  promotions, edits

promotionVars == <<content, pending, accepted, minted, promotion, writes,
                   promotions, edits>>

Tokens == 1..MaxTokens
Idle == [at |-> "idle"]
Acceptance == [target : Targets, before : Bodies \union {Empty}, body : Bodies]

PromotionIdle == promotion.at = "idle"

\* accept: the digests of the draft and of the target as it is go with the token.
Accept(t, body) ==
  /\ PromotionIdle /\ minted < MaxTokens
  /\ minted' = minted + 1
  /\ pending' = pending \union {minted + 1}
  /\ accepted' = [accepted EXCEPT ![minted + 1] =
                    [target |-> t, before |-> content[t], body |-> body]]
  /\ UNCHANGED <<content, promotion, writes, promotions, edits>>

\* The token is known, the draft is the accepted one, and the target is as it was.
Current(token, t, body) ==
  token \in pending /\ accepted[token] = [target |-> t, before |-> content[t], body |-> body]

\* promote: the target is read; then the checks.
Promote(token, t, body) ==
  /\ PromotionIdle /\ promotions < MaxPromotions
  /\ promotions' = promotions + 1
  /\ promotion' = IF Current(token, t, body)
                  THEN [at |-> "compare", token |-> token, target |-> t,
                        expected |-> content[t], body |-> body]
                  ELSE Idle
  /\ UNCHANGED <<content, pending, accepted, minted, writes, edits>>

\* writeAtomic: the target is read again; another digest is a conflict.
CompareDigest ==
  /\ promotion.at = "compare"
  /\ promotion' = IF content[promotion.target] = promotion.expected
                  THEN [promotion EXCEPT !.at = "rename"] ELSE Idle
  /\ UNCHANGED <<content, pending, accepted, minted, writes, promotions, edits>>

\* Mutant of Spend: the token stays.
SpendNothing(token) == pending

\* this.pending.delete(token)
Spend(token) == pending \ {token}

\* rename, after the path has been looked at once more; a conflict keeps the token.
RenameTarget ==
  /\ promotion.at = "rename" /\ promotion' = Idle
  /\ content' = [content EXCEPT ![promotion.target] = promotion.body]
  /\ pending' = Spend(promotion.token)
  /\ writes' = [writes EXCEPT ![promotion.token] = @ + 1]
  /\ UNCHANGED <<accepted, minted, promotions, edits>>

\* Obsidian or Git.
EditTarget(t, body) ==
  /\ edits < MaxEdits /\ edits' = edits + 1
  /\ content[t] # body /\ content' = [content EXCEPT ![t] = body]
  /\ UNCHANGED <<pending, accepted, minted, promotion, writes, promotions>>

PromotionInit ==
  /\ content = [t \in Targets |-> Empty]
  /\ pending = {} /\ minted = 0
  /\ accepted = [k \in Tokens |-> [at |-> "unminted"]]
  /\ promotion = Idle
  /\ writes = [k \in Tokens |-> 0]
  /\ promotions = 0 /\ edits = 0

PromotionNext ==
  \/ \E t \in Targets, body \in Bodies :
       \/ Accept(t, body)
       \/ \E token \in 1..minted : Promote(token, t, body)
       \/ EditTarget(t, body)
  \/ CompareDigest \/ RenameTarget

PromotionSpec == PromotionInit /\ [][PromotionNext]_promotionVars

-----------------------------------------------------------------------------
(* Properties.                                                             *)

PromotionTypeOK ==
  /\ content \in [Targets -> Bodies \union {Empty}]
  /\ pending \subseteq 1..minted /\ minted \in 0..MaxTokens
  /\ \A k \in 1..minted : accepted[k] \in Acceptance
  /\ promotion.at \in {"idle", "compare", "rename"}
  /\ writes \in [Tokens -> Nat]

\* A token is good for one write, though the document be put back to what it was.
TokenWritesOnce == \A k \in Tokens : writes[k] <= 1

=============================================================================
