----------------------------- MODULE UsageReports -----------------------------
(***************************************************************************)
(* The quotas of the model providers (src/infrastructure/usage-service.ts) *)
(* and the credentials they are read with (credential-store.ts,            *)
(* auth-service.ts), in the legacy shell: its login, its router and its    *)
(* usage share one FileCredentialStore, whose operations follow one        *)
(* another.  A refresh asks both providers at once and there is one        *)
(* refresh at a time.  Time is counted in units of a minute.               *)
(***************************************************************************)
EXTENDS Integers, Sequences, SequencesExt, FiniteSets, FiniteSetsExt

CONSTANTS
  StoreProviders, Accounts,
  UsageProviders, Cached,   \* Cached: those whose last success is used again for a while
  MaxUsageTime,             \* the clock stops when it gets there
  MaxCredentialOps,         \* bound on logins, logouts and rotations
  MaxRefreshes

ASSUME UsageAssumption ==
  Cached \subseteq UsageProviders /\ UsageProviders \subseteq StoreProviders /\ MaxUsageTime \in Nat /\ MaxCredentialOps \in Nat /\ MaxRefreshes \in Nat

SuccessTTL == 5
MaxBackoff == 5
Minimum(a, b) == IF a < b THEN a ELSE b
\* BASE_BACKOFF_MS * 2^failures, capped; the base is half a unit.
Delay(failures) == Minimum(MaxBackoff, 2 ^ (Minimum(failures, 4) - 1))

VARIABLES
  clock,
  credentials,     \* auth.json: provider -> account and the number of its token
  writeChain,      \* operations of the store, those that have loaded the file with what they loaded
  settled,         \* history: provider -> what its last operation to end has left
  credentialOps,
  asking,          \* provider -> how far activeRefresh is with it
  lastReady,       \* provider -> its last quota
  backoff,         \* provider -> failures and the time of the next request
  quotas,          \* provider -> what the listener was last given
  seenOut,         \* history: accounts stored when a refresh last found nothing stored
  refreshes

usageVars == <<clock, credentials, writeChain, settled, credentialOps, asking, lastReady, backoff,
               quotas, seenOut, refreshes>>
storeVars == <<credentials, writeChain, settled, credentialOps>>
serviceVars == <<asking, lastReady, backoff, quotas, seenOut, refreshes>>

NoCredential == [account |-> "none", token |-> 0]
NoQuota == [state |-> "loading", account |-> "none", at |-> 0, stale |-> FALSE, fetch |-> 0]
NoBackoff == [failures |-> 0, until |-> 0]
NotAsked == [phase |-> "idle", with |-> NoCredential, result |-> NoQuota, fetch |-> 0]

-----------------------------------------------------------------------------
(* The store: an operation loads the file, awaits what changes the         *)
(* credential - a login, a rotation - and saves the whole file.            *)

Enqueue(p, does) ==
  /\ credentialOps < MaxCredentialOps /\ credentialOps' = credentialOps + 1
  /\ writeChain' = Append(writeChain, [on |-> p, does |-> does, loaded |-> FALSE, file |-> credentials])
  /\ UNCHANGED <<credentials, settled>>

Login(p) == Enqueue(p, "login") /\ UNCHANGED <<clock, serviceVars>>
Logout(p) == Enqueue(p, "logout") /\ UNCHANGED <<clock, serviceVars>>

\* Mutant of Turn: operations do not wait for one another.
AnyTurn(i) == TRUE
Turn(i) == i = 1

LoadFile(i) ==
  /\ i \in DOMAIN writeChain /\ Turn(i) /\ ~writeChain[i].loaded
  /\ writeChain' = [writeChain EXCEPT ![i].loaded = TRUE, ![i].file = credentials]
  /\ UNCHANGED <<clock, credentials, settled, credentialOps, serviceVars>>

\* What the awaited function makes of the credential; a rotation needs one.
Updated(op) ==
  LET old == op.file[op.on]
  IN  CASE op.does = "login"  -> {[account |-> a, token |-> old.token + 1] : a \in Accounts}
        [] op.does = "logout" -> {NoCredential}
        [] OTHER -> {IF old = NoCredential THEN old ELSE [old EXCEPT !.token = @ + 1]}

SaveFile(i) ==
  /\ i \in DOMAIN writeChain /\ Turn(i) /\ writeChain[i].loaded
  /\ \E new \in Updated(writeChain[i]) :
       /\ credentials' = [writeChain[i].file EXCEPT ![writeChain[i].on] = new]
       /\ settled' = [settled EXCEPT ![writeChain[i].on] = new]
  /\ writeChain' = RemoveAt(writeChain, i)
  /\ UNCHANGED <<clock, credentialOps, serviceVars>>

\* The login was cancelled, the request failed, or the file could not be written.
OperationFails(i) ==
  /\ i \in DOMAIN writeChain /\ Turn(i) /\ writeChain[i].loaded
  /\ writeChain' = RemoveAt(writeChain, i)
  /\ UNCHANGED <<clock, credentials, settled, credentialOps, serviceVars>>

-----------------------------------------------------------------------------
(* The service.                                                            *)

AskTo(p, phase) == asking' = [asking EXCEPT ![p].phase = phase]
Answers(p, quota) == asking' = [asking EXCEPT ![p] = [NotAsked EXCEPT !.phase = "done", !.result = quota]]
KeepsUsage == UNCHANGED <<clock, storeVars, quotas, refreshes>>

MayRefresh == \A p \in UsageProviders : asking[p].phase = "idle"

Refresh ==
  /\ MayRefresh /\ refreshes < MaxRefreshes /\ refreshes' = refreshes + 1
  /\ asking' = [p \in UsageProviders |-> [asking[p] EXCEPT !.phase = "auth"]]
  /\ UNCHANGED <<clock, storeVars, lastReady, backoff, quotas, seenOut>>

\* getAuth, which rotates an expired token through the store first.
AuthRotates(p) ==
  /\ asking[p].phase = "auth" /\ credentials[p] # NoCredential
  /\ Enqueue(p, "rotate") /\ AskTo(p, "rotating")
  /\ UNCHANGED <<clock, lastReady, backoff, quotas, seenOut, refreshes>>
Rotated(p) ==
  asking[p].phase = "rotating" /\ ~\E i \in DOMAIN writeChain : writeChain[i].on = p /\ writeChain[i].does = "rotate"
AuthReady(p) ==
  /\ asking[p].phase = "auth" \/ Rotated(p)
  /\ AskTo(p, "read")
  /\ UNCHANGED <<lastReady, backoff, seenOut>> /\ KeepsUsage

ClearProviderState(p) ==
  /\ lastReady' = [lastReady EXCEPT ![p] = NoQuota]
  /\ backoff' = [backoff EXCEPT ![p] = NoBackoff]

NotStored(p) ==
  Answers(p, [NoQuota EXCEPT !.state = "auth-required"]) /\ ClearProviderState(p)

Degraded(p) ==
  IF lastReady[p] = NoQuota THEN [NoQuota EXCEPT !.state = "error"] ELSE [lastReady[p] EXCEPT !.stale = TRUE]

\* The credential is read again: nothing stored, a quota young enough, a backoff, or a request.
ReadStored(p) ==
  /\ asking[p].phase = "read"
  /\ IF credentials[p] = NoCredential
     THEN NotStored(p) /\ seenOut' = [seenOut EXCEPT ![p] = refreshes]
     ELSE /\ UNCHANGED <<lastReady, backoff, seenOut>>
          /\ IF p \in Cached /\ lastReady[p] # NoQuota /\ clock - lastReady[p].at < SuccessTTL
             THEN Answers(p, lastReady[p])
             ELSE IF backoff[p].until > clock THEN Answers(p, Degraded(p))
             ELSE asking' = [asking EXCEPT ![p].phase = "fetch", ![p].with = credentials[p], ![p].fetch = refreshes]
  /\ KeepsUsage

FetchSucceeds(p) ==
  LET ready == [state |-> "ready", account |-> asking[p].with.account, at |-> clock, stale |-> FALSE,
                fetch |-> asking[p].fetch]
  IN  /\ asking[p].phase = "fetch"
      /\ lastReady' = [lastReady EXCEPT ![p] = ready]
      /\ backoff' = [backoff EXCEPT ![p] = NoBackoff]
      /\ Answers(p, ready)
      /\ UNCHANGED seenOut /\ KeepsUsage

\* recordFailure: of the request, or of what came before it; a 429 may ask for a longer pause.
AskingFails(p) ==
  /\ asking[p].phase \in {"auth", "read", "fetch"} \/ Rotated(p)
  /\ \E hint \in IF asking[p].phase = "fetch" THEN {0, MaxBackoff} ELSE {0} :
       LET failures == backoff[p].failures + 1
       IN  backoff' = [backoff EXCEPT ![p] = [failures |-> Minimum(failures, 4),
                                              until |-> clock + Max({hint, Delay(failures)})]]
  /\ Answers(p, Degraded(p))
  /\ UNCHANGED <<lastReady, seenOut>> /\ KeepsUsage

\* Promise.all: the listener is given all of them together.
Report ==
  /\ \A p \in UsageProviders : asking[p].phase = "done"
  /\ quotas' = [p \in UsageProviders |-> asking[p].result]
  /\ asking' = [p \in UsageProviders |-> NotAsked]
  /\ UNCHANGED <<clock, storeVars, lastReady, backoff, seenOut, refreshes>>

UsageTick ==
  /\ clock < MaxUsageTime /\ clock' \in {clock + 1, clock + SuccessTTL}
  /\ UNCHANGED <<storeVars, serviceVars>>

-----------------------------------------------------------------------------
UsageInit ==
  /\ clock = 0 /\ credentials = [p \in StoreProviders |-> NoCredential] /\ writeChain = <<>>
  /\ settled = credentials /\ credentialOps = 0
  /\ asking = [p \in UsageProviders |-> NotAsked]
  /\ lastReady = [p \in UsageProviders |-> NoQuota] /\ backoff = [p \in UsageProviders |-> NoBackoff]
  /\ quotas = [p \in UsageProviders |-> NoQuota] /\ seenOut = [p \in UsageProviders |-> 0]
  /\ refreshes = 0

UsageNext ==
  \/ Refresh \/ Report \/ UsageTick
  \/ \E i \in 1..MaxCredentialOps : LoadFile(i) \/ SaveFile(i) \/ OperationFails(i)
  \/ \E p \in StoreProviders : Login(p) \/ Logout(p)
  \/ \E p \in UsageProviders :
       \/ AuthRotates(p) \/ AuthReady(p) \/ ReadStored(p)
       \/ FetchSucceeds(p) \/ AskingFails(p)

UsageSpec == UsageInit /\ [][UsageNext]_usageVars

-----------------------------------------------------------------------------
\* The variables have their types; a provider's quota is never of the future and backoff is bounded.
UsageTypeOK ==
  /\ \A p \in UsageProviders : /\ lastReady[p].at <= clock /\ quotas[p].fetch <= refreshes
                               /\ backoff[p].until <= clock + MaxBackoff
                               /\ asking[p].phase \in {"idle", "auth", "rotating", "read", "fetch", "done"}
  /\ Len(writeChain) <= MaxCredentialOps

\* The file holds of each provider what its last operation has left, though each rewrites the whole
\* file after an await (FileCredentialStore.modify), and a quota is not shown any more once a refresh
\* has found its account gone, whoever logs in afterwards (UsageService.fetchProvider).
LoginsAndQuotasAgree ==
  /\ credentials = settled
  /\ \A p \in UsageProviders :
       (quotas[p].account # "none" /\ asking[p].phase = "idle") => quotas[p].fetch > seenOut[p]
=============================================================================
