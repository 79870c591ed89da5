---------------------------- MODULE ComposerDrafts ----------------------------
(***************************************************************************)
(* The text in the composer, from the key to the file                      *)
(* (src/infrastructure/composer-draft-store.ts, onSubmit and shutdown of   *)
(* workbench-shell.ts): several shells of one project over one directory   *)
(* of drafts.  A shell restores the newest draft, writes a file of its own *)
(* when it is left, and clears when a message is taken.  Every await is a  *)
(* step; a shell may crash at any.                                         *)
(***************************************************************************)
EXTENDS Integers, FiniteSets, FiniteSetsExt

CONSTANTS Shells, Texts, MaxStarts

ASSUME DraftsAssumption == "" \notin Texts /\ MaxStarts \in Nat

VARIABLES
  shells,         \* what each process holds
  draftFiles,     \* the directory
  savedDrafts,    \* history: every file ever written
  restored,       \* history: files some shell showed in its editor
  withdrawn       \* history: files removed by the shell that wrote them

composerVars == <<shells, draftFiles, savedDrafts, restored, withdrawn>>

Paths == [shell : Shells \union {"earlier"}, run : 0..MaxStarts]
NoPath == [shell |-> "none", run |-> 0]
NoFile == [path |-> NoPath, text |-> "", at |-> 0]
\* create: the path is of this run alone.
PathOf(s, run) == [shell |-> s, run |-> run]

Gone(run) ==
  [phase |-> "gone", run |-> run, path |-> NoPath, names |-> {}, loaded |-> NoFile, editor |-> "",
   sending |-> "", clears |-> {}, saving |-> "", draft |-> "", previous |-> NoFile]

Becomes(s, next) == shells' = [shells EXCEPT ![s] = next]
Alive(s) == shells[s].phase \notin {"gone", "listing"}
OnDisk(path) == {f \in draftFiles : f.path = path}

\* Removing paths removes the drafts at them; a shell's own are withdrawn by it.
RemoveDrafts(s, paths) ==
  /\ draftFiles' = {f \in draftFiles : f.path \notin paths}
  /\ withdrawn' = withdrawn \union {f \in savedDrafts : f.path = shells[s].path /\ f.path \in paths}

-----------------------------------------------------------------------------
(* Create: loadLatest lists the directory, then reads what it has listed.  *)

ListDrafts(s) ==
  /\ shells[s].phase = "gone" /\ FoldSet(LAMBDA r, n : n + shells[r].run, 0, Shells) < MaxStarts
  /\ Becomes(s, [Gone(shells[s].run + 1) EXCEPT !.phase = "listing", !.names = {f.path : f \in draftFiles}])
  /\ UNCHANGED <<draftFiles, savedDrafts, restored, withdrawn>>

\* Mutant of OwnPath: a project has one draft.
ProjectPath(s) == PathOf(CHOOSE r \in Shells : TRUE, 1)
OwnPath(s) == PathOf(s, shells[s].run)

\* The newest of the files that were listed.
NewestOf(found) == IF found = {} THEN {NoFile} ELSE {f \in found : \A g \in found : g.at <= f.at}

\* A file that another shell has removed in the meantime fails the start.
LoadLatest(s) ==
  /\ shells[s].phase = "listing"
  /\ IF \A name \in shells[s].names : OnDisk(name) # {}
     THEN \E newest \in NewestOf({f \in draftFiles : f.path \in shells[s].names}) :
            /\ Becomes(s, [shells[s] EXCEPT !.phase = "open", !.path = OwnPath(s), !.names = {},
                                            !.loaded = newest, !.editor = newest.text])
            /\ restored' = restored \union ({newest} \ {NoFile})
     ELSE Becomes(s, Gone(shells[s].run)) /\ UNCHANGED restored
  /\ UNCHANGED <<draftFiles, savedDrafts, withdrawn>>

-----------------------------------------------------------------------------
(* The editor and the messages sent from it.                               *)

Edit(s, text) ==
  /\ shells[s].phase = "open" /\ text # shells[s].editor
  /\ Becomes(s, [shells[s] EXCEPT !.editor = text])
  /\ UNCHANGED <<draftFiles, savedDrafts, restored, withdrawn>>

\* onSubmit empties the editor and dispatches chat.send.
SendDraft(s) ==
  /\ shells[s].phase = "open" /\ shells[s].editor # "" /\ shells[s].sending = ""
  /\ Becomes(s, [shells[s] EXCEPT !.sending = shells[s].editor, !.editor = ""])
  /\ UNCHANGED <<draftFiles, savedDrafts, restored, withdrawn>>

BeginClear(by) == [by |-> by, step |-> "check", paths |-> {}]

\* The receipt, also while the shell is being left: taken, the draft is cleared; refused,
\* the text goes back into the editor, over what was typed since.  (The text of an editor that
\* has been left is not looked at again.)
DraftReceipt(s) ==
  /\ Alive(s) /\ shells[s].sending # ""
  /\ \/ Becomes(s, [shells[s] EXCEPT !.sending = "", !.clears = @ \union {BeginClear("receipt")}])
     \/ Becomes(s, [shells[s] EXCEPT !.sending = "", !.editor = IF shells[s].phase = "open" THEN shells[s].sending ELSE ""])
  /\ UNCHANGED <<draftFiles, savedDrafts, restored, withdrawn>>

\* isUnchanged: the draft shown at the start is removed only as it was then.
Unchanged(file) == file \in draftFiles

ClearChecks(s, c) ==
  /\ Alive(s) /\ c.step = "check"
  /\ LET own == {shells[s].path}
         paths == IF Unchanged(shells[s].loaded) THEN own \union {shells[s].loaded.path} ELSE own
     IN  Becomes(s, [shells[s] EXCEPT !.clears = (@ \ {c}) \union {[c EXCEPT !.step = "remove", !.paths = paths]}])
  /\ UNCHANGED <<draftFiles, savedDrafts, restored, withdrawn>>

ClearRemoves(s, c) ==
  /\ Alive(s) /\ c.step = "remove" /\ RemoveDrafts(s, c.paths)
  /\ Becomes(s, [shells[s] EXCEPT !.clears = @ \ {c}, !.loaded = NoFile,
                                  !.phase = IF c.by = "exit" THEN "closing" ELSE @])
  /\ UNCHANGED <<savedDrafts, restored>>

-----------------------------------------------------------------------------
(* shutdown: save, close of the workbench, and settleWithin 5 s.           *)

Leave(s) ==
  /\ shells[s].phase = "open"
  /\ Becomes(s, IF shells[s].editor = ""
                THEN [shells[s] EXCEPT !.phase = "leaving", !.clears = @ \union {BeginClear("exit")}]
                ELSE [shells[s] EXCEPT !.phase = "leaving", !.saving = "write", !.editor = "",
                                         !.draft = shells[s].editor, !.previous = shells[s].loaded])
  /\ UNCHANGED <<draftFiles, savedDrafts, restored, withdrawn>>

Saved(s) == [shells[s] EXCEPT !.saving = "", !.draft = "", !.previous = NoFile, !.phase = "closing"]

\* The rename puts the whole draft there; writing may fail, which is not reported.
WriteDraft(s) ==
  LET file == [path |-> shells[s].path, text |-> shells[s].draft, at |-> Cardinality(savedDrafts) + 1]
      other == shells[s].previous # NoFile /\ shells[s].previous.path # file.path
  IN  /\ shells[s].saving = "write"
      /\ \/ /\ draftFiles' = (draftFiles \ OnDisk(file.path)) \union {file}
            /\ savedDrafts' = savedDrafts \union {file}
            /\ Becomes(s, [(IF other THEN [shells[s] EXCEPT !.saving = "check"] ELSE Saved(s))
                             EXCEPT !.loaded = file])
         \/ Becomes(s, Saved(s)) /\ UNCHANGED <<draftFiles, savedDrafts>>
      /\ UNCHANGED <<restored, withdrawn>>

CheckPrevious(s) ==
  /\ shells[s].saving = "check"
  /\ Becomes(s, IF Unchanged(shells[s].previous) THEN [shells[s] EXCEPT !.saving = "remove"] ELSE Saved(s))
  /\ UNCHANGED <<draftFiles, savedDrafts, restored, withdrawn>>

RemovePrevious(s) ==
  /\ shells[s].saving = "remove" /\ RemoveDrafts(s, {shells[s].previous.path}) /\ Becomes(s, Saved(s))
  /\ UNCHANGED <<savedDrafts, restored>>

\* The process ends: settleWithin has waited for the save and for workbench.close(), or for five
\* seconds; or it crashes, whatever it is doing.
StopShell(s) ==
  /\ shells[s].phase # "gone" /\ Becomes(s, Gone(shells[s].run))
  /\ UNCHANGED <<draftFiles, savedDrafts, restored, withdrawn>>

-----------------------------------------------------------------------------
ComposerInit ==
  /\ shells = [s \in Shells |-> Gone(0)]
  /\ draftFiles \in {{}} \union {{[path |-> PathOf("earlier", 0), text |-> t, at |-> 1]} : t \in Texts}
  /\ savedDrafts = draftFiles /\ restored = {} /\ withdrawn = {}

ShellStep(s) ==
  \/ ListDrafts(s) \/ LoadLatest(s) \/ SendDraft(s) \/ DraftReceipt(s) \/ Leave(s)
  \/ WriteDraft(s) \/ CheckPrevious(s) \/ RemovePrevious(s)
  \/ StopShell(s)
  \/ \E text \in Texts \union {""} : Edit(s, text)
  \/ \E c \in shells[s].clears : ClearChecks(s, c) \/ ClearRemoves(s, c)

ComposerNext == \E s \in Shells : ShellStep(s)
ComposerSpec == ComposerInit /\ [][ComposerNext]_composerVars

-----------------------------------------------------------------------------
DraftRecords == [path : Paths, text : Texts, at : Nat]
ComposerTypeOK ==
  /\ draftFiles \subseteq savedDrafts /\ savedDrafts \subseteq DraftRecords
  /\ restored \subseteq savedDrafts /\ withdrawn \subseteq savedDrafts
  /\ \A f, g \in draftFiles : f.path = g.path => f = g
  /\ \A s \in Shells :
       /\ shells[s].phase \in {"gone", "listing", "open", "leaving", "closing"}
       /\ shells[s].run \in 0..MaxStarts /\ shells[s].names \subseteq Paths
       /\ {shells[s].editor, shells[s].sending} \subseteq Texts \union {""}
       /\ shells[s].saving # "" => shells[s].phase = "leaving"

\* "Per-session files prevent one WWW process from overwriting another process's project
\* draft": a draft that nobody has seen since it was saved is still there, whatever shells
\* start, save, clear and crash beside it; but for its own shell's clear.
DraftKept == savedDrafts \subseteq draftFiles \union restored \union withdrawn
=============================================================================
