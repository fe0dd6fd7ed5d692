----------------------------- MODULE CommandLine -----------------------------
(* One run of wflow-do (bin/wflow_do.rs): the commands as programs of steps,   *)
(* what a failed step does to the rest, and the exit status. A call to the     *)
(* API succeeds or fails; a failed write may have been carried out.            *)
EXTENDS Naturals, Sequences

CONSTANTS
  MaxWrites,   \* the writes of a command that makes several
  Running      \* the exit status of a command that has not ended

VARIABLES
  cmd,      \* the command
  steps,    \* the steps it has left
  walk,     \* what its last walk returned: none, whole or cut
  left,     \* the writes of the current step still to send
  sent,     \* the writes sent
  missed,   \* the writes that got an error for an answer
  refused,  \* it refused what it was asked
  exit      \* 0, 1 or Running

\* An exit status is 0 or 1.
ASSUME CommandConstants == MaxWrites \in Nat /\ Running \notin {0, 1}

cliVars == <<cmd, steps, walk, left, sent, missed, refused, exit>>

-----------------------------------------------------------------------------
(* The commands. A step is one of                                              *)
(*   args, pick   a check of the arguments, of what was read: may refuse       *)
(*   whole        refuses what a cut walk returned                             *)
(*   get, index   reads; the first that fails ends the command                 *)
(*   look         reads whose failure is printed, counted or passed over       *)
(*   walk         get_subtree_with_controls                                    *)
(*   save         of the index or a file                                       *)
(*   write        one write                                                    *)
(*   all          writes; the first that fails ends the command                *)
(*   halt, stop   writes; the first that fails ends the step, and the command  *)
(*                then exits 1, or 0                                           *)
(*   turn         writes, each checked when its turn comes: the first refused  *)
(*                or failed ends the step, and the command then exits 0        *)
(*   each, try    writes, or one; what fails is counted, or passed over        *)

Runs(name, programs) == {[name |-> name, steps |-> p] : p \in programs}

\* Probes and process state: always answered.
Status == Runs("status", {<<"look">>})
HealthCheck == Runs("health-check", {<<"look">>})
CancelAll == Runs("cancel-all", {<<>>})
RecentTools == Runs("recent-tools", {<<>>})

Get == Runs("get", {<<"get">>})
Children == Runs("children", {<<"get">>})
Since == Runs("since", {<<"get">>})

\* One write, and the guards before it; a name and a description are two.
Create == Runs("create", {<<"args", "write">>})
Move == Runs("move", {<<"write">>})
Delete == Runs("delete", {<<"write">>, <<"get", "pick", "write">>})
Edit == Runs("edit", {<<"args", "all">>})
Complete == Runs("complete", {<<"write">>})
NativeMirror == Runs("native-mirror-create", {<<"write">>})
CreateMirror ==
  Runs("create-mirror", {<<"args", "get">>, <<"args", "get", "write">>})
  \cup Runs("create-mirror-annotated", {<<"args", "get", "write", "try">>})

\* From the index file, or from a walk.
Search == Runs("search", {<<"index">>, <<"walk">>})
TagSearch == Runs("tag-search", {<<"index">>, <<"walk">>})
Find == Runs("find", {<<"index">>, <<"args", "walk">>})
Subtree == Runs("subtree", {<<"walk">>})
Backlinks == Runs("backlinks", {<<"index">>, <<"walk">>})
ChangedSince == Runs("changed-since", {<<"args", "index">>})

FindByTagAndPath == Runs("find-by-tag-and-path", {<<"walk">>})
NodeAtPath == Runs("node-at-path", {<<>>, <<"get", "pick">>, <<"get", "pick", "get", "pick">>})
PathOf == Runs("path-of", {<<"look">>})
\* A full id; an entry of the index that is still there; a walk, whose nodes
\* are merged into the file before a miss is reported.
ResolveLink ==
  LET scopes == {<<>>, <<"get", "pick">>}
      saves == {<<>>, <<"look">>}
  IN Runs("resolve-link",
          {<<"args", "get">>, <<"args", "look">>}
          \cup {<<"args">> \o lookups \o scope \o <<"walk">> \o save \o <<"pick">> :
                  lookups \in {<<>>, <<"look">>}, scope \in scopes, save \in saves})

\* The reports over one walk.
Todos == Runs("todos", {<<"walk">>})
Dated == Runs("overdue", {<<"walk">>}) \cup Runs("upcoming", {<<"walk">>})
DailyReview == Runs("daily-review", {<<"walk">>})
RecentChanges == Runs("recent-changes", {<<"walk">>})
ProjectSummary == Runs("project-summary", {<<"walk", "pick">>})
Export == Runs("export", {<<"walk", "pick">>})
AuditMirrors == Runs("audit-mirrors", {<<"args", "walk", "look">>, <<"args", "look", "get", "walk", "look">>})
Review == Runs("review", {<<"args", "walk">>})

Insert == Runs("insert", {<<>>, <<"args", "halt">>})
SmartInsert == Runs("smart-insert", {<<"walk", "pick", "args", "stop">>})
\* Mutant: a copy of what the walk returned.
CopyAnyway == Runs("duplicate", {<<"walk", "pick", "all">>})
Duplicate == Runs("duplicate", {<<"walk", "whole", "pick", "all">>})
Template == Runs("template", {<<"args", "walk", "whole", "pick", "all">>})
BulkUpdate == Runs("bulk-update", {<<"args", "walk", "each">>})
              \cup Runs("bulk-delete", {<<"args", "walk", "whole", "each">>})
BulkTag == Runs("bulk-tag", {<<"look">>, <<"look", "each">>})
Reorder == Runs("reorder", {<<"args", "each">>})
BatchCreate == Runs("batch-create", {<<"args", "each">>})
\* An operation is checked when its turn comes, after the reads before it.
ReadBatch == Runs("read-batch", {<<"args", "look">>, <<"args", "look", "args", "look">>})
\* Here too; what undoes the writes before it is left out.
Transaction == Runs("transaction", {<<"args", "turn">>})

\* A root whose walk or checkpoint fails is passed over; the last save is not.
Reindex == Runs("reindex", {<<"look", "save">>, <<"look">>, <<"get", "save">>, <<"get">>})
BuildNameIndex == Runs("build-name-index", {<<"look", "save">>, <<"look">>})
Index == Runs("index", {<<"args", "get", "save">>})

Commands ==
  UNION {Status, HealthCheck, CancelAll, RecentTools, Get, Children, Since, Create, Move,
         Delete, Edit, Complete, NativeMirror, CreateMirror, Search, TagSearch, Find,
         Subtree, Backlinks, ChangedSince, FindByTagAndPath, NodeAtPath, PathOf,
         ResolveLink, Todos, Dated, DailyReview, RecentChanges, ProjectSummary, Export,
         AuditMirrors, Review, Insert, SmartInsert, Duplicate, Template, BulkUpdate,
         BulkTag, Reorder, BatchCreate, ReadBatch, Transaction, Reindex, BuildNameIndex,
         Index}

\* Read before a copy or a deletion, what a cut walk lacks is lost.
NeedWhole == {"duplicate", "template", "bulk-delete"}
\* The commands that exit 0 when a write failed, and print how many did.
Lenient == {"smart-insert", "bulk-update", "bulk-delete", "bulk-tag", "reorder",
            "batch-create", "transaction", "create-mirror-annotated"}
\* The command that may refuse an operation after it carried out others.
RefusesLate == {"transaction"}

-----------------------------------------------------------------------------
(* A run.                                                                      *)

\* --dry-run: the write verbs print a line and send nothing.
Planned == {"create", "move", "reorder", "delete", "edit", "complete", "insert",
            "smart-insert", "duplicate", "template", "bulk-update", "bulk-delete",
            "bulk-tag", "batch-create", "transaction"}
\* The others first build a client, for which the configuration must be valid.
Given(c, dry) == IF dry /\ c.name \in Planned THEN <<>> ELSE <<"args">> \o c.steps

CliInit ==
  /\ \E c \in Commands, dry \in BOOLEAN : cmd = c.name /\ steps = Given(c, dry)
  /\ walk = "none" /\ left = 0 /\ sent = 0 /\ missed = 0
  /\ refused = FALSE /\ exit = Running

At(names) == exit = Running /\ left = 0 /\ steps # <<>> /\ Head(steps) \in names
Next1 == steps' = Tail(steps)
Fails == exit' = 1 /\ steps' = <<>>

\* A check of the arguments or of what was read passes or refuses.
Judge ==
  /\ At({"args", "pick"})
  /\ \/ Next1 /\ UNCHANGED <<refused, exit>>
     \/ Fails /\ refused' = TRUE
  /\ UNCHANGED <<cmd, walk, left, sent, missed>>

DemandWhole ==
  /\ At({"whole"})
  /\ IF walk = "cut" THEN Fails /\ refused' = TRUE
                     ELSE Next1 /\ UNCHANGED <<refused, exit>>
  /\ UNCHANGED <<cmd, walk, left, sent, missed>>

ReadStep ==
  /\ At({"get", "index", "save", "look"})
  /\ \/ Next1 /\ UNCHANGED exit
     \/ Head(steps) # "look" /\ Fails
  /\ UNCHANGED <<cmd, walk, left, sent, missed, refused>>

WalkStep ==
  /\ At({"walk"})
  /\ \/ Next1 /\ UNCHANGED exit /\ walk' \in {"whole", "cut"}
     \/ Fails /\ UNCHANGED walk
  /\ UNCHANGED <<cmd, left, sent, missed, refused>>

\* The writes of a step are what was read or given: one, several, or none.
Open ==
  /\ At({"write", "try", "all", "halt", "stop", "turn", "each"})
  /\ \/ left' \in (IF Head(steps) \in {"write", "try"} THEN {1} ELSE 1 .. MaxWrites)
        /\ UNCHANGED steps
     \/ Head(steps) \in {"stop", "each"} /\ Next1 /\ UNCHANGED left
  /\ UNCHANGED <<cmd, walk, sent, missed, refused, exit>>

\* A malformed operation, met when its turn comes.
RefuseTurn ==
  /\ exit = Running /\ steps # <<>> /\ Head(steps) = "turn"
  /\ Next1 /\ left' = 0 /\ refused' = TRUE
  /\ UNCHANGED <<cmd, walk, sent, missed, exit>>

Acknowledged ==
  /\ exit = Running /\ left > 0
  /\ left' = left - 1 /\ sent' = sent + 1
  /\ IF left = 1 THEN Next1 ELSE UNCHANGED steps
  /\ UNCHANGED <<cmd, walk, missed, refused, exit>>

Counts == left' = left - 1 /\ UNCHANGED exit
          /\ IF left = 1 THEN Next1 ELSE UNCHANGED steps
\* Mutant: an insertion stopped by an error exits like one that was cancelled.
AfterFailureQuietly(policy) ==
  \/ policy \in {"write", "all"} /\ Fails /\ left' = 0
  \/ policy \in {"stop", "turn", "halt"} /\ Next1 /\ left' = 0 /\ UNCHANGED exit
  \/ policy \in {"each", "try"} /\ Counts
\* What a write that failed leaves the command to do.
AfterFailure(policy) ==
  \/ policy \in {"write", "all", "halt"} /\ Fails /\ left' = 0
  \/ policy \in {"stop", "turn"} /\ Next1 /\ left' = 0 /\ UNCHANGED exit
  \/ policy \in {"each", "try"} /\ Counts

Unacknowledged ==
  /\ exit = Running /\ left > 0
  /\ sent' = sent + 1 /\ missed' = missed + 1
  /\ AfterFailure(Head(steps))
  /\ UNCHANGED <<cmd, walk, refused>>

Succeed ==
  /\ exit = Running /\ steps = <<>>
  /\ exit' = 0
  /\ UNCHANGED <<cmd, steps, walk, left, sent, missed, refused>>

CliNext == \/ Judge \/ DemandWhole \/ ReadStep \/ WalkStep \/ Open
           \/ RefuseTurn \/ Acknowledged \/ Unacknowledged \/ Succeed

CliSpec == CliInit /\ [][CliNext]_cliVars

-----------------------------------------------------------------------------
(* Properties.                                                                 *)

\* A command that exits 0 has had every write acknowledged, unless it is one of
\* those that print how many were: a shell pipeline sees the failure.
ExitZeroMeansDone == exit = 0 /\ cmd \notin Lenient => missed = 0

\* Whatever a command other than a transaction refuses, it refuses before its
\* first write; and what copies or deletes a subtree has seen the whole of it.
RefusalsComeFirst ==
  /\ cmd \notin RefusesLate /\ refused => sent = 0
  /\ cmd \in NeedWhole /\ sent > 0 => walk = "whole"
=============================================================================
