-------------------------------- MODULE Tools --------------------------------
(* The tools of the server (server/mod.rs) as programs: for each handler the  *)
(* sequences of steps it may take, in the order of its source. What a step    *)
(* does is said in ToolServer. The subject is one node: the one the tool      *)
(* writes to or reads, or, for a write below it, the parent.                  *)
EXTENDS Sequences

Kinds == {"read", "write", "bulk", "walk", "bare"}
StepNames == {"check", "ref", "link", "read", "fetch", "walk", "drop", "change", "touch",
              "delete", "uproot", "create", "settle", "settleAll", "keyed", "record",
              "probe", "cancel"}
Steps == [op : StepNames, must : BOOLEAN]

\* A step that must succeed: when it fails the call ends with its error.
Must(op) == [op |-> op, must |-> TRUE]
\* A step whose failure the handler records or ignores before it goes on.
Try(step) == [step EXCEPT !.must = FALSE]

Check == Must("check")      \* a precondition, or an answer: may end the call
Ref == Must("ref")          \* validate_and_resolve
Link == Must("link")        \* the scoped search for the short hash of a link
Read == Must("read")        \* requests whose answer is not remembered
Fetch == Must("fetch")      \* requests whose answer the name index ingests
Walk == Must("walk")        \* walk_subtree: counted, and ingested
Drop == Must("drop")        \* invalidate_for_mutation of the subject
Change == Must("change")    \* a write that changes the subject's entry
Touch == Must("touch")      \* a write that does not: completion, order
Delete == Must("delete")    \* of the subject
Uproot == Must("uproot")    \* deletion of an ancestor of the subject
Create == Must("create")    \* of nodes below the subject
Settle == Must("settle")    \* apply_footprint, of the writes that were answered
SettleAll == Must("settleAll")  \* apply_footprint, of what was to be written
Keyed == Must("keyed")      \* the idempotency key is looked up
Record == Must("record")    \* and recorded
Probe == Must("probe")      \* probe_upstream_with_retry
CancelAll == Must("cancel") \* CancelRegistry::cancel_all

Tool(kind, programs) == {[kind |-> kind, steps |-> p] : p \in programs}
\* With a reference to resolve first, or at the workspace root.
Scoped(programs) == programs \cup {<<Ref>> \o p : p \in programs}
Writes == {Change, Touch, Delete, Uproot}

-----------------------------------------------------------------------------
(* One node, or one listing.                                                 *)

GetNode == Tool("read", {<<Ref, Fetch>>})
ListChildren == Tool("read", Scoped({<<Read>>}))
Since == Tool("read", {<<Ref, Read>>})

CreateNode ==
  Tool("write", {<<Ref, Check, Drop, Create>>,
                 <<Ref, Keyed, Check, Drop, Create, Record>>,
                 <<Check, Create>>,
                 <<Keyed, Check, Create, Record>>})

EditNode == Tool("write", {<<Ref, Check, Drop, Change>>})
\* The node is dropped, what is below it is not.
DeleteNode ==
  Tool("write", {<<Ref, Drop, Delete>>, <<Ref, Read, Check, Drop, Delete>>,
                 <<Ref, Uproot>>, <<Ref, Read, Check, Uproot>>})
CompleteNode == Tool("write", {<<Ref, Drop, Touch>>})
MoveNode == Tool("write", {<<Ref, Ref, Try(Read), Drop, Change>>})

PathOf == Tool("bulk", {<<Ref, Try(Read)>>})
NodeAtPath == Tool("bulk", Scoped({<<Check, Fetch, Check>>,
                                   <<Check, Fetch, Check, Check, Fetch, Check>>}))

-----------------------------------------------------------------------------
(* Walks. Where the index may answer, the check before the walk may end it.  *)

SearchNodes == Tool("walk", Scoped({<<Check, Walk>>}))
FindNode == Tool("walk", Scoped({<<Check, Walk>>}))
\* The scope of a live tag search is not resolved.
TagSearch == Tool("walk", {<<Walk>>, <<Check>>, <<Check, Ref>>})
GetSubtree == Tool("walk", {<<Ref, Walk>>})
DailyReview == Tool("walk", Scoped({<<Walk>>}))
GetRecentChanges == Tool("walk", Scoped({<<Walk>>}))
ListOverdue == Tool("walk", Scoped({<<Walk>>}))
ListUpcoming == Tool("walk", Scoped({<<Walk>>}))
GetProjectSummary == Tool("walk", {<<Ref, Walk, Check>>})
FindBacklinks == Tool("walk", {<<Ref, Check, Walk>>, <<Ref, Ref, Check, Walk>>})
ListTodos == Tool("walk", Scoped({<<Walk>>}))
FindByTagAndPath == Tool("walk", Scoped({<<Walk>>}))
Review == Tool("walk", {<<Ref, Walk>>, <<Check, Walk>>})
ExportSubtree == Tool("walk", {<<Ref, Check, Walk>>})
\* Its walk is the workflow's own, which nobody counts.
AuditMirrors == Tool("walk", {<<Ref, Fetch>>, <<Check, Fetch>>})
\* Every operation's failure is an entry of the answer.
ReadBatchOp == {Try(Fetch), Try(Walk)}
ReadBatch == Tool("walk", {<<Check, Ref, op>> : op \in ReadBatchOp}
                          \cup {<<Check, Try(Fetch)>>})
ResolveLink ==
  Tool("walk", {<<Check, Fetch>>, <<Check, Link, Fetch>>,
                <<Check, Fetch, Check, Link, Fetch>>, <<Check, Ref, Link, Fetch>>})

SmartInsert == Tool("walk", {<<Check, Walk, Check, Try(Create), Settle>>})

-----------------------------------------------------------------------------
(* Many writes. The subject is one of the nodes written to.                  *)

DuplicateNode == Tool("bulk", {<<Ref, Ref, Read, Create, Settle>>})
CreateFromTemplate == Tool("bulk", {<<Ref, Ref, Read, Create, Settle>>})
BulkUpdate ==
  Tool("bulk", Scoped({<<Check, Walk, Check, Try(w), Settle>> : w \in Writes}))
BatchCreateNodes == Tool("bulk", {<<Check, Try(Create)>>, <<Check, Ref, Try(Create)>>})
Transaction ==
  Tool("bulk", {<<Ref, Try(w), Settle>> : w \in {Change, Delete, Uproot, Create}})
BulkTag == Tool("bulk", {<<Check, Ref, Try(Read)>>,
                         <<Check, Ref, Read, Try(Change), Settle>>})
ReorderNodes ==
  Tool("bulk", {<<Ref, Ref, Check, Try(w), SettleAll>> : w \in {Change, Touch}})
CreateMirror ==
  Tool("bulk", {<<Ref>> \o scope \o rest :
                  scope \in {<<>>, <<Ref>>},
                  rest \in {<<Read>>, <<Check, Read, Create, SettleAll>>,
                            <<Check, Read, Create, Try(Change), SettleAll>>}})

-----------------------------------------------------------------------------
(* Tools outside the wrapper: neither cancel_all nor a budget ends them.     *)

InsertContent == Tool("bare", Scoped({<<Check, Try(Create), Settle>>}))
ConvertMarkdown == Tool("bare", {<<Check>>})
HealthCheck == Tool("bare", {<<Probe>>})
WorkflowyStatus == Tool("bare", {<<Probe>>})
CancelAllTool == Tool("bare", {<<CancelAll>>})
BuildNameIndex == Tool("bare", Scoped({<<Check, Walk>>}))
GetRecentToolCalls == Tool("bare", {<<Check>>})

AllTools == UNION {
  GetNode, ListChildren, Since, CreateNode, EditNode, DeleteNode, CompleteNode,
  MoveNode, PathOf, NodeAtPath, SearchNodes, FindNode, TagSearch, GetSubtree,
  DailyReview, GetRecentChanges, ListOverdue, ListUpcoming, GetProjectSummary,
  FindBacklinks, ListTodos, FindByTagAndPath, Review, ExportSubtree, AuditMirrors,
  ReadBatch, ResolveLink, SmartInsert, DuplicateNode, CreateFromTemplate,
  BulkUpdate, BatchCreateNodes, Transaction, BulkTag, ReorderNodes, CreateMirror,
  InsertContent, ConvertMarkdown, HealthCheck, WorkflowyStatus, CancelAllTool,
  BuildNameIndex, GetRecentToolCalls}
=============================================================================
