------------------------------ MODULE Reports -------------------------------
(* The reports over a walk: overdue, upcoming, recent changes, todos, project  *)
(* summary, daily review (utils/aggregation.rs, date_parser.rs), while the     *)
(* outline is edited and time passes.                                          *)
EXTENDS Lists, FiniteSets, SequencesExt, FiniteSetsExt

CONSTANTS
  Items,        \* the nodes of the outline
  Texts,        \* the names and notes, as the dates in them
  FirstDay, LastDay,
  Horizon,        \* days of list_upcoming
  Back,         \* days of recent changes and of staleness
  Cap           \* the longest list of a daily review

VARIABLES
  outline,   \* node -> what upstream holds of it
  now        \* Unix time, in seconds

reportVars == <<outline, now>>

DaySeconds == 86400
NoDate == -1    \* no date where one is looked for
Invalid == -2   \* digits of the right shape that are no date
Undue == <<NoDate, NoDate, NoDate>>

\* A text is what the patterns due:D, #due-D and a bare D first find in it.
ASSUME ReportConstants ==
  /\ Texts \subseteq [1 .. 3 -> Nat \cup {NoDate, Invalid}]
  /\ IsFiniteSet(Items)
  /\ {FirstDay, LastDay, Horizon, Back, Cap} \subseteq Nat

-----------------------------------------------------------------------------
(* One node of a walk.                                                         *)

\* parse_due_date: the first of the three patterns that is a date.
DueIn(text) ==
  LET dated == {p \in 1 .. 3 : text[p] >= 0}
  IN IF dated = {} THEN NoDate ELSE text[Min(dated)]
\* The name before the note.
DueOf(n) == IF DueIn(n.name) # NoDate THEN DueIn(n.name) ELSE DueIn(n.note)

IsOpen(n) == ~n.done

(* The lists. A walk is a sequence of nodes.                                   *)

Shown(n, completedToo) == (completedToo \/ IsOpen(n)) /\ DueOf(n) # NoDate
SoonestFirst(s) == SortedBy(s, [n \in ToSet(s) |-> DueOf(n)])
NewestFirst(s) == SortedBy(s, [n \in ToSet(s) |-> -n.modified])
Truncated(s, limit) == SubSeq(s, 1, Min({limit, Len(s)}))

Late(walk, today, completedToo) ==
  {n \in ToSet(walk) : Shown(n, completedToo) /\ DueOf(n) < today}
\* Mutant: a node is overdue on the day it is due.
OverdueToday(walk, today, completedToo) ==
  SoonestFirst(Keep(walk, Late(walk, today + 1, completedToo)))
Overdue(walk, today, completedToo) == SoonestFirst(Keep(walk, Late(walk, today, completedToo)))

Upcoming(walk, today, days, completedToo) ==
  SoonestFirst(Keep(walk, {n \in ToSet(walk) : /\ Shown(n, completedToo)
                                              /\ DueOf(n) \in today .. today + days}))

\* The cutoff in milliseconds, the timestamps as the API sends them.
Recent(walk, nowMs, hours, limit) ==
  LET changed == {n \in ToSet(walk) : n.modified >= nowMs - hours * 3600 * 1000}
  IN Truncated(NewestFirst(Keep(walk, changed)), limit)

OfStatus(n, status) == CASE status = "pending" -> IsOpen(n)
                         [] status = "completed" -> n.done
                         [] OTHER -> TRUE
\* The query and the tag are the nodes that match them.
TodoList(walk, status, matching, limit) ==
  Truncated(Keep(walk, {n \in ToSet(walk) : n.todo /\ OfStatus(n, status) /\ n.id \in matching}),
            limit)
BulkCandidates(walk, matching, status, limit) ==
  Truncated(Keep(walk, {n \in ToSet(walk) : n.id \in matching /\ OfStatus(n, status)}), limit)

(* The summaries count over the whole walk.                                    *)

CountOf(walk, T) == Cardinality({i \in DOMAIN walk : walk[i] \in T})

\* is_overdue
IsOverdue(n, today) == IsOpen(n) /\ DueOf(n) # NoDate /\ DueOf(n) < today

Summary(walk, today, nowMs) ==
  LET nodes == ToSet(walk)
      changed == {n \in nodes : n.modified > nowMs - Back * DaySeconds * 1000}
  IN [todos |-> CountOf(walk, {n \in nodes : n.todo}),
      completed |-> CountOf(walk, {n \in nodes : n.todo /\ n.done}),
      hasDue |-> CountOf(walk, {n \in nodes : DueOf(n) # NoDate}) > 0,
      overdue |-> CountOf(walk, {n \in nodes : IsOverdue(n, today)}),
      recent |-> Truncated(NewestFirst(Keep(walk, changed)), 20)]

\* overdue_count is the length of the list after its truncation.
Daily(walk, today, nowMs) ==
  LET nodes == ToSet(walk)
      changed == {n \in nodes : n.modified > nowMs - Back * DaySeconds * 1000}
      overdue == Truncated(Overdue(walk, today, FALSE), Cap)
  IN [overdue |-> overdue,
      dueSoon |-> Truncated(Upcoming(walk, today, Horizon, FALSE), Cap),
      recent |-> Recent(walk, nowMs, Back * 24, Cap),
      topPending |-> TodoList(walk, "pending", Items, Cap),
      pending |-> CountOf(walk, {n \in nodes : n.todo /\ IsOpen(n)}),
      overdueCount |-> Len(overdue),
      dueToday |-> CountOf(walk, {n \in nodes : IsOpen(n) /\ DueOf(n) = today}),
      modifiedToday |-> CountOf(walk, changed)]

-----------------------------------------------------------------------------
(* The outline and the clock.                                                  *)

Fresh == [name : Texts, note : Texts, todo : BOOLEAN, done : {FALSE}, modified : {now}]

ReportsInit ==
  /\ now = FirstDay * DaySeconds
  /\ outline \in [Items -> Fresh]

Check(id) ==
  outline' = [outline EXCEPT ![id].done = ~@, ![id].modified = now] /\ UNCHANGED now

Retext(id, name) ==
  outline' = [outline EXCEPT ![id].name = name, ![id].modified = now] /\ UNCHANGED now

HalfDay ==
  /\ now < LastDay * DaySeconds
  /\ now' = now + DaySeconds \div 2
  /\ UNCHANGED outline

ReportsNext == \/ \E id \in Items : Check(id) \/ \E t \in Texts : Retext(id, t)
               \/ HalfDay

ReportSpec == ReportsInit /\ [][ReportsNext]_reportVars

ReportsTypeOK ==
  /\ outline \in [Items -> [name : Texts, note : Texts, todo : BOOLEAN, done : BOOLEAN,
                            modified : Nat]]
  /\ now \in Nat

-----------------------------------------------------------------------------
(* Properties.                                                                 *)

NodeOf(id) == [id |-> id, name |-> outline[id].name, note |-> outline[id].note,
               todo |-> outline[id].todo, done |-> outline[id].done,
               modified |-> outline[id].modified]
\* A walk may list the outline in any order.
Walks == {[i \in DOMAIN s |-> NodeOf(s[i])] : s \in SetToSeqs(Items)}
IdsIn(s) == {s[i].id : i \in DOMAIN s}
Everything == Cardinality(Items)

\* What the reports over one walk have in common.
Agree(walk, today, ms) ==
  LET overdue == Overdue(walk, today, FALSE)
      upcoming == Upcoming(walk, today, Horizon, FALSE)
      later == {id \in Items : IsOpen(NodeOf(id)) /\ DueOf(NodeOf(id)) > today + Horizon}
      daily == Daily(walk, today, ms)
      summary == Summary(walk, today, ms)
  IN /\ {id \in Items : IsOpen(NodeOf(id)) /\ DueOf(NodeOf(id)) # NoDate}
          = IdsIn(overdue) \cup IdsIn(upcoming) \cup later
     /\ IdsIn(overdue) \cap (IdsIn(upcoming) \cup later) = {}
     /\ IdsIn(upcoming) \cap later = {}
     /\ summary.overdue = Len(overdue)
     /\ daily.overdueCount = Min({Cap, Len(overdue)})
     /\ daily.dueToday = Len(Upcoming(walk, today, 0, FALSE))
     /\ daily.pending = Len(TodoList(walk, "pending", Items, Everything))
     /\ summary.todos - summary.completed = daily.pending
     /\ summary.completed = Len(TodoList(walk, "completed", Items, Everything))
     /\ \A status \in {"pending", "completed"} :
          IdsIn(TodoList(walk, status, Items, Everything))
            = {id \in IdsIn(BulkCandidates(walk, Items, status, Everything)) : NodeOf(id).todo}
     /\ \A i \in DOMAIN overdue :
          overdue[i].id \notin IdsIn(daily.overdue) =>
            \A j \in DOMAIN daily.overdue : DueOf(daily.overdue[j]) <= DueOf(overdue[i])

\* The reports tell one story: a node that is open and dated is in exactly one of
\* overdue, upcoming and later, whichever report is asked; the counts of the two
\* summaries are the lengths of the lists, the daily review's up to its cap; what a
\* cap drops is no more urgent than what it keeps.
ReportsAgree == \A walk \in Walks : Agree(walk, now \div DaySeconds, now * 1000)

\* A node edited within the last Back days is among the recent changes of a list
\* long enough to hold every node.
RecentChangesFound ==
  \A walk \in Walks :
    {id \in Items : outline[id].modified >= now - Back * DaySeconds}
      \subseteq IdsIn(Recent(walk, now * 1000, Back * 24, Everything))
=============================================================================
