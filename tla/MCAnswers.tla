----------------------------- MODULE MCAnswers ------------------------------
(* What a caller is told, by topic: what a name or a hash resolves to, the     *)
(* reports, the paths and exclusions, the audit, the warnings of the server,   *)
(* the exit status of a command.                                               *)
EXTENDS NameIndex, Reports, Ancestry, Audit, Health, CommandLine, TLC

CONSTANTS
  Topics,
  a, b, x, y, z, u, c1, c2, m1, g, w

VARIABLE topic

\* x and y share the 8-character prefix, x and z the 12-character suffix, u is no
\* UUID.  Two contents under one key differ in description and timestamp.
MCIds == {x, y, z, u}
MCKeys == {"k1", "k2"}
MCHashes == {"h1", "h2"}
MCShort == x :> "h1" @@ y :> "h2" @@ z :> "h1" @@ u :> NoHash
MCPrefix == x :> "h1" @@ y :> "h1" @@ z :> "h2" @@ u :> NoHash
MCContents ==
  {[key |-> "k1", desc |-> "none", ts |-> 1],
   [key |-> "k1", desc |-> "text", ts |-> NoTime],
   [key |-> "k2", desc |-> "none", ts |-> 1]}

MCItems == {a, b}
MCTexts == {Undue, <<3, NoDate, 3>>, <<Invalid, 2, Invalid>>}
MCPoints == {x, y, z, u}
MCNotes == {c1, c2, m1}
MCClaims == {{"x"}, {"z"}}
MCTags == {{"#a"}, {"#b"}}

\* A topic that is not the run's stays at one of its initial states.
AnswersInit ==
  /\ topic \in Topics
  /\ Init
  /\ IF topic = "reports" THEN ReportsInit
     ELSE now = FirstDay * DaySeconds /\ outline = [i \in Items |-> CHOOSE e \in Fresh : TRUE]
  /\ AncestryInit /\ HealthInit
  /\ IF topic = "audit" THEN AuditInit
     ELSE /\ recorded = [n \in Notes |-> Lost] /\ notes = [n \in Notes |-> Lost]
          /\ collided = FALSE
  /\ IF topic = "commands" THEN CliInit
     ELSE /\ cmd = "status" /\ steps = <<>> /\ walk = "none" /\ left = 0 /\ sent = 0
          /\ missed = 0 /\ refused = FALSE /\ exit = Running

AnswersNext ==
  /\ UNCHANGED topic
  /\ \/ topic = "index" /\ Next
        /\ UNCHANGED <<reportVars, ancestryVars, auditVars, healthVars, cliVars>>
     \/ topic = "reports" /\ ReportsNext
        /\ UNCHANGED <<vars, ancestryVars, auditVars, healthVars, cliVars>>
     \/ topic = "ancestry" /\ AncestryNext
        /\ UNCHANGED <<vars, reportVars, auditVars, healthVars, cliVars>>
     \/ topic = "audit" /\ AuditNext
        /\ UNCHANGED <<vars, reportVars, ancestryVars, healthVars, cliVars>>
     \/ topic = "health" /\ HealthNext
        /\ UNCHANGED <<vars, reportVars, ancestryVars, auditVars, cliVars>>
     \/ topic = "commands" /\ CliNext
        /\ UNCHANGED <<vars, reportVars, ancestryVars, auditVars, healthVars>>

AnswersSpec ==
  AnswersInit
  /\ [][AnswersNext]_<<topic, vars, reportVars, ancestryVars, auditVars, healthVars, cliVars>>
=============================================================================
