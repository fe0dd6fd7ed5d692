-------------------------------- MODULE Audit --------------------------------
(* The audit of the mirror convention (audit.rs), its scope and what it        *)
(* resolves outside it (workflows.rs, server/mod.rs), over an outline that     *)
(* changes and an index that may lag behind it.                                *)
EXTENDS FiniteSets

CONSTANTS
  Notes,      \* ids
  Canonicals, \* of them, the ones that claim to be canonical at first
  Twins,      \* ids that share their first eight characters
  Claims,     \* names without their trailing tags, each a set of words
  Tags,       \* trailing tags, each a set of words
  Lost        \* in the place of a note that is gone, a name not known

VARIABLES
  notes,    \* id -> [claim, tags, marked, target], or Lost
  recorded, \* id -> its name in the index, without its tags, or Lost
  collided  \* the prefix of the twins has counted two of them in this index

auditVars == <<notes, recorded, collided>>

ASSUME AuditConstants ==
  Canonicals \subseteq Notes /\ Twins \subseteq Notes /\ Lost \notin Claims

-----------------------------------------------------------------------------
(* Markers and names.                                                          *)

\* mirror_of names an id in full, by its last twelve characters or its first eight.
Forms == {"full", "url", "doc"}
Alive == {n \in Notes : notes[n] # Lost}
Mirrors(scope) == {n \in scope : notes[n].target # Lost}

SamePrefix(a, b) == a = b \/ {a, b} \subseteq Twins

\* Mutant: a short hash is the end of an id.
EndMatch(id, t) == t.of = id /\ t.form # "doc"
\* id_match
IdMatch(id, t) == IF t.form = "doc" THEN SamePrefix(id, t.of) ELSE t.of = id

\* Mutant: the whole name.
WholeName(n) == notes[n].claim \cup notes[n].tags
\* strip_trailing_tags
Stripped(n) == notes[n].claim
\* A name contains another when it has its words.
Diverges(a, b) == ~(a \subseteq b) /\ ~(b \subseteq a)

(* Resolution outside the scope.                                               *)

\* extract_unresolved_mirror_targets: the end of an id settles it, a prefix never.
Unresolved(scope) ==
  {t \in {notes[m].target : m \in Mirrors(scope)} : ~\E n \in scope : EndMatch(n, t)}

Recorded(t) == {id \in Notes : recorded[id] # Lost /\ IdMatch(id, t)}
\* A prefix is of no entry once two had it, though only one may be left: what is
\* removed from a count above one is not counted down (remove_locked).
Refused(t) == t.form = "doc" /\ t.of \in Twins /\ collided
\* lookup_entry_by_id, then resolve_short_hash: one entry at most, for a prefix that
\* is not refused has not two.
Resolved(t) == IF Refused(t) THEN {} ELSE Recorded(t)
\* audit_mirrors_external_canonicals
External(scope) == UNION {Resolved(t) : t \in Unresolved(scope)}

(* Findings.                                                                   *)

\* About a mirror whose canonical is c, in scope.
AboutPair(m, c) ==
  {k \in {"DRIFTED", "ORPHAN"} :
     \/ k = "DRIFTED" /\ Diverges(Stripped(m), Stripped(c))
     \/ k = "ORPHAN" /\ ~notes[c].marked}
\* Out of scope; the marker of an entry of the index is not known.
AboutEntry(m, c) == {k \in {"DRIFTED"} : Diverges(Stripped(m), recorded[c])}

\* What may be found of a mirror: which of several matches is taken is the order
\* of a hash map.
Found(m, scope) ==
  LET t == notes[m].target
      near == {c \in scope : IdMatch(c, t)}
      far == {c \in External(scope) : IdMatch(c, t)}
  IN IF near # {} THEN {AboutPair(m, c) : c \in near}
     ELSE IF far # {} THEN {AboutEntry(m, c) : c \in far}
     ELSE {{"BROKEN"}}

Lonely(scope) == {c \in scope : notes[c].marked
                                /\ ~\E m \in Mirrors(scope) : IdMatch(c, notes[m].target)}

-----------------------------------------------------------------------------
(* The outline and the index.                                                  *)

\* Each note that is no canonical mirrors one, with its name.
AuditInit ==
  /\ recorded = [n \in Notes |-> Lost]
  /\ collided = FALSE
  /\ \E claim \in [Canonicals -> Claims], tags \in [Notes -> Tags],
        target \in [Notes \ Canonicals -> [form : Forms, of : Canonicals]] :
       notes = [n \in Notes |->
                  IF n \in Canonicals
                  THEN [claim |-> claim[n], tags |-> tags[n], marked |-> TRUE, target |-> Lost]
                  ELSE [claim |-> claim[target[n].of], tags |-> tags[n], marked |-> FALSE,
                        target |-> target[n]]]

Rename(n, claim) == notes' = [notes EXCEPT ![n].claim = claim] /\ UNCHANGED <<recorded, collided>>
Retag(n, tags) == notes' = [notes EXCEPT ![n].tags = tags] /\ UNCHANGED <<recorded, collided>>
Disclaim(n) == notes' = [notes EXCEPT ![n].marked = FALSE] /\ UNCHANGED <<recorded, collided>>
Discard(n) == notes' = [notes EXCEPT ![n] = Lost] /\ UNCHANGED <<recorded, collided>>
Learn(n) ==
  /\ recorded' = [recorded EXCEPT ![n] = notes[n].claim]
  /\ collided' = (collided \/ (n \in Twins /\ \E o \in Twins \ {n} : recorded[o] # Lost))
  /\ UNCHANGED notes
Unlearn(n) == recorded' = [recorded EXCEPT ![n] = Lost] /\ UNCHANGED <<notes, collided>>
\* A new process counts what it loads.
Reload ==
  /\ collided' = (\E n, o \in Twins : n # o /\ recorded[n] # Lost /\ recorded[o] # Lost)
  /\ UNCHANGED <<notes, recorded>>

AuditNext ==
  \/ Reload
  \/ \E n \in Notes :
       \/ Unlearn(n)
       \/ /\ n \in Alive
          /\ \/ \E claim \in Claims : Rename(n, claim)
             \/ \E tags \in Tags : Retag(n, tags)
             \/ Disclaim(n) \/ Discard(n) \/ Learn(n)

AuditSpec == AuditInit /\ [][AuditNext]_auditVars

-----------------------------------------------------------------------------
(* Properties.                                                                 *)

\* A mirror with the name of its canonical, whatever its tags, is found at fault in
\* nothing when its marker is of the canonical alone and that is marked and in
\* scope, or out of it and recorded under its name by an index that has not refused
\* the marker; BROKEN means that no note of the scope is meant, and no single entry
\* of the index either unless its prefix once collided; a canonical that a mirror of
\* the scope points at is not lonely.
FindingsAreFair ==
  \A scope \in SUBSET Alive : \A m \in Mirrors(scope) :
    LET t == notes[m].target
        c == t.of
        meant == {n \in scope : IdMatch(n, t)}
    IN /\ meant = {c} /\ notes[c].marked /\ notes[c].claim = notes[m].claim
            => Found(m, scope) = {{}}
       /\ (/\ meant = {} /\ Recorded(t) = {c} /\ ~Refused(t)
           /\ recorded[c] = notes[m].claim)
            => Found(m, scope) = {{}}
       /\ {"BROKEN"} \in Found(m, scope) =>
            meant = {} /\ (Cardinality(Recorded(t)) # 1 \/ Refused(t))
       /\ c \notin Lonely(scope)
=============================================================================
