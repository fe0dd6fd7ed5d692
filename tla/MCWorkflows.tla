----------------------------- MODULE MCWorkflows -----------------------------
(* a has the children b and c, b has d; e is beside a.                      *)
EXTENDS Workflows, TLC

CONSTANTS a, b, c, d, e

MCOld == {a, b, c, d, e}
MCKids0 == Top :> <<a, e>> @@ a :> <<b, c>> @@ b :> <<d>> @@ c :> <<>> @@ d :> <<>>
           @@ e :> <<>> @@ Foreign :> <<>>

\* Deeper than the line before by one or by two, back up by one or by two.
Payloads == {<<>>, <<0, 1, 0, 2>>, <<0, 1, 2, 1>>, <<2, 2, 1, 0>>, <<0, 0, 0>>, <<0, 0, 0, 0, 0>>}
Inserts == [kind : {"insert"}, parent : {a, Top}, lines : Payloads]
Lists == {<<>>, <<c, b>>, <<c, b, e>>, <<e, d, c>>, <<e, e>>, <<a, b>>, <<b, c, d, e>>}
Reorders == [kind : {"reorder"}, parent : {a}, ids : Lists]
Copies == [kind : {"copy"}, source : {a}, target : {e, b}, whole : BOOLEAN]
Bulks == [kind : {"bulk"}, op : {"delete", "complete", "uncomplete", "add_tag", "remove_tag"},
          tag : BOOLEAN,
          ids : {<<>>, <<a, b>>}]
Mirrors == [kind : {"mirror"}, canonical : {b, c}, target : {e, c}, pillar : BOOLEAN]

MCJobs == Inserts \cup Reorders \cup Copies \cup Bulks \cup Mirrors
=============================================================================
