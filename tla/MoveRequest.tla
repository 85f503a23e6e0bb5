----------------------------- MODULE MoveRequest -----------------------------
(***************************************************************************)
(* From the body of PUT /clients/:id to the command moveCard obeys: the    *)
(* schema that refuses a body, and the precedence of its positions.        *)
(***************************************************************************)
EXTENDS ClientsTable

CONSTANTS Absent,        \* a field that the body leaves out
          Null           \* JSON null

ASSUME AbsentAssumption == Absent \notin Ids \cup {Null}

Bodies(ids, slots, versions) ==
  [status : Lanes \cup {Absent}, afterId : ids \cup {Absent}, beforeId : ids \cup {Absent},
   priority : slots \cup {Absent}, version : versions \cup {Absent, Null}]

\* z.coerce.number() turns null into 0, which is a version but no id
Version(body) == IF body.version = Null THEN 0 ELSE body.version

\* moveCardBody; what fails is answered 400 by validate and never reaches
\* the controller
Accepted(body) ==
  /\ body.version # Absent
  /\ \/ body.status # Absent
     \/ body.afterId # Absent
     \/ body.beforeId # Absent
     \/ body.priority # Absent
  /\ body.afterId = Absent \/ body.beforeId = Absent

\* resolveNeighbours looks at afterId first, then beforeId, then toPriority
PlaceOf(body) ==
  CASE body.afterId # Absent  -> "after"
    [] body.afterId = Absent /\ body.beforeId # Absent -> "before"
    [] body.afterId = Absent /\ body.beforeId = Absent /\ body.priority # Absent -> "slot"
    [] OTHER -> "end"

\* move: what its place ignores is filled in with the card and with slot 1
CommandOf(id, body) ==
  [card    |-> id,
   version |-> Version(body),
   lane    |-> IF body.status = Absent THEN "same" ELSE body.status,
   place   |-> PlaceOf(body),
   ref     |-> CASE PlaceOf(body) = "after"  -> body.afterId
                 [] PlaceOf(body) = "before" -> body.beforeId
                 [] OTHER -> id,
   slot    |-> IF PlaceOf(body) = "slot" THEN body.priority ELSE 1]

\* every command the API can be made to run
CommandsOf(ids, slots, versions) ==
  {CommandOf(id, body) : id \in ids,
                         body \in {b \in Bodies(ids, slots, versions) : Accepted(b)}}
=============================================================================
