------------------------- MODULE IdempotencyRecords -------------------------
(***************************************************************************)
(* What the critical sections of InMemoryIdempotencyBackend compute on one *)
(* record (src/agentactum/idempotency/backend.py, models.py).  The dict of *)
(* the backend is a function from keys to records in which a missing entry *)
(* is the record Absent.  Timestamps and result_reference are left out:    *)
(* the reference is str(result.execution_id), which the result repeats.    *)
(***************************************************************************)

CONSTANTS
    Keys,       \* idempotency keys
    Tokens,     \* owner tokens that uuid4() may draw
    Results,    \* JSON results a completed record may hold
    None        \* Python's None

Statuses == {"in_progress", "completed"}

Record == [status : Statuses \cup {"absent"},
           owner  : Tokens \cup {None},
           result : Results \cup {None}]

Absent == [status |-> "absent", owner |-> None, result |-> None]

\* @mutant of InProgress: the generator is stored instead of a token it draws.
InProgressStoresGenerator(token) ==
    [status |-> "in_progress", owner |-> "uuid4", result |-> None]

InProgress(token) ==
    [status |-> "in_progress", owner |-> token, result |-> None]

Completed(record, result) ==
    [status |-> "completed", owner |-> record.owner, result |-> result]

(***************************************************************************)
(* One call of the backend.  mark_completed takes a token from its caller: *)
(* claim() shows the owner's token to every thread that observes a record. *)
(***************************************************************************)
Requests ==
    [op : {"claim", "get_record"}, key : Keys, token : {None}, result : {None}]
      \cup
    [op : {"mark_completed"}, key : Keys, token : Tokens, result : Results \cup {None}]

Outcomes == {"acquired", "observed", "found", "completed",
             "KeyError", "IdempotencyOwnershipError"}

Answers == [outcome : Outcomes, record : Record]

(***************************************************************************)
(* Each operator returns the record left in the store and what the caller  *)
(* receives: a return value, or the exception that is raised.              *)
(***************************************************************************)
Effect(record, outcome) ==
    [record |-> record, answer |-> [outcome |-> outcome, record |-> record]]

\* @mutant of claim: an in-progress record is treated as free and taken over.
ClaimTakesOverInProgress(existing, token) ==
    IF existing.status = "completed"
    THEN Effect(existing, "observed")
    ELSE Effect(InProgress(token), "acquired")

claim(existing, token) ==
    IF existing.status # "absent"
    THEN Effect(existing, "observed")
    ELSE Effect(InProgress(token), "acquired")

get_record(existing) == Effect(existing, "found")

\* @mutant of mark_completed: a second completion overwrites the first result.
MarkCompletedOverwrites(existing, token, result) ==
    CASE existing.status = "absent" -> Effect(existing, "KeyError")
      [] existing.status # "absent" /\ existing.owner # token ->
            Effect(existing, "IdempotencyOwnershipError")
      [] OTHER -> Effect(Completed(existing, result), "completed")

\* @mutant of mark_completed: ownership is not checked, the caller becomes owner.
MarkCompletedByAnyone(existing, token, result) ==
    CASE existing.status = "absent" -> Effect(existing, "KeyError")
      [] existing.status = "completed" -> Effect(existing, "completed")
      [] OTHER -> Effect(Completed(InProgress(token), result), "completed")

mark_completed(existing, token, result) ==
    CASE existing.status = "absent" -> Effect(existing, "KeyError")
      [] existing.status # "absent" /\ existing.owner # token ->
            Effect(existing, "IdempotencyOwnershipError")
      [] existing.status = "completed" /\ existing.owner = token ->
            Effect(existing, "completed")
      [] OTHER -> Effect(Completed(existing, result), "completed")

\* The critical section of a request that found `existing` in the dict.
Perform(existing, request, token) ==
    CASE request.op = "claim"      -> claim(existing, token)
      [] request.op = "get_record" -> get_record(existing)
      [] OTHER -> mark_completed(existing, request.token, request.result)
=============================================================================
