------------------------ MODULE TransactionSnapshots ------------------------
(***************************************************************************)
(* Transaction snapshots and their transitions                             *)
(* (src/agentactum/transactions/models.py).  A snapshot is immutable:      *)
(* transition() returns a new one or raises, and knows nothing of other    *)
(* holders of the old one.  Intents are left out (transition() copies      *)
(* them), a reason is whether one is given.                                *)
(***************************************************************************)
EXTENDS Naturals, Sequences

CONSTANTS
    Approvals,      \* ids of approval requests
    Times,          \* points in time, natural numbers
    created_at,     \* when the transaction was created
    None

Statuses ==
    {"proposed", "validating", "awaiting_approval", "approved", "executing", "committed",
     "rejected", "failed", "compensating", "compensated", "partially_compensated"}

\* @mutant of LEGAL_TRANSACTION_TRANSITIONS: a failed transaction may still be
\* compensated.
TableReopensFailed ==
    [s \in Statuses |->
        CASE s = "proposed"          -> {"validating", "rejected"}
          [] s = "validating"        -> {"awaiting_approval", "approved", "rejected", "failed"}
          [] s = "awaiting_approval" -> {"approved", "rejected", "failed"}
          [] s = "approved"          -> {"executing", "rejected", "failed"}
          [] s = "executing"         -> {"committed", "failed", "compensating"}
          [] s = "failed"            -> {"compensating"}
          [] s = "compensating"      -> {"compensated", "partially_compensated", "failed"}
          [] OTHER                   -> {}]

LEGAL_TRANSACTION_TRANSITIONS ==
    [s \in Statuses |->
        CASE s = "proposed"          -> {"validating", "rejected"}
          [] s = "validating"        -> {"awaiting_approval", "approved", "rejected", "failed"}
          [] s = "awaiting_approval" -> {"approved", "rejected", "failed"}
          [] s = "approved"          -> {"executing", "rejected", "failed"}
          [] s = "executing"         -> {"committed", "failed", "compensating"}
          [] s = "compensating"      -> {"compensated", "partially_compensated", "failed"}
          [] OTHER                   -> {}]

\* @mutant of terminal_in_transition: a member is missing.
TerminalForgetsPartial == {"committed", "rejected", "failed", "compensated"}

\* The set `terminal' of transition().
terminal_in_transition ==
    {"committed", "rejected", "failed", "compensated", "partially_compensated"}

\* The set `terminal' of validate_state(), which the source writes out again.
terminal_in_validate_state ==
    {"committed", "rejected", "failed", "compensated", "partially_compensated"}

reason_required == {"rejected", "failed", "partially_compensated"}

Transaction ==
    [status : Statuses, updated_at : Times, completed_at : Times \cup {None},
     approval_request_ids : Seq(Approvals), status_reason : BOOLEAN]

IsUnique(ids) == \A i, j \in DOMAIN ids : ids[i] = ids[j] => i = j

validate_state(txn) ==
    /\ IsUnique(txn.approval_request_ids)
    /\ txn.updated_at >= created_at
    /\ txn.status = "awaiting_approval" => txn.approval_request_ids # <<>>
    /\ txn.status \in reason_required => txn.status_reason
    /\ IF txn.status \in terminal_in_validate_state
       THEN txn.completed_at # None /\ txn.completed_at >= txn.updated_at
       ELSE txn.completed_at = None

(***************************************************************************)
(* The arguments of transition(): updated_at is what the caller gives or   *)
(* else the time of the call, None stands for an argument left out.        *)
(***************************************************************************)
Arguments(ids) ==
    [updated_at : Times, approval_request_ids : ids \cup {None},
     status_reason : BOOLEAN, completed_at : Times \cup {None}]

\* The snapshot that transition() builds and then validates.
Successor(txn, status, args) ==
    [status |-> status,
     updated_at |-> args.updated_at,
     completed_at |->
        IF status \in terminal_in_transition /\ args.completed_at = None
        THEN args.updated_at ELSE args.completed_at,
     approval_request_ids |->
        IF args.approval_request_ids = None
        THEN txn.approval_request_ids ELSE args.approval_request_ids,
     status_reason |-> args.status_reason]

\* @mutant of transition: legality is left to the validator.
TransitionUnchecked(txn, status, args) ==
    {next \in {Successor(txn, status, args)} : validate_state(next)}

\* What transition() returns: one snapshot, or none when it raises.
transition(txn, status, args) ==
    IF status \in LEGAL_TRANSACTION_TRANSITIONS[txn.status]
    THEN {next \in {Successor(txn, status, args)} : validate_state(next)}
    ELSE {}
=============================================================================
