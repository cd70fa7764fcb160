------------------------- MODULE TransactionHolders -------------------------
(***************************************************************************)
(* The snapshots of one transaction in the hands of a host program.  A     *)
(* holder is a variable of the host, in any thread: it is bound to a       *)
(* snapshot, copied, rebound and dropped.  transition() leaves the old     *)
(* snapshot as it is (models.py:96-133), so whoever still holds it can     *)
(* move the transaction on from there, and nothing in the package keeps    *)
(* track of who holds what.                                                *)
(***************************************************************************)
EXTENDS TransactionSnapshots

CONSTANTS
    Holders,
    ApprovalLists   \* the tuples a caller may pass as approval_request_ids

ASSUME TimesAssumption == Times \subseteq Nat /\ created_at \in Times

ASSUME ApprovalListsAssumption == ApprovalLists \subseteq Seq(Approvals)

ASSUME NoneIsNoArgument == None \notin Times /\ None \notin ApprovalLists

ASSUME NoneIsNoSnapshot == None \notin Transaction

\* A caller has an approval request to pass.
ASSUME ApprovalCanBeRequested ==
    \E ids \in ApprovalLists :
        ids # <<>> /\ \A i, j \in DOMAIN ids : ids[i] = ids[j] => i = j

VARIABLES
    held,           \* [Holders -> the snapshot a holder is bound to, or None]
    path,           \* history: the statuses a held snapshot has gone through
    shared,         \* history: the transaction was moved on with another snapshot held
    outcomes        \* history: how often it came to a terminal status, counted to two

vars == <<held, path, shared, outcomes>>

TypeOK ==
    /\ held \in [Holders -> Transaction \cup {None}]
    /\ path \in [Holders -> SUBSET Statuses]
    /\ shared \in BOOLEAN
    /\ outcomes \in 0..2

Init ==
    /\ held = [h \in Holders |-> None]
    /\ path = [h \in Holders |-> {}]
    /\ shared = FALSE
    /\ outcomes = 0

\* Snapshots a caller may construct, of which the validator refuses some.
Snapshots ==
    [status : Statuses, updated_at : Times, completed_at : Times \cup {None},
     approval_request_ids : ApprovalLists, status_reason : BOOLEAN]

\* Transaction(...), proposed or restored in a later status
Create(h, txn) ==
    /\ \A g \in Holders : held[g] = None
    /\ validate_state(txn)
    /\ held' = [held EXCEPT ![h] = txn]
    /\ path' = [path EXCEPT ![h] = {txn.status}]
    /\ shared' = FALSE
    /\ outcomes' = IF txn.status \in terminal_in_validate_state THEN 1 ELSE 0

\* g = h.transition(status, ...), where g may be h; a call that raises changes
\* nothing.
Transition(h, g, status, args) ==
    /\ held[h] # None
    /\ \E next \in transition(held[h], status, args) :
          /\ held' = [held EXCEPT ![g] = next]
          /\ path' = [path EXCEPT ![g] = path[h] \cup {status}]
          /\ outcomes' = IF status \in terminal_in_validate_state /\ outcomes < 2
                         THEN outcomes + 1 ELSE outcomes
    /\ shared' = (shared \/ \E f \in Holders \ {g} : held[f] # None)

\* g = h
Copy(h, g) ==
    /\ held[h] # None
    /\ held' = [held EXCEPT ![g] = held[h]]
    /\ path' = [path EXCEPT ![g] = path[h]]
    /\ UNCHANGED <<shared, outcomes>>

Drop(h) ==
    /\ held[h] # None
    /\ held' = [held EXCEPT ![h] = None]
    /\ path' = [path EXCEPT ![h] = {}]
    /\ UNCHANGED <<shared, outcomes>>

Next ==
    \E h \in Holders :
        \/ \E txn \in Snapshots : Create(h, txn)
        \/ \E g \in Holders, status \in Statuses, args \in Arguments(ApprovalLists) :
              Transition(h, g, status, args)
        \/ \E g \in Holders : Copy(h, g)
        \/ Drop(h)

Spec == Init /\ [][Next]_vars

-----------------------------------------------------------------------------
(***************************************************************************)
(* Terminal states do not reopen (INV-TXN-06): whatever transitions and    *)
(* handovers a snapshot went through, only its last status is terminal.    *)
(***************************************************************************)
TerminalStatesStay ==
    \A h \in Holders :
        held[h] # None => path[h] \cap terminal_in_validate_state \subseteq {held[h].status}

(***************************************************************************)
(* "Single commit owner" (INV-TXN-03), as far as the code goes: handed     *)
(* about and copied in any way, a transaction has at most one outcome      *)
(* unless it was moved on while a second snapshot of it was held, in which *)
(* case two holders can commit it, or one commit and one fail it           *)
(* (models.py:96-133).                                                     *)
(***************************************************************************)
OneOutcomeUnlessShared == shared \/ outcomes < 2

(***************************************************************************)
(* Table and validator agree: from every snapshot a holder can reach, each *)
(* legal move succeeds with a reason, an approval request where one is     *)
(* needed and no other argument, so no transaction is stranded.            *)
(***************************************************************************)
LegalMovesSucceed ==
    \A h \in Holders : held[h] # None =>
        \A status \in LEGAL_TRANSACTION_TRANSITIONS[held[h].status] :
            \E ids \in ApprovalLists \cup {None} :
                transition(held[h], status,
                    [updated_at |-> held[h].updated_at, approval_request_ids |-> ids,
                     status_reason |-> TRUE, completed_at |-> None]) # {}
=============================================================================
