-------------------------- MODULE TransactionProofs --------------------------
(***************************************************************************)
(* Proofs about TransactionHolders for any number of holders, points in    *)
(* time and approval requests.                                             *)
(***************************************************************************)
EXTENDS TransactionHolders, TLAPS

\* Whatever is held went through the validator, and its path ends with it.
Validated ==
    \A h \in Holders : held[h] # None => validate_state(held[h]) /\ held[h].status \in path[h]

(***************************************************************************)
(* Until the transaction is shared, all that hold it hold the same         *)
(* snapshot, which is the outcome when there was one.                      *)
(***************************************************************************)
OneLineage ==
    ~shared =>
        /\ \A g, h \in Holders : held[g] # None /\ held[h] # None => held[g] = held[h]
        /\ outcomes < 2
        /\ outcomes = 1 =>
              \A h \in Holders : held[h] # None => held[h].status \in terminal_in_validate_state

TInv ==
    /\ TypeOK
    /\ Validated
    /\ TerminalStatesStay
    /\ OneLineage

-----------------------------------------------------------------------------
\* A status that is terminal has no legal successor.
LEMMA TerminalsHaveNoMoves ==
    ASSUME NEW status \in terminal_in_validate_state
    PROVE  LEGAL_TRANSACTION_TRANSITIONS[status] = {}
BY DEF terminal_in_validate_state, LEGAL_TRANSACTION_TRANSITIONS, Statuses

\* What a successful transition() yields.
LEMMA TransitionYields ==
    ASSUME NEW txn \in Transaction, NEW status \in Statuses,
           NEW args \in Arguments(ApprovalLists), NEW next \in transition(txn, status, args)
    PROVE  /\ next \in Transaction /\ validate_state(next) /\ next.status = status
           /\ status \in LEGAL_TRANSACTION_TRANSITIONS[txn.status]
           /\ txn.status \notin terminal_in_validate_state
<1>1. /\ next = Successor(txn, status, args) /\ validate_state(next)
      /\ status \in LEGAL_TRANSACTION_TRANSITIONS[txn.status]
    BY DEF transition
<1>2. PICK ids \in Seq(Approvals) :
          ids = IF args.approval_request_ids = None
                THEN txn.approval_request_ids ELSE args.approval_request_ids
    BY ApprovalListsAssumption DEF Transaction, Arguments
<1>3. PICK time \in Times \cup {None} :
          time = IF status \in terminal_in_transition /\ args.completed_at = None
                 THEN args.updated_at ELSE args.completed_at
    BY DEF Arguments
<1>4. args.updated_at \in Times /\ args.status_reason \in BOOLEAN
    BY DEF Arguments
<1>5. next = [status |-> status, updated_at |-> args.updated_at, completed_at |-> time,
              approval_request_ids |-> ids, status_reason |-> args.status_reason]
    BY <1>1, <1>2, <1>3 DEF Successor
<1>6. next \in Transaction /\ next.status = status
    BY <1>4, <1>5 DEF Transaction
<1>7. txn.status \notin terminal_in_validate_state
    BY <1>1, TerminalsHaveNoMoves
<1> QED BY <1>1, <1>6, <1>7

\* A snapshot a caller constructs has the type of one.
LEMMA SnapshotsTyped == Snapshots \subseteq Transaction
BY ApprovalListsAssumption DEF Snapshots, Transaction

-----------------------------------------------------------------------------
\* Nobody holds a snapshot yet.
LEMMA InitTInv == Init => TInv
<1> SUFFICES ASSUME Init PROVE TInv
    OBVIOUS
<1>1. \A h \in Holders : held[h] = None
    BY DEF Init
<1>2. TypeOK
    <2>1. held \in [Holders -> Transaction \cup {None}] /\ path \in [Holders -> SUBSET Statuses]
        BY DEF Init
    <2>2. shared \in BOOLEAN
        BY Zenon DEF Init
    <2>3. outcomes \in 0..2
        BY DEF Init
    <2> QED BY <2>1, <2>2, <2>3, Zenon DEF TypeOK
<1>3. Validated /\ TerminalStatesStay
    BY <1>1 DEF Validated, TerminalStatesStay
<1>4. OneLineage
    BY <1>1 DEF Init, OneLineage
<1> QED BY <1>2, <1>3, <1>4 DEF TInv

\* A snapshot is constructed.
LEMMA CreateInv ==
    ASSUME TInv, NEW h \in Holders, NEW txn \in Snapshots, Create(h, txn)
    PROVE  TInv'
<1>1. /\ txn \in Transaction /\ txn.status \in Statuses
      /\ validate_state(txn) /\ shared' = FALSE
      /\ outcomes' = IF txn.status \in terminal_in_validate_state THEN 1 ELSE 0
    BY SnapshotsTyped DEF Create, Transaction
<1>2. \A g \in Holders : /\ held'[g] = IF g = h THEN txn ELSE None
                         /\ g = h => path'[g] = {txn.status}
    BY DEF TInv, TypeOK, Create
<1>3. TypeOK'
    <2>1. held' \in [Holders -> Transaction \cup {None}]
        BY <1>1 DEF TInv, TypeOK, Create
    <2>2. path' \in [Holders -> SUBSET Statuses]
        BY <1>1 DEF TInv, TypeOK, Create
    <2>3. shared' \in BOOLEAN
        BY <1>1, Zenon
    <2>4. outcomes' \in 0..2
        BY <1>1
    <2> QED BY <2>1, <2>2, <2>3, <2>4, Zenon DEF TypeOK
<1>4. Validated' /\ TerminalStatesStay'
    BY <1>1, <1>2 DEF Validated, TerminalStatesStay
<1>5. OneLineage'
    BY <1>1, <1>2 DEF OneLineage
<1> QED BY <1>3, <1>4, <1>5 DEF TInv

\* The transaction is moved on.
LEMMA TransitionInv ==
    ASSUME TInv, NEW h \in Holders, NEW g \in Holders, NEW status \in Statuses,
           NEW args \in Arguments(ApprovalLists), Transition(h, g, status, args)
    PROVE  TInv'
<1> USE DEF TInv
<1>1. PICK txn \in Transaction : txn = held[h] /\ txn # None
    BY DEF Transition, TypeOK
<1>2. PICK next \in transition(txn, status, args) :
          /\ held' = [held EXCEPT ![g] = next]
          /\ path' = [path EXCEPT ![g] = path[h] \cup {status}]
          /\ outcomes' = IF status \in terminal_in_validate_state /\ outcomes < 2
                         THEN outcomes + 1 ELSE outcomes
          /\ shared' = (shared \/ \E f \in Holders \ {g} : held[f] # None)
    BY <1>1 DEF Transition
<1>3. /\ next \in Transaction /\ validate_state(next) /\ next.status = status
      /\ txn.status \notin terminal_in_validate_state /\ next # None
    BY <1>1, TransitionYields, NoneIsNoSnapshot
<1>4. /\ \A f \in Holders : held'[f] = IF f = g THEN next ELSE held[f]
      /\ \A f \in Holders : path'[f] = IF f = g THEN path[h] \cup {status} ELSE path[f]
    BY <1>2 DEF TypeOK
<1>5. TypeOK'
    BY <1>2, <1>3 DEF TypeOK
<1>6. Validated'
    BY <1>3, <1>4 DEF Validated
<1>7. TerminalStatesStay'
    <2>1. path[h] \cap terminal_in_validate_state = {}
        BY <1>1, <1>3 DEF TerminalStatesStay
    <2> QED BY <1>3, <1>4, <2>1 DEF TerminalStatesStay
<1>8. OneLineage'
    <2> SUFFICES ASSUME ~shared'
                 PROVE  /\ \A e, f \in Holders :
                              held'[e] # None /\ held'[f] # None => held'[e] = held'[f]
                        /\ outcomes' < 2
                        /\ outcomes' = 1 => \A f \in Holders : held'[f] # None =>
                              held'[f].status \in terminal_in_validate_state
        BY DEF OneLineage
    <2>1. ~shared /\ \A f \in Holders \ {g} : held[f] = None
        BY <1>2
    <2>2. h = g /\ \A f \in Holders : held'[f] # None => f = g
        BY <1>1, <1>4, <2>1
    <2>3. outcomes = 0
        BY <1>1, <1>3, <2>1 DEF OneLineage, TypeOK
    <2>4. outcomes' = IF status \in terminal_in_validate_state THEN 1 ELSE 0
        BY <1>2, <2>3
    <2> QED BY <1>3, <1>4, <2>2, <2>4
<1> QED BY <1>5, <1>6, <1>7, <1>8

\* A snapshot is bound to another variable.
LEMMA CopyInv == ASSUME TInv, NEW h \in Holders, NEW g \in Holders, Copy(h, g) PROVE TInv'
<1>1. /\ held[h] # None /\ UNCHANGED <<shared, outcomes>>
      /\ \A f \in Holders : held'[f] = IF f = g THEN held[h] ELSE held[f]
      /\ \A f \in Holders : path'[f] = IF f = g THEN path[h] ELSE path[f]
    BY DEF Copy, TInv, TypeOK
<1>2. TypeOK'
    BY DEF Copy, TInv, TypeOK
<1>3. Validated' /\ TerminalStatesStay'
    BY <1>1 DEF TInv, Validated, TerminalStatesStay
<1>4. OneLineage'
    BY <1>1 DEF TInv, OneLineage
<1> QED BY <1>2, <1>3, <1>4 DEF TInv

\* A variable is unbound.
LEMMA DropInv == ASSUME TInv, NEW h \in Holders, Drop(h) PROVE TInv'
<1>1. /\ UNCHANGED <<shared, outcomes>>
      /\ \A f \in Holders : held'[f] = IF f = h THEN None ELSE held[f]
      /\ \A f \in Holders : f # h => path'[f] = path[f]
    BY DEF Drop, TInv, TypeOK
<1>2. TypeOK'
    BY DEF Drop, TInv, TypeOK
<1>3. Validated' /\ TerminalStatesStay'
    BY <1>1 DEF TInv, Validated, TerminalStatesStay
<1>4. OneLineage'
    BY <1>1 DEF TInv, OneLineage
<1> QED BY <1>2, <1>3, <1>4 DEF TInv

(***************************************************************************)
(* The inductive invariant: what is held is valid and past no terminal     *)
(* status, and before it is shared the transaction has a single lineage.   *)
(***************************************************************************)
THEOREM HoldersInvariant == Spec => []TInv
<1>1. TInv /\ [Next]_vars => TInv'
    <2> SUFFICES ASSUME TInv, [Next]_vars PROVE TInv'
        OBVIOUS
    <2>1. CASE UNCHANGED vars
        BY <2>1 DEF vars, TInv, TypeOK, Validated, TerminalStatesStay, OneLineage
    <2>2. CASE Next
        BY <2>2, CreateInv, TransitionInv, CopyInv, DropInv DEF Next
    <2> QED BY <2>1, <2>2
<1> QED BY InitTInv, <1>1, PTL DEF Spec

-----------------------------------------------------------------------------
\* A snapshot that has come to a terminal state never leaves it (INV-TXN-06).
THEOREM TerminalStatesAreFinal == Spec => []TerminalStatesStay
BY HoldersInvariant, PTL DEF TInv

(***************************************************************************)
(* Two outcomes of one transaction have one cause: it was moved on while a *)
(* second snapshot of it was held (INV-TXN-03).                            *)
(***************************************************************************)
THEOREM OutcomesDoNotFork == Spec => []OneOutcomeUnlessShared
<1>1. TInv => OneOutcomeUnlessShared
    BY DEF TInv, OneLineage, OneOutcomeUnlessShared
<1> QED BY <1>1, HoldersInvariant, PTL

(***************************************************************************)
(* The transition table and the validator agree on every snapshot anybody  *)
(* can hold: no legal move is refused to a caller who has a reason and an  *)
(* approval request.                                                       *)
(***************************************************************************)
THEOREM NobodyIsStranded == Spec => []LegalMovesSucceed
<1>1. TInv => LegalMovesSucceed
    <2> SUFFICES ASSUME TInv, NEW h \in Holders, held[h] # None,
                        NEW status \in LEGAL_TRANSACTION_TRANSITIONS[held[h].status]
                 PROVE  \E ids \in ApprovalLists \cup {None} :
                            transition(held[h], status,
                                [updated_at |-> held[h].updated_at,
                                 approval_request_ids |-> ids,
                                 status_reason |-> TRUE, completed_at |-> None]) # {}
        BY DEF LegalMovesSucceed
    <2>1. PICK txn \in Transaction : txn = held[h] /\ validate_state(txn)
        BY DEF TInv, TypeOK, Validated
    <2>2. PICK given \in ApprovalLists : given # <<>> /\ IsUnique(given)
        BY ApprovalCanBeRequested DEF IsUnique
    <2>3. PICK ids \in ApprovalLists \cup {None} :
              ids = IF status = "awaiting_approval" THEN given ELSE None
        OBVIOUS
    <2>4. PICK args : args = [updated_at |-> txn.updated_at, approval_request_ids |-> ids,
                              status_reason |-> TRUE, completed_at |-> None]
        OBVIOUS
    <2>5. PICK next : next = Successor(txn, status, args)
        OBVIOUS
    <2>6. /\ next.status = status /\ next.updated_at = txn.updated_at /\ next.status_reason
          /\ next.completed_at =
                IF status \in terminal_in_transition THEN txn.updated_at ELSE None
          /\ next.approval_request_ids =
                IF ids = None THEN txn.approval_request_ids ELSE ids
        BY <2>4, <2>5 DEF Successor
    <2>7. ids # None => IsUnique(ids) /\ ids # <<>>
        BY <2>2, <2>3
    <2>8. status = "awaiting_approval" => ids # None
        BY <2>2, <2>3, NoneIsNoArgument
    <2>9. IsUnique(next.approval_request_ids)
        BY <2>1, <2>6, <2>7 DEF validate_state
    <2>10. /\ next.updated_at >= created_at
           /\ next.updated_at \in Times /\ next.updated_at \in Nat /\ next.updated_at # None
        BY <2>1, <2>6, TimesAssumption, NoneIsNoArgument DEF validate_state, Transaction
    <2>11. terminal_in_transition = terminal_in_validate_state
        BY DEF terminal_in_transition, terminal_in_validate_state
    <2>12. validate_state(next)
        BY <2>6, <2>7, <2>8, <2>9, <2>10, <2>11 DEF validate_state
    <2>13. transition(txn, status, args) # {}
        BY <2>1, <2>5, <2>12 DEF transition
    <2> QED BY <2>1, <2>4, <2>13
<1> QED BY <1>1, HoldersInvariant, PTL
=============================================================================
