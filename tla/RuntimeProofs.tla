---------------------------- MODULE RuntimeProofs ----------------------------
(***************************************************************************)
(* Proofs about SingleActionRuntime for any number of calls, keys, tools   *)
(* and intents, and for policies that answer anything.                     *)
(***************************************************************************)
EXTENDS SingleActionRuntime, CompositionProofs, TLAPS

\* The sites a call can only be at once it has passed a gate.
PastClaim    == {"preconditions", "start", "invoke", "running", "postconditions", "complete"}
PastApproval == PastClaim \cup {"claim"}
PastDecision == PastApproval \cup {"approval"}
PastResolve  == PastDecision \cup {"policy"}

\* A call that was entered has an intent; one that was not has done nothing.
Entered ==
    \A c \in Calls :
        IF pc[c] = "idle"
        THEN c \notin invoked /\ ~acquired[c] /\ result[c] = None
        ELSE action[c] \in Intents

\* Gate 1: the registered contract, the schema and the first event.
ResolvedGate ==
    \A c \in Calls : pc[c] \in PastResolve \/ c \in invoked =>
        /\ contract[c] \in Contracts
        /\ registered[action[c].tool] = contract[c]
        /\ _action_matches_contract(action[c], contract[c])
        /\ action[c].arguments \in contract[c].accepts

ReceivedGate ==
    \A c \in Calls : pc[c] \in PastResolve \cup {"resolve"} \/ c \in invoked =>
        "action_received" \in audit[c]

\* Gate 2: the composed decision.
DecisionGate ==
    \A c \in Calls : pc[c] \in PastDecision \/ c \in invoked =>
        /\ decision[c] \in PolicyDecisions
        /\ decision[c].type # "deny"
        /\ decision[c].risk >= contract[c].risk
        /\ decision[c].risk >= HIGH => decision[c].type = "require_approval"

\* Gate 3: the approval checker.
ApprovalGate ==
    \A c \in Calls : pc[c] \in PastApproval \/ c \in invoked =>
        (decision[c].type = "require_approval" => approved[c])

\* Gate 4: the idempotency key.
ClaimGate ==
    \A c \in Calls : pc[c] \in PastClaim \/ c \in invoked =>
        /\ action[c].key # None => acquired[c]
        /\ contract[c].idempotency_key_required => action[c].key # None

\* Gate 5: the execution_started event; and which sites lie behind the handler.
StartGate ==
    \A c \in Calls :
        /\ pc[c] = "invoke" \/ c \in invoked => "execution_started" \in audit[c]
        /\ pc[c] \in {"running", "postconditions"} => c \in invoked
        /\ c \in invoked =>
              pc[c] \in {"running", "postconditions", "complete", "returned",
                         "raised", "interrupted"}

(***************************************************************************)
(* Claims and records agree: the owner of a record is the call that        *)
(* acquired it, the claim stays in progress while its owner works, and a   *)
(* completed record holds the JSON form of its owner's result.             *)
(***************************************************************************)
ClaimHasRecord ==
    \A c \in Calls : acquired[c] =>
        /\ action[c] \in Intents /\ action[c].key \in Keys
        /\ records[action[c].key].owner = c
        /\ records[action[c].key].status # "absent"
        /\ pc[c] \notin {"idle", "resolve", "policy", "approval", "claim"}
        /\ pc[c] \in PastClaim => records[action[c].key] = Idempotency!InProgress(c)

RecordHasClaim ==
    \A k \in Keys : records[k].status # "absent" =>
        /\ records[k].owner \in Calls
        /\ acquired[records[k].owner]
        /\ action[records[k].owner].key = k

RecordIsResult ==
    \A k \in Keys : records[k].status = "completed" =>
        /\ result[records[k].owner] \in ExecutionResult
        /\ result[records[k].owner].execution = records[k].owner
        /\ records[k].result = model_dump(result[records[k].owner])

\* A result is built at the end, and says whether the handler was entered.
ResultStage ==
    \A c \in Calls :
        /\ pc[c] \in {"complete", "returned"} => result[c] # None
        /\ pc[c] = "complete" => result[c].execution = c
        /\ result[c] # None => pc[c] \in {"complete", "returned", "raised", "interrupted"}
        /\ result[c] # None /\ result[c].execution = c =>
              (result[c].code \in EffectCodes <=> c \in invoked)

\* A result that stems from another call is the result of a settled owner.
ReplayedFrom(c, owner) ==
    /\ SameKey(c, owner)
    /\ acquired[owner]
    /\ action[owner].key \in Keys
    /\ records[action[owner].key].status = "completed"
    /\ result[c] = result[owner]

ReplaySource ==
    \A c \in Calls :
        result[c] # None /\ result[c].execution # c => ReplayedFrom(c, result[c].execution)

IInv ==
    /\ TypeOK
    /\ Entered
    /\ ResolvedGate
    /\ ReceivedGate
    /\ DecisionGate
    /\ ApprovalGate
    /\ ClaimGate
    /\ StartGate
    /\ ClaimHasRecord
    /\ RecordHasClaim
    /\ RecordIsResult
    /\ ResultStage
    /\ ReplaySource

-----------------------------------------------------------------------------
\* The JSON document of a result decodes to that result.
LEMMA RoundTrip ==
    ASSUME NEW r \in ExecutionResult
    PROVE  /\ model_dump(r) \in Documents
           /\ _decode_execution_result(model_dump(r)) = r
BY DEF model_dump, _decode_execution_result, Documents, ExecutionResult, Codes,
       RefusalCodes, EffectCodes

-----------------------------------------------------------------------------
\* No tool, no record, no call: IInv holds.
LEMMA InitInvariant == Init => IInv
<1> SUFFICES ASSUME Init PROVE IInv
    OBVIOUS
<1>1. TypeOK
    BY DEF Init, TypeOK, Sites, Idempotency!Record, Idempotency!Absent, Idempotency!Statuses
<1> QED BY <1>1, NoneAssumption DEF Init, IInv, Entered, ResolvedGate, ReceivedGate, DecisionGate,
        ApprovalGate, ClaimGate, StartGate, ClaimHasRecord, RecordHasClaim, RecordIsResult,
        ResultStage, ReplaySource, PastResolve, PastDecision, PastApproval, PastClaim,
        Idempotency!Absent

-----------------------------------------------------------------------------
(***************************************************************************)
(* Two ways a call moves that most actions share.                          *)
(***************************************************************************)

\* The audit log of every call only grows.
AuditGrows ==
    /\ audit' \in [Calls -> SUBSET EventTypes]
    /\ \A d \in Calls : audit[d] \subseteq audit'[d]

\* Call c builds its own result r and moves to `to', "returned" or "complete".
EndsWith(c, r, to) ==
    /\ pc[c] \notin {"idle", "complete", "returned", "raised", "interrupted"}
    /\ IF pc[c] \in PastClaim THEN to = "complete" ELSE to = "returned"
    /\ r \in ExecutionResult /\ r.execution = c
    /\ r.code \in EffectCodes <=> c \in invoked
    /\ pc' = [pc EXCEPT ![c] = to]
    /\ result' = [result EXCEPT ![c] = r]
    /\ AuditGrows
    /\ decision' \in [Calls -> PolicyDecisions \cup {None}]
    /\ approved' \in [Calls -> BOOLEAN]
    /\ output' \in [Calls -> Forms \cup {None}]
    /\ \A d \in Calls : d # c \/ to = "complete" =>
          decision'[d] = decision[d] /\ approved'[d] = approved[d]
    /\ UNCHANGED <<registered, records, invoked, action, contract, acquired>>

\* An append to the ledger loses no event.
LEMMA AppendGrows ==
    ASSUME TypeOK, NEW c \in Calls, NEW event \in EventTypes, _append_event(c, event)
    PROVE  AuditGrows
BY DEF TypeOK, _append_event, Recorded, NotRecorded, AuditGrows

\* A call that has no result yet is nobody's replay source.
LEMMA Unsettled ==
    ASSUME IInv, NEW c \in Calls, result[c] = None
    PROVE  /\ \A d \in Calls : result[d] # None => result[d].execution # c
           /\ \A k \in Keys : records[k].status = "completed" => records[k].owner # c
<1>1. ASSUME NEW d \in Calls, result[d] # None PROVE result[d].execution # c
    BY <1>1 DEF IInv, ReplaySource, ReplayedFrom
<1>2. ASSUME NEW k \in Keys, records[k].status = "completed" PROVE records[k].owner # c
    BY <1>2, NoneIsNoResult DEF IInv, RecordIsResult
<1> QED BY <1>1, <1>2

\* A call gets its result; of the shared state only the ledger changes.
LEMMA EndInvariant ==
    ASSUME IInv, NEW c \in Calls, NEW r, NEW to, EndsWith(c, r, to)
    PROVE  IInv'
<1> USE DEF EndsWith, AuditGrows
<1>0. /\ result[c] = None
      /\ pc[c] \notin PastClaim => c \notin invoked
      /\ pc'[c] = to /\ result'[c] = r
      /\ \A d \in Calls : d # c => pc'[d] = pc[d] /\ result'[d] = result[d]
      /\ to \in {"returned", "complete"}
    BY DEF IInv, TypeOK, ResultStage, StartGate, PastClaim
<1>1. TypeOK'
    BY <1>0 DEF IInv, TypeOK, Sites
<1>2. Entered'
    BY <1>0 DEF IInv, TypeOK, Entered
<1>3. ResolvedGate'
    BY <1>0 DEF IInv, ResolvedGate, PastResolve, PastDecision, PastApproval, PastClaim
<1>4. ReceivedGate'
    BY <1>0 DEF IInv, ReceivedGate, PastResolve, PastDecision, PastApproval, PastClaim
<1>5. DecisionGate'
    BY <1>0 DEF IInv, DecisionGate, PastDecision, PastApproval, PastClaim
<1>6. ApprovalGate'
    BY <1>0 DEF IInv, ApprovalGate, PastApproval, PastClaim
<1>7. ClaimGate'
    BY <1>0 DEF IInv, ClaimGate, PastClaim
<1>8. StartGate'
    BY <1>0 DEF IInv, StartGate
<1>9. ClaimHasRecord'
    BY <1>0 DEF IInv, ClaimHasRecord, PastClaim
<1>10. RecordHasClaim'
    BY DEF IInv, RecordHasClaim
<1>11. RecordIsResult'
    BY <1>0, Unsettled DEF IInv, RecordIsResult, RecordHasClaim
<1>12. ResultStage'
    BY <1>0, NoneIsNoResult DEF IInv, ResultStage
<1>13. ReplaySource'
    BY <1>0, Unsettled DEF IInv, ReplaySource, ReplayedFrom, SameKey, TypeOK, ExecutionResult
<1> QED BY <1>1, <1>2, <1>3, <1>4, <1>5, <1>6, <1>7, <1>8, <1>9, <1>10, <1>11, <1>12, <1>13
        DEF IInv

-----------------------------------------------------------------------------
\* A tool is registered under a free name.
LEMMA RegisterInvariant ==
    ASSUME IInv, NEW new \in Contracts, Register(new)
    PROVE  IInv'
<1> USE DEF IInv, Register
<1>1. TypeOK'
    BY DEF TypeOK
<1>2. ResolvedGate'
    BY NoneAssumption DEF TypeOK, ResolvedGate
<1>3. Entered' /\ ReceivedGate' /\ DecisionGate' /\ ApprovalGate' /\ ClaimGate' /\ StartGate'
    BY DEF Entered, ReceivedGate, DecisionGate, ApprovalGate, ClaimGate, StartGate
<1>4. ClaimHasRecord' /\ RecordHasClaim' /\ RecordIsResult'
    BY DEF ClaimHasRecord, RecordHasClaim, RecordIsResult
<1>5. ResultStage' /\ ReplaySource'
    BY DEF ResultStage, ReplaySource, ReplayedFrom, SameKey
<1> QED BY <1>1, <1>2, <1>3, <1>4, <1>5

\* A call that was not entered before takes part in no earlier claim or result.
LEMMA ReceiveInvariant ==
    ASSUME IInv, NEW c \in Calls, NEW intent \in Intents, Receive(c, intent)
    PROVE  IInv'
<1>0. /\ pc[c] = "idle" /\ c \notin invoked /\ ~acquired[c] /\ result[c] = None
      /\ UNCHANGED <<registered, records, invoked, contract, decision, approved,
                     acquired, output>>
      /\ \A d \in Calls : d # c => action'[d] = action[d] /\ pc'[d] = pc[d]
                                    /\ result'[d] = result[d] /\ audit'[d] = audit[d]
      /\ action'[c] = intent
      /\ action' \in [Calls -> Intents \cup {None}]
      /\ \/ pc'[c] = "resolve" /\ result' = result /\ "action_received" \in audit'[c]
         \/ /\ pc'[c] = "returned"
            /\ result'[c] = Result(c, "ledger_error", None)
      /\ pc' \in [Calls -> Sites]
      /\ audit' \in [Calls -> SUBSET EventTypes]
    BY DEF IInv, TypeOK, Entered, Receive, Recorded, NotRecorded, Build, Goto, Sites, EventTypes
<1>1. /\ Result(c, "ledger_error", None) \in ExecutionResult
      /\ Result(c, "ledger_error", None).execution = c
      /\ Result(c, "ledger_error", None).code \notin EffectCodes
    BY DEF Result, ExecutionResult, Codes, RefusalCodes, EffectCodes
<1>2. \A k \in Keys : records[k].status # "absent" => records[k].owner # c
    BY <1>0 DEF IInv, RecordHasClaim
<1>3. TypeOK'
    BY <1>0, <1>1 DEF IInv, TypeOK, Receive, Build
<1>4. Entered'
    BY <1>0 DEF IInv, Entered
<1>5. ResolvedGate'
    BY <1>0 DEF IInv, ResolvedGate, PastResolve, PastDecision, PastApproval, PastClaim
<1>6. ReceivedGate'
    BY <1>0 DEF IInv, ReceivedGate, PastResolve, PastDecision, PastApproval, PastClaim
<1>7. DecisionGate'
    BY <1>0 DEF IInv, DecisionGate, PastDecision, PastApproval, PastClaim
<1>8. ApprovalGate'
    BY <1>0 DEF IInv, ApprovalGate, PastApproval, PastClaim
<1>9. ClaimGate'
    BY <1>0 DEF IInv, ClaimGate, PastClaim
<1>10. StartGate'
    BY <1>0 DEF IInv, StartGate
<1>11. ClaimHasRecord'
    BY <1>0 DEF IInv, ClaimHasRecord
<1>12. RecordHasClaim'
    BY <1>0, <1>2 DEF IInv, RecordHasClaim
<1>13. RecordIsResult'
    BY <1>0, <1>2 DEF IInv, RecordIsResult, RecordHasClaim
<1>14. ResultStage'
    BY <1>0, <1>1, NoneIsNoResult DEF IInv, ResultStage
<1>15. ReplaySource'
    <2> SUFFICES ASSUME NEW d \in Calls, result'[d] # None, result'[d].execution # d
                 PROVE  ReplayedFrom(d, result[d].execution)'
        BY DEF ReplaySource
    <2>1. d # c /\ result'[d] = result[d]
        BY <1>0, <1>1
    <2>2. result[d].execution \in Calls /\ result[d].execution # c
        BY <1>0, <2>1, Unsettled DEF IInv, TypeOK, ExecutionResult
    <2> QED BY <1>0, <2>1, <2>2 DEF IInv, ReplaySource, ReplayedFrom, SameKey
<1> QED BY <1>3, <1>4, <1>5, <1>6, <1>7, <1>8, <1>9, <1>10, <1>11, <1>12, <1>13, <1>14, <1>15
        DEF IInv
-----------------------------------------------------------------------------
\* The intent of a call that was entered.
LEMMA CallHasIntent ==
    ASSUME IInv, NEW c \in Calls, pc[c] # "idle"
    PROVE  action[c] \in Intents /\ action[c].tool \in Names /\ action[c].key \in Keys \cup {None}
BY IntentsAssumption DEF IInv, Entered

\* A refusal before the claim, or a failure with the claim held, for call c.
LEMMA OwnFailure ==
    ASSUME NEW c \in Calls, NEW code \in Codes, NEW out \in {"value", None}
    PROVE  /\ Result(c, code, out) \in ExecutionResult
           /\ Result(c, code, out).execution = c
           /\ Result(c, code, out).code = code
BY DEF Result, ExecutionResult

\* A call is refused before it has claimed a key.
LEMMA RefuseInvariant ==
    ASSUME IInv, NEW c \in Calls, NEW code \in RefusalCodes, NEW event \in EventTypes,
           pc[c] \in {"resolve", "approval", "claim"}, Refuse(c, code, event),
           UNCHANGED <<registered, records, invoked, action, contract, decision, acquired, output>>,
           approved' \in [Calls -> BOOLEAN],
           \A d \in Calls : d # c => approved'[d] = approved[d]
    PROVE  IInv'
<1>1. AuditGrows
    BY AppendGrows DEF Refuse, IInv
<1>2. c \notin invoked /\ code \notin EffectCodes /\ pc[c] \notin PastClaim
    BY DEF IInv, StartGate, RefusalCodes, EffectCodes, PastClaim
<1>3. /\ Result(c, code, None) \in ExecutionResult
      /\ Result(c, code, None).execution = c
      /\ Result(c, code, None).code = code
    BY OwnFailure DEF Codes
<1>4. EndsWith(c, Result(c, code, None), "returned")
    BY <1>1, <1>2, <1>3 DEF EndsWith, Refuse, Build, Goto, IInv, TypeOK
<1> QED BY <1>4, EndInvariant

\* A call gets its result and goes on to complete its claim.
LEMMA ConcludeInvariant ==
    ASSUME IInv, NEW c \in Calls, NEW code \in Codes, NEW event \in EventTypes,
           NEW out \in {"value", None},
           pc[c] \in PastClaim \ {"complete"}, Conclude(c, code, event, out),
           code \in EffectCodes <=> c \in invoked,
           UNCHANGED <<registered, records, invoked, action, contract, decision, approved,
                       acquired>>,
           output' \in [Calls -> Forms \cup {None}]
    PROVE  IInv'
<1>1. AuditGrows
    BY AppendGrows DEF Conclude, IInv
<1>2. /\ Result(c, code, out) \in ExecutionResult
      /\ Result(c, code, out).execution = c
      /\ Result(c, code, out).code = code
    BY OwnFailure
<1>3. EndsWith(c, Result(c, code, out), "complete")
    BY <1>1, <1>2 DEF EndsWith, Conclude, Build, Goto, IInv, TypeOK, PastClaim
<1> QED BY <1>3, EndInvariant

\* An exception leaves execute(): nothing but the site of the call changes.
LEMMA LeaveInvariant ==
    ASSUME IInv, NEW c \in Calls, pc[c] # "idle", NEW to \in {"raised", "interrupted"},
           Goto(c, to),
           UNCHANGED <<registered, records, audit, invoked, action, contract, decision,
                       approved, acquired, result>>,
           output' \in [Calls -> Forms \cup {None}]
    PROVE  IInv'
<1> USE DEF IInv, Goto
<1>1. TypeOK'
    BY DEF TypeOK, Sites, EventTypes
<1>2. Entered'
    BY DEF TypeOK, Entered
<1>3. ResolvedGate'
    BY DEF TypeOK, ResolvedGate, PastResolve, PastDecision, PastApproval, PastClaim
<1>4. ReceivedGate'
    BY DEF TypeOK, ReceivedGate, PastResolve, PastDecision, PastApproval, PastClaim
<1>5. DecisionGate'
    BY DEF TypeOK, DecisionGate, PastDecision, PastApproval, PastClaim
<1>6. ApprovalGate'
    BY DEF TypeOK, ApprovalGate, PastApproval, PastClaim
<1>7. ClaimGate'
    BY DEF TypeOK, ClaimGate, PastClaim
<1>8. StartGate'
    BY DEF TypeOK, StartGate
<1>9. ClaimHasRecord'
    BY DEF TypeOK, ClaimHasRecord, PastClaim
<1>10. RecordHasClaim' /\ RecordIsResult'
    BY DEF TypeOK, RecordHasClaim, RecordIsResult
<1>11. ResultStage'
    BY DEF TypeOK, ResultStage
<1>12. ReplaySource'
    BY DEF TypeOK, ReplaySource, ReplayedFrom, SameKey
<1> QED BY <1>1, <1>2, <1>3, <1>4, <1>5, <1>6, <1>7, <1>8, <1>9, <1>10, <1>11, <1>12

\* The contract is resolved, or the call refused.
LEMMA ResolveInvariant ==
    ASSUME IInv, NEW c \in Calls, Resolve(c)
    PROVE  IInv'
<1> DEFINE known == registered[action[c].tool]
<1>1. pc[c] = "resolve" /\ action[c].tool \in Names /\ UNCHANGED approved
    BY CallHasIntent DEF Resolve
<1>2. ASSUME NEW code \in {"unknown_tool", "contract_mismatch", "input_validation_failed"},
             NEW event \in EventTypes, Refuse(c, code, event), UNCHANGED contract
      PROVE  IInv'
    BY <1>1, <1>2, RefuseInvariant DEF Resolve, RefusalCodes, IInv, TypeOK
<1>3. ASSUME known # None, _action_matches_contract(action[c], known),
             action[c].arguments \in known.accepts,
             _append_event(c, "contract_validated"),
             contract' = [contract EXCEPT ![c] = known], Goto(c, "policy"), UNCHANGED result
      PROVE  IInv'
    <2>0. /\ pc[c] = "resolve" /\ c \notin invoked
          /\ known \in Contracts
          /\ pc' = [pc EXCEPT ![c] = "policy"]
          /\ contract' = [contract EXCEPT ![c] = known]
          /\ AuditGrows
          /\ UNCHANGED <<registered, records, invoked, action, decision, approved,
                         acquired, output, result>>
        BY <1>1, <1>3, AppendGrows DEF Resolve, Goto, IInv, TypeOK, StartGate, EventTypes
    <2> HIDE DEF known
    <2> USE DEF IInv, AuditGrows
    <2>1. TypeOK'
        BY <2>0 DEF TypeOK, Sites, EventTypes
    <2>2. Entered'
        BY <2>0 DEF TypeOK, Entered
    <2>3. ResolvedGate'
        BY <1>3, <2>0
           DEF known, TypeOK, ResolvedGate, PastResolve, PastDecision, PastApproval, PastClaim
    <2>4. ReceivedGate'
        BY <2>0 DEF TypeOK, ReceivedGate, PastResolve, PastDecision, PastApproval, PastClaim
    <2>5. DecisionGate'
        BY <2>0 DEF TypeOK, DecisionGate, PastDecision, PastApproval, PastClaim
    <2>6. ApprovalGate'
        BY <2>0 DEF TypeOK, ApprovalGate, PastApproval, PastClaim
    <2>7. ClaimGate'
        BY <2>0 DEF TypeOK, ClaimGate, PastClaim
    <2>8. StartGate'
        BY <2>0 DEF TypeOK, StartGate
    <2>9. ClaimHasRecord'
        BY <2>0 DEF TypeOK, ClaimHasRecord, PastClaim
    <2>10. RecordHasClaim' /\ RecordIsResult'
        BY <2>0 DEF TypeOK, RecordHasClaim, RecordIsResult
    <2>11. ResultStage'
        BY <2>0 DEF TypeOK, ResultStage
    <2>12. ReplaySource'
        BY <2>0 DEF TypeOK, ReplaySource, ReplayedFrom, SameKey
    <2> QED BY <2>1, <2>2, <2>3, <2>4, <2>5, <2>6, <2>7, <2>8, <2>9, <2>10, <2>11, <2>12
<1> QED
    BY <1>2, <1>3 DEF Resolve, _validate_against_schema, EventTypes

\* The engine decides, or raises.
LEMMA EvaluatePolicyInvariant ==
    ASSUME IInv, NEW c \in Calls, EvaluatePolicy(c)
    PROVE  IInv'
<1>1. /\ pc[c] = "policy" /\ c \notin invoked
      /\ contract[c] \in Contracts /\ contract[c].risk \in RiskLevels
      /\ UNCHANGED <<registered, records, invoked, action, contract, approved, acquired, output>>
    BY ContractsAssumption
       DEF EvaluatePolicy, IInv, StartGate, ResolvedGate, PastResolve
<1>2. PICK answers \in PolicyAnswers :
          LET composed == Evaluate(contract[c].risk, answers)
          IN  IF composed = ValidationError THEN
                 Goto(c, "raised") /\ UNCHANGED <<audit, decision, result>>
              ELSE
                 /\ decision' = [decision EXCEPT ![c] = composed]
                 /\ _append_event(c, "policy_evaluated")
                 /\ IF composed.type = "deny" THEN
                       Build(c, "policy_denied", None) /\ Goto(c, "returned")
                    ELSE
                       /\ Goto(c, IF composed.type = "require_approval"
                                  THEN "approval" ELSE "claim")
                       /\ UNCHANGED result
    BY DEF EvaluatePolicy
<1> DEFINE composed == Evaluate(contract[c].risk, answers)
<1>3. composed # ValidationError =>
          /\ composed \in PolicyDecisions
          /\ composed.type # "deny" =>
                /\ composed.risk >= contract[c].risk
                /\ composed.risk >= HIGH => composed.type = "require_approval"
    BY <1>1, PolicyAnswersAssumption, EvaluationKeepsRiskFloor
<1> HIDE DEF composed
<1>4. CASE composed = ValidationError
    BY <1>1, <1>2, <1>4, LeaveInvariant DEF composed, IInv, TypeOK
<1>5. CASE composed # ValidationError /\ composed.type = "deny"
    <2>1. /\ decision' = [decision EXCEPT ![c] = composed]
          /\ result' = [result EXCEPT ![c] = Result(c, "policy_denied", None)]
          /\ pc' = [pc EXCEPT ![c] = "returned"]
          /\ AuditGrows
        BY <1>2, <1>5, AppendGrows DEF composed, IInv, Build, Goto, EventTypes
    <2>2. "policy_denied" \in Codes /\ "policy_denied" \notin EffectCodes
        BY DEF Codes, RefusalCodes, EffectCodes
    <2>3. EndsWith(c, Result(c, "policy_denied", None), "returned")
        BY <1>1, <1>3, <1>5, <2>1, <2>2, OwnFailure DEF EndsWith, IInv, TypeOK, PastClaim
    <2> QED BY <2>3, EndInvariant
<1>6. CASE composed # ValidationError /\ composed.type # "deny"
    <2>0. /\ decision' = [decision EXCEPT ![c] = composed]
          /\ pc' = [pc EXCEPT ![c] = IF composed.type = "require_approval"
                                     THEN "approval" ELSE "claim"]
          /\ AuditGrows
          /\ UNCHANGED result
        BY <1>2, <1>6, AppendGrows DEF composed, IInv, Goto, EventTypes
    <2> USE DEF IInv, AuditGrows
    <2>1. TypeOK'
        BY <1>1, <1>3, <1>6, <2>0 DEF TypeOK, Sites, EventTypes
    <2>2. Entered'
        BY <1>1, <1>3, <1>6, <2>0 DEF TypeOK, Entered
    <2>3. ResolvedGate'
        BY <1>1, <1>3, <1>6, <2>0
           DEF TypeOK, ResolvedGate, PastResolve, PastDecision, PastApproval, PastClaim
    <2>4. ReceivedGate'
        BY <1>1, <1>3, <1>6, <2>0
           DEF TypeOK, ReceivedGate, PastResolve, PastDecision, PastApproval, PastClaim
    <2>5. DecisionGate'
        BY <1>1, <1>3, <1>6, <2>0
           DEF TypeOK, DecisionGate, PastDecision, PastApproval, PastClaim
    <2>6. ApprovalGate'
        BY <1>1, <1>3, <1>6, <2>0 DEF TypeOK, ApprovalGate, PastApproval, PastClaim
    <2>7. ClaimGate'
        BY <1>1, <1>3, <1>6, <2>0 DEF TypeOK, ClaimGate, PastClaim
    <2>8. StartGate'
        BY <1>1, <1>3, <1>6, <2>0 DEF TypeOK, StartGate
    <2>9. ClaimHasRecord'
        BY <1>1, <1>3, <1>6, <2>0 DEF TypeOK, ClaimHasRecord, PastClaim
    <2>10. RecordHasClaim' /\ RecordIsResult'
        BY <1>1, <1>3, <1>6, <2>0 DEF TypeOK, RecordHasClaim, RecordIsResult
    <2>11. ResultStage'
        BY <1>1, <1>3, <1>6, <2>0 DEF TypeOK, ResultStage
    <2>12. ReplaySource'
        BY <1>1, <1>3, <1>6, <2>0 DEF TypeOK, ReplaySource, ReplayedFrom, SameKey
    <2> QED BY <2>1, <2>2, <2>3, <2>4, <2>5, <2>6, <2>7, <2>8, <2>9, <2>10, <2>11, <2>12
<1> QED BY <1>4, <1>5, <1>6

\* The approval checker answers, or raises.
LEMMA CheckApprovalInvariant ==
    ASSUME IInv, NEW c \in Calls, CheckApproval(c)
    PROVE  IInv'
<1>1. is_approved(action[c]) \subseteq BOOLEAN
    <2>1. CASE Checker = "none"
        BY <2>1, Zenon DEF is_approved
    <2>2. CASE Checker = "static"
        <3>1. is_approved(action[c]) = {action[c].id \in ApprovedIds}
            BY <2>2 DEF is_approved
        <3>2. (action[c].id \in ApprovedIds) \in BOOLEAN
            OBVIOUS
        <3> QED BY <3>1, <3>2, Zenon
    <2>3. CASE Checker = "host"
        BY <2>3 DEF is_approved
    <2> QED BY <2>1, <2>2, <2>3, CheckerAssumption
<1>2. PICK answer \in is_approved(action[c]) :
          /\ approved' = [approved EXCEPT ![c] = answer]
          /\ IF answer
             THEN Goto(c, "claim") /\ UNCHANGED <<audit, result>>
             ELSE Refuse(c, "approval_required", "approval_required")
    BY DEF CheckApproval
<1>3. /\ pc[c] = "approval" /\ answer \in BOOLEAN
      /\ UNCHANGED <<registered, records, invoked, action, contract, decision, acquired, output>>
    BY <1>1 DEF CheckApproval
<1>4. CASE ~answer
    BY <1>2, <1>3, <1>4, RefuseInvariant DEF RefusalCodes, EventTypes, IInv, TypeOK
<1>5. CASE answer
    <2> USE DEF IInv, Goto
    <2>1. TypeOK'
        BY <1>2, <1>3, <1>5 DEF TypeOK, Sites, EventTypes
    <2>2. Entered'
        BY <1>2, <1>3, <1>5 DEF TypeOK, Entered
    <2>3. ResolvedGate'
        BY <1>2, <1>3, <1>5
           DEF TypeOK, ResolvedGate, PastResolve, PastDecision, PastApproval, PastClaim
    <2>4. ReceivedGate'
        BY <1>2, <1>3, <1>5
           DEF TypeOK, ReceivedGate, PastResolve, PastDecision, PastApproval, PastClaim
    <2>5. DecisionGate'
        BY <1>2, <1>3, <1>5 DEF TypeOK, DecisionGate, PastDecision, PastApproval, PastClaim
    <2>6. ApprovalGate'
        BY <1>2, <1>3, <1>5 DEF TypeOK, ApprovalGate, PastApproval, PastClaim
    <2>7. ClaimGate'
        BY <1>2, <1>3, <1>5 DEF TypeOK, ClaimGate, PastClaim
    <2>8. StartGate'
        BY <1>2, <1>3, <1>5 DEF TypeOK, StartGate
    <2>9. ClaimHasRecord'
        BY <1>2, <1>3, <1>5 DEF TypeOK, ClaimHasRecord, PastClaim
    <2>10. RecordHasClaim' /\ RecordIsResult'
        BY <1>2, <1>3, <1>5 DEF TypeOK, RecordHasClaim, RecordIsResult
    <2>11. ResultStage'
        BY <1>2, <1>3, <1>5 DEF TypeOK, ResultStage
    <2>12. ReplaySource'
        BY <1>2, <1>3, <1>5 DEF TypeOK, ReplaySource, ReplayedFrom, SameKey
    <2> QED BY <2>1, <2>2, <2>3, <2>4, <2>5, <2>6, <2>7, <2>8, <2>9, <2>10, <2>11, <2>12
<1> QED BY <1>3, <1>4, <1>5

\* An intent without a key goes on, or is refused.
LEMMA ProceedWithoutKeyInvariant ==
    ASSUME IInv, NEW c \in Calls, ProceedWithoutKey(c)
    PROVE  IInv'
<1>1. CASE contract[c].idempotency_key_required
    BY <1>1, RefuseInvariant DEF ProceedWithoutKey, RefusalCodes, EventTypes, IInv, TypeOK
<1>2. CASE ~contract[c].idempotency_key_required
    <2>0. /\ pc[c] = "claim" /\ action[c].key = None
          /\ pc' = [pc EXCEPT ![c] = "preconditions"]
          /\ UNCHANGED <<registered, records, audit, invoked, action, contract, decision,
                         approved, acquired, output, result>>
        BY <1>2 DEF ProceedWithoutKey, Goto
    <2> USE DEF IInv
    <2>1. TypeOK'
        BY <1>2, <2>0 DEF TypeOK, Sites, EventTypes
    <2>2. Entered'
        BY <1>2, <2>0 DEF TypeOK, Entered
    <2>3. ResolvedGate'
        BY <1>2, <2>0
           DEF TypeOK, ResolvedGate, PastResolve, PastDecision, PastApproval, PastClaim
    <2>4. ReceivedGate'
        BY <1>2, <2>0
           DEF TypeOK, ReceivedGate, PastResolve, PastDecision, PastApproval, PastClaim
    <2>5. DecisionGate'
        BY <1>2, <2>0 DEF TypeOK, DecisionGate, PastDecision, PastApproval, PastClaim
    <2>6. ApprovalGate'
        BY <1>2, <2>0 DEF TypeOK, ApprovalGate, PastApproval, PastClaim
    <2>7. ClaimGate'
        BY <1>2, <2>0 DEF TypeOK, ClaimGate, PastClaim
    <2>8. StartGate'
        BY <1>2, <2>0 DEF TypeOK, StartGate
    <2>9. ClaimHasRecord'
        BY <1>2, <2>0 DEF TypeOK, ClaimHasRecord, PastClaim
    <2>10. RecordHasClaim' /\ RecordIsResult'
        BY <1>2, <2>0 DEF TypeOK, RecordHasClaim, RecordIsResult
    <2>11. ResultStage'
        BY <1>2, <2>0 DEF TypeOK, ResultStage
    <2>12. ReplaySource'
        BY <1>2, <2>0 DEF TypeOK, ReplaySource, ReplayedFrom, SameKey
    <2> QED BY <2>1, <2>2, <2>3, <2>4, <2>5, <2>6, <2>7, <2>8, <2>9, <2>10, <2>11, <2>12
<1> QED BY <1>1, <1>2

\* The preconditions are asked.
LEMMA CheckPreconditionsInvariant ==
    ASSUME IInv, NEW c \in Calls, CheckPreconditions(c)
    PROVE  IInv'
<1>1. pc[c] = "preconditions" /\ c \notin invoked
    BY DEF CheckPreconditions, IInv, StartGate
<1>2. CASE Conclude(c, "precondition_failed", "precondition_failed", None)
    BY <1>1, <1>2, ConcludeInvariant
       DEF CheckPreconditions, PastClaim, Codes, RefusalCodes, EffectCodes, EventTypes, IInv, TypeOK
<1>3. CASE Goto(c, "start") /\ UNCHANGED <<audit, result>>
    <2> USE <1>1, <1>3 DEF IInv, CheckPreconditions, Goto
    <2>1. TypeOK'
        BY DEF TypeOK, Sites, EventTypes
    <2>2. Entered'
        BY DEF TypeOK, Entered
    <2>3. ResolvedGate'
        BY DEF TypeOK, ResolvedGate, PastResolve, PastDecision, PastApproval, PastClaim
    <2>4. ReceivedGate'
        BY DEF TypeOK, ReceivedGate, PastResolve, PastDecision, PastApproval, PastClaim
    <2>5. DecisionGate'
        BY DEF TypeOK, DecisionGate, PastDecision, PastApproval, PastClaim
    <2>6. ApprovalGate'
        BY DEF TypeOK, ApprovalGate, PastApproval, PastClaim
    <2>7. ClaimGate'
        BY DEF TypeOK, ClaimGate, PastClaim
    <2>8. StartGate'
        BY DEF TypeOK, StartGate
    <2>9. ClaimHasRecord'
        BY DEF TypeOK, ClaimHasRecord, PastClaim
    <2>10. RecordHasClaim' /\ RecordIsResult'
        BY DEF TypeOK, RecordHasClaim, RecordIsResult
    <2>11. ResultStage'
        BY DEF TypeOK, ResultStage
    <2>12. ReplaySource'
        BY DEF TypeOK, ReplaySource, ReplayedFrom, SameKey
    <2> QED BY <2>1, <2>2, <2>3, <2>4, <2>5, <2>6, <2>7, <2>8, <2>9, <2>10, <2>11, <2>12
<1> QED BY <1>2, <1>3 DEF CheckPreconditions

\* execution_started is appended.
LEMMA StartExecutionInvariant ==
    ASSUME IInv, NEW c \in Calls, StartExecution(c)
    PROVE  IInv'
<1>1. pc[c] = "start" /\ c \notin invoked
    BY DEF StartExecution, IInv, StartGate
<1>2. CASE NotRecorded /\ Build(c, "ledger_error", None) /\ Goto(c, "complete")
    <2>1. Conclude(c, "ledger_error", "execution_started", None)
        BY <1>2 DEF Conclude, _append_event
    <2> QED BY <1>1, <2>1, ConcludeInvariant
            DEF StartExecution, PastClaim, Codes, RefusalCodes, EffectCodes, EventTypes, IInv, TypeOK
<1>3. CASE Recorded(c, "execution_started") /\ Goto(c, "invoke") /\ UNCHANGED result
    <2> USE <1>1, <1>3 DEF IInv, StartExecution, Goto, Recorded
    <2>1. TypeOK'
        BY DEF TypeOK, Sites, EventTypes
    <2>2. Entered'
        BY DEF TypeOK, Entered
    <2>3. ResolvedGate'
        BY DEF TypeOK, ResolvedGate, PastResolve, PastDecision, PastApproval, PastClaim
    <2>4. ReceivedGate'
        BY DEF TypeOK, ReceivedGate, PastResolve, PastDecision, PastApproval, PastClaim
    <2>5. DecisionGate'
        BY DEF TypeOK, DecisionGate, PastDecision, PastApproval, PastClaim
    <2>6. ApprovalGate'
        BY DEF TypeOK, ApprovalGate, PastApproval, PastClaim
    <2>7. ClaimGate'
        BY DEF TypeOK, ClaimGate, PastClaim
    <2>8. StartGate'
        BY DEF TypeOK, StartGate
    <2>9. ClaimHasRecord'
        BY DEF TypeOK, ClaimHasRecord, PastClaim
    <2>10. RecordHasClaim' /\ RecordIsResult'
        BY DEF TypeOK, RecordHasClaim, RecordIsResult
    <2>11. ResultStage'
        BY DEF TypeOK, ResultStage
    <2>12. ReplaySource'
        BY DEF TypeOK, ReplaySource, ReplayedFrom, SameKey
    <2> QED BY <2>1, <2>2, <2>3, <2>4, <2>5, <2>6, <2>7, <2>8, <2>9, <2>10, <2>11, <2>12
<1> QED BY <1>2, <1>3 DEF StartExecution

\* The handler is entered.
LEMMA InvokeHandlerInvariant ==
    ASSUME IInv, NEW c \in Calls, InvokeHandler(c)
    PROVE  IInv'
<1> USE DEF IInv, InvokeHandler, Goto
<1>1. TypeOK'
    BY DEF TypeOK, Sites, EventTypes
<1>2. Entered'
    BY DEF TypeOK, Entered
<1>3. ResolvedGate'
    BY DEF TypeOK, ResolvedGate, PastResolve, PastDecision, PastApproval, PastClaim
<1>4. ReceivedGate'
    BY DEF TypeOK, ReceivedGate, PastResolve, PastDecision, PastApproval, PastClaim
<1>5. DecisionGate'
    BY DEF TypeOK, DecisionGate, PastDecision, PastApproval, PastClaim
<1>6. ApprovalGate'
    BY DEF TypeOK, ApprovalGate, PastApproval, PastClaim
<1>7. ClaimGate'
    BY DEF TypeOK, ClaimGate, PastClaim
<1>8. StartGate'
    BY DEF TypeOK, StartGate
<1>9. ClaimHasRecord'
    BY DEF TypeOK, ClaimHasRecord, PastClaim
<1>10. RecordHasClaim' /\ RecordIsResult'
    BY DEF TypeOK, RecordHasClaim, RecordIsResult
<1>11. ResultStage'
    BY DEF TypeOK, ResultStage
<1>12. ReplaySource'
    BY DEF TypeOK, ReplaySource, ReplayedFrom, SameKey
<1> QED BY <1>1, <1>2, <1>3, <1>4, <1>5, <1>6, <1>7, <1>8, <1>9, <1>10, <1>11, <1>12

\* The handler raises an Exception.
LEMMA HandlerRaisesInvariant ==
    ASSUME IInv, NEW c \in Calls, HandlerRaises(c)
    PROVE  IInv'
<1>1. pc[c] = "running" /\ c \in invoked
    BY DEF HandlerRaises, IInv, StartGate
<1> QED BY <1>1, ConcludeInvariant
        DEF HandlerRaises, PastClaim, Codes, RefusalCodes, EffectCodes, EventTypes, IInv, TypeOK

\* The handler returns, and its output is validated.
LEMMA HandlerReturnsInvariant ==
    ASSUME IInv, NEW c \in Calls, NEW out \in Outputs, HandlerReturns(c, out)
    PROVE  IInv'
<1>1. /\ pc[c] = "running" /\ c \in invoked /\ out.form \in Forms
      /\ UNCHANGED <<registered, records, invoked, action, contract, decision, approved, acquired>>
    BY DEF HandlerReturns, IInv, StartGate, Outputs
<1>2. CASE out.conforms /\ out.form # "opaque"
    <2>0. /\ output' = [output EXCEPT ![c] = out.form]
          /\ pc' = [pc EXCEPT ![c] = "postconditions"]
          /\ UNCHANGED <<audit, result>>
        BY <1>2 DEF HandlerReturns, Goto
    <2> USE DEF IInv
    <2>1. TypeOK'
        BY <1>1, <2>0 DEF TypeOK, Sites, EventTypes
    <2>2. Entered'
        BY <1>1, <2>0 DEF TypeOK, Entered
    <2>3. ResolvedGate'
        BY <1>1, <2>0
           DEF TypeOK, ResolvedGate, PastResolve, PastDecision, PastApproval, PastClaim
    <2>4. ReceivedGate'
        BY <1>1, <2>0
           DEF TypeOK, ReceivedGate, PastResolve, PastDecision, PastApproval, PastClaim
    <2>5. DecisionGate'
        BY <1>1, <2>0 DEF TypeOK, DecisionGate, PastDecision, PastApproval, PastClaim
    <2>6. ApprovalGate'
        BY <1>1, <2>0 DEF TypeOK, ApprovalGate, PastApproval, PastClaim
    <2>7. ClaimGate'
        BY <1>1, <2>0 DEF TypeOK, ClaimGate, PastClaim
    <2>8. StartGate'
        BY <1>1, <2>0 DEF TypeOK, StartGate
    <2>9. ClaimHasRecord'
        BY <1>1, <2>0 DEF TypeOK, ClaimHasRecord, PastClaim
    <2>10. RecordHasClaim' /\ RecordIsResult'
        BY <1>1, <2>0 DEF TypeOK, RecordHasClaim, RecordIsResult
    <2>11. ResultStage'
        BY <1>1, <2>0 DEF TypeOK, ResultStage
    <2>12. ReplaySource'
        BY <1>1, <2>0 DEF TypeOK, ReplaySource, ReplayedFrom, SameKey
    <2> QED BY <2>1, <2>2, <2>3, <2>4, <2>5, <2>6, <2>7, <2>8, <2>9, <2>10, <2>11, <2>12
<1>3. CASE ~(out.conforms /\ out.form # "opaque") /\ Constructible(out.form)
    <2>1. /\ Conclude(c, "output_validation_failed", "output_validation_failed",
                      _json_or_none(out.form))
          /\ UNCHANGED output
        BY <1>3 DEF HandlerReturns
    <2>2. _json_or_none(out.form) \in {"value", None}
        BY DEF _json_or_none
    <2> QED BY <1>1, <2>1, <2>2, ConcludeInvariant
            DEF PastClaim, Codes, RefusalCodes, EffectCodes, EventTypes, IInv, TypeOK
<1>4. CASE ~(out.conforms /\ out.form # "opaque") /\ ~Constructible(out.form)
    BY <1>1, <1>4, LeaveInvariant DEF HandlerReturns, IInv, TypeOK
<1> QED BY <1>2, <1>3, <1>4

\* The postconditions are asked.
LEMMA CheckPostconditionsInvariant ==
    ASSUME IInv, NEW c \in Calls, CheckPostconditions(c)
    PROVE  IInv'
<1>1. /\ pc[c] = "postconditions" /\ c \in invoked
      /\ output' \in [Calls -> Forms \cup {None}]
      /\ UNCHANGED <<registered, records, invoked, action, contract, decision, approved, acquired>>
    BY DEF CheckPostconditions, IInv, TypeOK, StartGate
<1>2. CASE ~Constructible(output[c])
    BY <1>1, <1>2, LeaveInvariant DEF CheckPostconditions
<1>3. CASE Conclude(c, "succeeded", "execution_succeeded", "value")
    BY <1>1, <1>3, ConcludeInvariant DEF PastClaim, Codes, EffectCodes, EventTypes
<1>4. CASE Conclude(c, "postcondition_failed", "postcondition_failed", "value")
    BY <1>1, <1>4, ConcludeInvariant DEF PastClaim, Codes, EffectCodes, EventTypes
<1> QED BY <1>2, <1>3, <1>4 DEF CheckPostconditions

\* A BaseException leaves execute().
LEMMA InterruptInvariant ==
    ASSUME IInv, NEW c \in Calls, Interrupt(c)
    PROVE  IInv'
    BY LeaveInvariant DEF Interrupt, IInv, TypeOK

-----------------------------------------------------------------------------
\* The first claim of a key makes its caller the owner.
LEMMA AcquireInvariant ==
    ASSUME IInv, NEW c \in Calls, ClaimKey(c), records[action[c].key].status = "absent"
    PROVE  IInv'
<1> DEFINE k == action[c].key
<1>0. /\ pc[c] = "claim" /\ k \in Keys /\ c \notin invoked /\ result[c] = None
      /\ action[c] \in Intents
    BY CallHasIntent DEF ClaimKey, IInv, StartGate, ResultStage, TypeOK
<1>1. /\ records' = [records EXCEPT ![k] = Idempotency!InProgress(c)]
      /\ acquired' = [acquired EXCEPT ![c] = TRUE]
      /\ pc' = [pc EXCEPT ![c] = "preconditions"]
      /\ UNCHANGED <<registered, audit, invoked, action, contract, decision, approved, output,
                     result>>
    BY DEF ClaimKey, Idempotency!claim, Idempotency!Effect, Goto
<1>2. \A d \in Calls : acquired[d] => action[d].key # k
    BY DEF IInv, ClaimHasRecord
<1>3. /\ Idempotency!InProgress(c).status = "in_progress"
      /\ Idempotency!InProgress(c).owner = c
      /\ Idempotency!InProgress(c) \in Idempotency!Record
    BY DEF Idempotency!InProgress, Idempotency!Record, Idempotency!Statuses
<1>4. records[k].status = "absent"
    OBVIOUS
<1>5. /\ k # None
      /\ \A j \in Keys : j # k => records'[j] = records[j]
      /\ records'[k] = Idempotency!InProgress(c)
      /\ \A d \in Calls : d # c => acquired'[d] = acquired[d] /\ pc'[d] = pc[d]
      /\ acquired'[c] /\ pc'[c] = "preconditions"
    BY <1>0, <1>1, NoneAssumption DEF IInv, TypeOK
<1> USE DEF IInv
<1>6. TypeOK'
    BY <1>0, <1>1, <1>2, <1>3, <1>4, <1>5 DEF TypeOK, Sites, EventTypes
<1>7. Entered'
    BY <1>0, <1>1, <1>2, <1>3, <1>4, <1>5 DEF TypeOK, Entered
<1>8. ResolvedGate'
    BY <1>0, <1>1, <1>2, <1>3, <1>4, <1>5
       DEF TypeOK, ResolvedGate, PastResolve, PastDecision, PastApproval, PastClaim
<1>9. ReceivedGate'
    BY <1>0, <1>1, <1>2, <1>3, <1>4, <1>5
       DEF TypeOK, ReceivedGate, PastResolve, PastDecision, PastApproval, PastClaim
<1>10. DecisionGate'
    BY <1>0, <1>1, <1>2, <1>3, <1>4, <1>5
       DEF TypeOK, DecisionGate, PastDecision, PastApproval, PastClaim
<1>11. ApprovalGate'
    BY <1>0, <1>1, <1>2, <1>3, <1>4, <1>5 DEF TypeOK, ApprovalGate, PastApproval, PastClaim
<1>12. ClaimGate'
    BY <1>0, <1>1, <1>2, <1>3, <1>4, <1>5 DEF TypeOK, ClaimGate, PastClaim
<1>13. StartGate'
    BY <1>0, <1>1, <1>2, <1>3, <1>4, <1>5 DEF TypeOK, StartGate
<1>14. ClaimHasRecord'
    BY <1>0, <1>1, <1>2, <1>3, <1>4, <1>5 DEF TypeOK, ClaimHasRecord, PastClaim
<1>15. RecordHasClaim' /\ RecordIsResult'
    BY <1>0, <1>1, <1>2, <1>3, <1>4, <1>5 DEF TypeOK, RecordHasClaim, RecordIsResult
<1>16. ResultStage'
    BY <1>0, <1>1, <1>2, <1>3, <1>4, <1>5 DEF TypeOK, ResultStage
<1>17. ReplaySource'
    BY <1>0, <1>1, <1>2, <1>3, <1>4, <1>5 DEF TypeOK, ReplaySource, ReplayedFrom, SameKey
<1> QED BY <1>6, <1>7, <1>8, <1>9, <1>10, <1>11, <1>12, <1>13, <1>14, <1>15, <1>16, <1>17

\* Every later claim returns the recorded outcome, or that one is under way.
LEMMA ReplayInvariant ==
    ASSUME IInv, NEW c \in Calls, ClaimKey(c), records[action[c].key].status # "absent"
    PROVE  IInv'
<1> DEFINE k == action[c].key
           owner == records[k].owner
<1>0. /\ pc[c] = "claim" /\ k \in Keys /\ k # None /\ c \notin invoked /\ result[c] = None
      /\ ~acquired[c]
    BY CallHasIntent DEF ClaimKey, IInv, StartGate, ResultStage, TypeOK, ClaimHasRecord
<1>1. /\ UNCHANGED <<records, acquired>>
      /\ result' = [result EXCEPT ![c] = Replay(c, records[k])]
      /\ pc' = [pc EXCEPT ![c] = "returned"]
      /\ AuditGrows
      /\ UNCHANGED <<registered, invoked, action, contract, decision, approved, output>>
    <2>1. /\ Idempotency!claim(records[k], c).record = records[k]
          /\ Idempotency!claim(records[k], c).answer.record = records[k]
          /\ Idempotency!claim(records[k], c).answer.outcome = "observed"
        BY DEF Idempotency!claim, Idempotency!Effect
    <2>2. records' = [records EXCEPT ![k] = records[k]] /\ acquired' = [acquired EXCEPT ![c] = FALSE]
        BY <2>1 DEF ClaimKey
    <2>3. UNCHANGED <<records, acquired>>
        BY <1>0, <2>2 DEF IInv, TypeOK
    <2>4. _append_event(c, "idempotency_replayed")
        BY <2>1 DEF ClaimKey
    <2> QED BY <2>1, <2>3, <2>4, AppendGrows DEF ClaimKey, Goto, IInv, EventTypes
<1>2. CASE records[k].status = "completed" /\ records[k].result # None
    <2>1. /\ owner \in Calls /\ owner # c /\ acquired[owner] /\ action[owner].key = k
          /\ result[owner] \in ExecutionResult /\ result[owner].execution = owner
          /\ records[k].result = model_dump(result[owner])
        BY <1>0, <1>2 DEF IInv, RecordHasClaim, RecordIsResult
    <2>2. Replay(c, records[k]) = result[owner]
        BY <1>2, <2>1, RoundTrip DEF Replay
    <2>3. /\ result'[c] = result[owner] /\ pc'[c] = "returned"
          /\ \A d \in Calls : d # c => result'[d] = result[d] /\ pc'[d] = pc[d]
        BY <1>1, <2>2 DEF IInv, TypeOK
    <2>4. \A d \in Calls : result[d] # None => result[d].execution # c
        BY <1>0, Unsettled
    <2> HIDE DEF owner, k
    <2> USE DEF IInv, AuditGrows
    <2>5. TypeOK'
        BY <1>0, <1>1, <1>2, <2>1, <2>3, <2>4, NoneIsNoResult DEF TypeOK, Sites, EventTypes
    <2>6. Entered'
        BY <1>0, <1>1, <1>2, <2>1, <2>3, <2>4, NoneIsNoResult DEF TypeOK, Entered
    <2>7. ResolvedGate'
        BY <1>0, <1>1, <1>2, <2>1, <2>3, <2>4, NoneIsNoResult
           DEF TypeOK, ResolvedGate, PastResolve, PastDecision, PastApproval, PastClaim
    <2>8. ReceivedGate'
        BY <1>0, <1>1, <1>2, <2>1, <2>3, <2>4, NoneIsNoResult
           DEF TypeOK, ReceivedGate, PastResolve, PastDecision, PastApproval, PastClaim
    <2>9. DecisionGate'
        BY <1>0, <1>1, <1>2, <2>1, <2>3, <2>4, NoneIsNoResult
           DEF TypeOK, DecisionGate, PastDecision, PastApproval, PastClaim
    <2>10. ApprovalGate'
        BY <1>0, <1>1, <1>2, <2>1, <2>3, <2>4, NoneIsNoResult
           DEF TypeOK, ApprovalGate, PastApproval, PastClaim
    <2>11. ClaimGate'
        BY <1>0, <1>1, <1>2, <2>1, <2>3, <2>4, NoneIsNoResult DEF TypeOK, ClaimGate, PastClaim
    <2>12. StartGate'
        BY <1>0, <1>1, <1>2, <2>1, <2>3, <2>4, NoneIsNoResult DEF TypeOK, StartGate
    <2>13. ClaimHasRecord'
        BY <1>0, <1>1, <1>2, <2>1, <2>3, <2>4, NoneIsNoResult
           DEF TypeOK, ClaimHasRecord, PastClaim
    <2>14. RecordHasClaim' /\ RecordIsResult'
        BY <1>0, <1>1, <1>2, <2>1, <2>3, <2>4, NoneIsNoResult
           DEF TypeOK, RecordHasClaim, RecordIsResult
    <2>15. ResultStage'
        BY <1>0, <1>1, <1>2, <2>1, <2>3, <2>4, NoneIsNoResult DEF TypeOK, ResultStage
    <2>16. ReplaySource'
        <3> SUFFICES ASSUME NEW d \in Calls, result'[d] # None, result'[d].execution # d
                     PROVE  ReplayedFrom(d, result[d].execution)'
            BY DEF ReplaySource
        <3>1. CASE d = c
            BY <1>0, <1>1, <1>2, <2>1, <2>3, <3>1 DEF ReplayedFrom, SameKey, k
        <3>2. CASE d # c
            <4>1. result'[d] = result[d] /\ result[d].execution \in Calls \ {c}
                BY <2>3, <2>4, <3>2 DEF TypeOK, ExecutionResult
            <4> QED BY <1>1, <2>3, <4>1 DEF ReplaySource, ReplayedFrom, SameKey
        <3> QED BY <3>1, <3>2
    <2> QED BY <2>5, <2>6, <2>7, <2>8, <2>9, <2>10, <2>11, <2>12, <2>13, <2>14, <2>15, <2>16
<1>3. CASE ~(records[k].status = "completed" /\ records[k].result # None)
    <2>1. Replay(c, records[k]) = Result(c, "idempotency_in_progress", None)
        BY <1>3 DEF Replay
    <2>2. "idempotency_in_progress" \in Codes /\ "idempotency_in_progress" \notin EffectCodes
        BY DEF Codes, RefusalCodes, EffectCodes
    <2>3. /\ Result(c, "idempotency_in_progress", None) \in ExecutionResult
          /\ Result(c, "idempotency_in_progress", None).execution = c
          /\ Result(c, "idempotency_in_progress", None).code = "idempotency_in_progress"
        BY <2>2, OwnFailure
    <2>4. EndsWith(c, Result(c, "idempotency_in_progress", None), "returned")
        BY <1>0, <1>1, <2>1, <2>2, <2>3 DEF EndsWith, IInv, TypeOK, PastClaim
    <2> QED BY <2>4, EndInvariant
<1> QED BY <1>2, <1>3

\* The key is claimed, found in progress, or replayed.
LEMMA ClaimKeyInvariant ==
    ASSUME IInv, NEW c \in Calls, ClaimKey(c)
    PROVE  IInv'
BY AcquireInvariant, ReplayInvariant

\* The claim of a finished call is completed with the JSON form of its result.
LEMMA CompleteClaimInvariant ==
    ASSUME IInv, NEW c \in Calls, CompleteClaim(c)
    PROVE  IInv'
<1> DEFINE k == action[c].key
<1>0. /\ pc[c] = "complete" /\ result[c] \in ExecutionResult /\ result[c].execution = c
      /\ UNCHANGED <<registered, audit, invoked, action, contract, decision, approved,
                     acquired, output, result>>
    BY DEF CompleteClaim, IInv, ResultStage, TypeOK
<1>1. CASE ~acquired[c]
    <2>0. UNCHANGED records /\ pc' = [pc EXCEPT ![c] = "returned"]
        BY <1>1 DEF CompleteClaim, Goto
    <2> USE DEF IInv
    <2>1. TypeOK'
        BY <1>0, <2>0 DEF TypeOK, Sites, EventTypes
    <2>2. Entered'
        BY <1>0, <2>0 DEF TypeOK, Entered
    <2>3. ResolvedGate'
        BY <1>0, <2>0
           DEF TypeOK, ResolvedGate, PastResolve, PastDecision, PastApproval, PastClaim
    <2>4. ReceivedGate'
        BY <1>0, <2>0
           DEF TypeOK, ReceivedGate, PastResolve, PastDecision, PastApproval, PastClaim
    <2>5. DecisionGate'
        BY <1>0, <2>0 DEF TypeOK, DecisionGate, PastDecision, PastApproval, PastClaim
    <2>6. ApprovalGate'
        BY <1>0, <2>0 DEF TypeOK, ApprovalGate, PastApproval, PastClaim
    <2>7. ClaimGate'
        BY <1>0, <2>0 DEF TypeOK, ClaimGate, PastClaim
    <2>8. StartGate'
        BY <1>0, <2>0 DEF TypeOK, StartGate
    <2>9. ClaimHasRecord'
        BY <1>0, <2>0 DEF TypeOK, ClaimHasRecord, PastClaim
    <2>10. RecordHasClaim' /\ RecordIsResult'
        BY <1>0, <2>0 DEF TypeOK, RecordHasClaim, RecordIsResult
    <2>11. ResultStage'
        BY <1>0, <2>0 DEF TypeOK, ResultStage
    <2>12. ReplaySource'
        BY <1>0, <2>0 DEF TypeOK, ReplaySource, ReplayedFrom, SameKey
    <2> QED BY <2>1, <2>2, <2>3, <2>4, <2>5, <2>6, <2>7, <2>8, <2>9, <2>10, <2>11, <2>12
<1>2. CASE acquired[c]
    <2> DEFINE new == Idempotency!Completed(Idempotency!InProgress(c), model_dump(result[c]))
    <2>1. k \in Keys /\ records[k] = Idempotency!InProgress(c)
        BY <1>0, <1>2 DEF IInv, ClaimHasRecord, PastClaim
    <2>2. LET effect == Idempotency!mark_completed(records[k], c, model_dump(result[c]))
          IN  effect.record = new /\ effect.answer.outcome = "completed"
        BY <2>1 DEF Idempotency!mark_completed, Idempotency!Effect, Idempotency!InProgress
    <2>3. /\ records' = [records EXCEPT ![k] = new]
          /\ pc' = [pc EXCEPT ![c] = "returned"]
        BY <1>2, <2>2 DEF CompleteClaim, Goto
    <2>4. /\ new.status = "completed" /\ new.owner = c /\ new.result = model_dump(result[c])
          /\ new \in Idempotency!Record
        BY <1>0, RoundTrip DEF Idempotency!Completed, Idempotency!InProgress,
                               Idempotency!Record, Idempotency!Statuses
    <2> HIDE DEF new
    <2>5. /\ records'[k] = new /\ pc'[c] = "returned"
          /\ \A j \in Keys : j # k => records'[j] = records[j]
          /\ \A d \in Calls : d # c => pc'[d] = pc[d]
          /\ records[k].owner = c /\ records[k].status = "in_progress"
        BY <2>1, <2>3 DEF IInv, TypeOK, Idempotency!InProgress
    <2>6. \A d \in Calls : d # c /\ acquired[d] => action[d].key # k
        BY <2>5 DEF IInv, ClaimHasRecord
    <2> USE DEF IInv
    <2>7. TypeOK'
        BY <1>0, <1>2, <2>1, <2>3, <2>4, <2>5, <2>6 DEF TypeOK, Sites, EventTypes
    <2>8. Entered'
        BY <1>0, <1>2, <2>1, <2>3, <2>4, <2>5, <2>6 DEF TypeOK, Entered
    <2>9. ResolvedGate'
        BY <1>0, <1>2, <2>1, <2>3, <2>4, <2>5, <2>6
           DEF TypeOK, ResolvedGate, PastResolve, PastDecision, PastApproval, PastClaim
    <2>10. ReceivedGate'
        BY <1>0, <1>2, <2>1, <2>3, <2>4, <2>5, <2>6
           DEF TypeOK, ReceivedGate, PastResolve, PastDecision, PastApproval, PastClaim
    <2>11. DecisionGate'
        BY <1>0, <1>2, <2>1, <2>3, <2>4, <2>5, <2>6
           DEF TypeOK, DecisionGate, PastDecision, PastApproval, PastClaim
    <2>12. ApprovalGate'
        BY <1>0, <1>2, <2>1, <2>3, <2>4, <2>5, <2>6
           DEF TypeOK, ApprovalGate, PastApproval, PastClaim
    <2>13. ClaimGate'
        BY <1>0, <1>2, <2>1, <2>3, <2>4, <2>5, <2>6 DEF TypeOK, ClaimGate, PastClaim
    <2>14. StartGate'
        BY <1>0, <1>2, <2>1, <2>3, <2>4, <2>5, <2>6 DEF TypeOK, StartGate
    <2>15. ClaimHasRecord'
        BY <1>0, <1>2, <2>1, <2>3, <2>4, <2>5, <2>6 DEF TypeOK, ClaimHasRecord, PastClaim
    <2>16. RecordHasClaim' /\ RecordIsResult'
        BY <1>0, <1>2, <2>1, <2>3, <2>4, <2>5, <2>6 DEF TypeOK, RecordHasClaim, RecordIsResult
    <2>17. ResultStage'
        BY <1>0, <1>2, <2>1, <2>3, <2>4, <2>5, <2>6 DEF TypeOK, ResultStage
    <2>18. ReplaySource'
        BY <1>0, <1>2, <2>1, <2>3, <2>4, <2>5, <2>6
           DEF TypeOK, ReplaySource, ReplayedFrom, SameKey
    <2> QED BY <2>7, <2>8, <2>9, <2>10, <2>11, <2>12, <2>13, <2>14, <2>15, <2>16, <2>17, <2>18
<1> QED BY <1>1, <1>2

-----------------------------------------------------------------------------
\* Every step of the runtime keeps IInv.
LEMMA NextInvariant == IInv /\ [Next]_vars => IInv'
<1> SUFFICES ASSUME IInv, [Next]_vars PROVE IInv'
    OBVIOUS
<1>1. ASSUME NEW new \in Contracts, Register(new) PROVE IInv'
    BY <1>1, RegisterInvariant
<1>2. ASSUME NEW c \in Calls, NEW intent \in Intents, Receive(c, intent) PROVE IInv'
    BY <1>2, ReceiveInvariant
<1>3. ASSUME NEW c \in Calls, Step(c) PROVE IInv'
    <2>1. CASE Resolve(c) \/ EvaluatePolicy(c) \/ CheckApproval(c)
        BY <2>1, ResolveInvariant, EvaluatePolicyInvariant, CheckApprovalInvariant
    <2>2. CASE ProceedWithoutKey(c) \/ ClaimKey(c) \/ CheckPreconditions(c)
        BY <2>2, ProceedWithoutKeyInvariant, ClaimKeyInvariant, CheckPreconditionsInvariant
    <2>3. CASE StartExecution(c) \/ InvokeHandler(c) \/ HandlerRaises(c)
        BY <2>3, StartExecutionInvariant, InvokeHandlerInvariant, HandlerRaisesInvariant
    <2>4. CASE \E out \in Outputs : HandlerReturns(c, out)
        BY <2>4, HandlerReturnsInvariant
    <2>5. CASE CheckPostconditions(c) \/ CompleteClaim(c)
        BY <2>5, CheckPostconditionsInvariant, CompleteClaimInvariant
    <2> QED BY <1>3, <2>1, <2>2, <2>3, <2>4, <2>5 DEF Step
<1>4. ASSUME NEW c \in Calls, Interrupt(c) PROVE IInv'
    BY <1>4, InterruptInvariant
<1>5. CASE UNCHANGED vars
    BY <1>5 DEF vars, IInv, TypeOK, Entered, ResolvedGate, ReceivedGate, DecisionGate,
                ApprovalGate, ClaimGate, StartGate, ClaimHasRecord, RecordHasClaim,
                RecordIsResult, ResultStage, ReplaySource, ReplayedFrom, SameKey
<1> QED BY <1>1, <1>2, <1>3, <1>4, <1>5 DEF Next, Quiescent

\* IInv holds of the runtime in every reachable state.
THEOREM Invariance == Spec => []IInv
BY InitInvariant, NextInvariant, PTL DEF Spec

(***************************************************************************)
(* TypeOK holds of the runtime in every reachable state.                   *)
(***************************************************************************)
THEOREM TypeCorrect == Spec => []TypeOK
<1>1. IInv => TypeOK
    BY DEF IInv
<1> QED BY <1>1, Invariance, PTL

\* Two calls that were entered under one key would both own its record.
LEMMA OneInvocation == IInv => AtMostOneInvocationPerKey
BY DEF IInv, TypeOK, ClaimGate, ClaimHasRecord, AtMostOneInvocationPerKey, SameKey

(***************************************************************************)
(* execute() enters at most one handler per idempotency key, however many  *)
(* calls race on it and whatever its callbacks do (INV-IDEM-02).           *)
(***************************************************************************)
THEOREM AtMostOneInvocationPerKeyHolds == Spec => []AtMostOneInvocationPerKey
BY OneInvocation, Invariance, PTL

(***************************************************************************)
(* No handler is entered around a gate of execute(): contract, schema,     *)
(* policy, approval, key, and the two appends that execute() waits for     *)
(* (runtime.py:114-324).  The decision events are no gates; see            *)
(* NoUngatedEffect.                                                        *)
(***************************************************************************)
THEOREM NoUngatedEffectHolds == Spec => []NoUngatedEffect
<1>1. IInv => NoUngatedEffect
    <2> SUFFICES ASSUME IInv, NEW c \in invoked
                 PROVE  /\ registered[action[c].tool] = contract[c]
                        /\ _action_matches_contract(action[c], contract[c])
                        /\ action[c].arguments \in contract[c].accepts
                        /\ decision[c].type # "deny"
                        /\ contract[c].risk >= HIGH \/ decision[c].risk >= HIGH
                              \/ decision[c].type = "require_approval" => approved[c]
                        /\ contract[c].idempotency_key_required => action[c].key # None
                        /\ action[c].key # None => records[action[c].key].owner = c
                        /\ {"action_received", "execution_started"} \subseteq audit[c]
        BY DEF NoUngatedEffect
    <2>1. c \in Calls
        BY DEF IInv, TypeOK
    <2>2. /\ contract[c] \in Contracts
          /\ registered[action[c].tool] = contract[c]
          /\ _action_matches_contract(action[c], contract[c])
          /\ action[c].arguments \in contract[c].accepts
        BY <2>1 DEF IInv, ResolvedGate
    <2>3. /\ decision[c].type # "deny"
          /\ decision[c].risk \in RiskLevels
          /\ decision[c].risk >= contract[c].risk
          /\ decision[c].risk >= HIGH => decision[c].type = "require_approval"
          /\ decision[c].type = "require_approval" => approved[c]
        BY <2>1 DEF IInv, DecisionGate, ApprovalGate, PolicyDecisions, Decision
    <2>4. contract[c].risk >= HIGH => decision[c].risk >= HIGH
        BY <2>2, <2>3, ContractsAssumption DEF RiskLevels, LOW, HIGH, CRITICAL
    <2>5. /\ contract[c].idempotency_key_required => action[c].key # None
          /\ action[c].key # None => records[action[c].key].owner = c
        BY <2>1 DEF IInv, ClaimGate, ClaimHasRecord
    <2>6. {"action_received", "execution_started"} \subseteq audit[c]
        BY <2>1 DEF IInv, ReceivedGate, StartGate
    <2> QED BY <2>2, <2>3, <2>4, <2>5, <2>6
<1> QED BY <1>1, Invariance, PTL

(***************************************************************************)
(* A replayed result is the result of the call that owns the key.          *)
(***************************************************************************)
THEOREM ReplayIsFaithfulHolds == Spec => []ReplayIsFaithful
<1>1. IInv => ReplayIsFaithful
    BY DEF IInv, ReplaySource, ReplayedFrom, ReplayIsFaithful
<1> QED BY <1>1, Invariance, PTL

\* A result of the call's own, or that of the owner it was replayed from.
LEMMA ResultsAreTruthful == IInv => TruthfulResult
<1> SUFFICES ASSUME IInv, NEW c \in Calls, result[c] # None
             PROVE  result[c].code \in EffectCodes <=> result[c].execution \in invoked
    BY DEF TruthfulResult
<1>1. CASE result[c].execution = c
    BY <1>1 DEF IInv, ResultStage
<1>2. CASE result[c].execution # c
    <2>1. result[c].execution \in Calls /\ result[c] = result[result[c].execution]
        BY <1>2 DEF IInv, TypeOK, ExecutionResult, ReplaySource, ReplayedFrom
    <2> QED BY <2>1 DEF IInv, ResultStage
<1> QED BY <1>1, <1>2

(***************************************************************************)
(* Refusal codes are only returned for executions whose handler was never  *)
(* entered and effect codes only for executions whose handler was.         *)
(***************************************************************************)
THEOREM TruthfulResultHolds == Spec => []TruthfulResult
BY ResultsAreTruthful, Invariance, PTL

(***************************************************************************)
(* A handler is only entered while its call owns the key in the store.     *)
(***************************************************************************)
THEOREM EffectUnderOwnClaimHolds == Spec => EffectUnderOwnClaim
<1> DEFINE OwnClaim == \A c \in invoked' \ invoked :
                           action[c].key # None =>
                               records[action[c].key] = Idempotency!InProgress(c)
<1>1. IInv /\ [Next]_vars => OwnClaim
    <2> SUFFICES ASSUME IInv, [Next]_vars PROVE OwnClaim
        OBVIOUS
    <2>1. CASE UNCHANGED invoked
        BY <2>1
    <2>2. ASSUME NEW c \in Calls, InvokeHandler(c) PROVE OwnClaim
        BY <2>2 DEF InvokeHandler, IInv, ClaimGate, ClaimHasRecord, PastClaim
    <2>3. UNCHANGED invoked \/ \E c \in Calls : InvokeHandler(c)
        BY DEF Next, Quiescent, vars, Step, Register, Receive, Resolve, EvaluatePolicy,
               CheckApproval, ProceedWithoutKey, ClaimKey, CheckPreconditions,
               StartExecution, HandlerRaises, HandlerReturns, CheckPostconditions,
               CompleteClaim, Interrupt
    <2> QED BY <2>1, <2>2, <2>3
<1>2. IInv /\ [Next]_vars => [OwnClaim]_vars
    BY <1>1
<1> QED BY <1>2, Invariance, PTL DEF Spec, EffectUnderOwnClaim
=============================================================================
