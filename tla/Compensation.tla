----------------------------- MODULE Compensation ---------------------------
(***************************************************************************)
(* CompensationCoordinator.compensate()                                    *)
(* (src/agentactum/compensation/coordinator.py), called once or again for  *)
(* the same plans.  The coordinator keeps nothing between two calls.  The  *)
(* ledger is optional and may raise on any append; a compensator may       *)
(* return anything, raise, or be interrupted.  A plan is identified by its *)
(* place in the list, 0 stands for the failed execution.                   *)
(***************************************************************************)
EXTENDS Naturals, Sequences

CONSTANTS
    PlanLists,      \* the lists of plans compensate() may be given
    MaxCalls        \* bound on the calls for one list of plans

EffectTypes ==
    {"read_only", "idempotent", "reversible", "compensatable", "stageable", "irreversible"}

\* `succeeded' is that of the execution, `compensator' whether there is one.
CompensationPlan == [succeeded : BOOLEAN, effect_type : EffectTypes, compensator : BOOLEAN]

ASSUME PlanListsAssumption == PlanLists \subseteq Seq(CompensationPlan)

ASSUME MaxCallsAssumption == MaxCalls \in Nat \ {0}

_COMPENSATABLE_EFFECTS == {"reversible", "compensatable", "stageable"}

SummaryStatuses == {"not_required", "compensated", "partially_compensated", "failed"}

CompensationResult == [plan : Nat, succeeded : BOOLEAN]

EventTypes ==
    {"started", "skipped_read_only", "irreversible", "skipped_uncompensatable",
     "missing_compensator", "attempted", "succeeded", "failed", "completed"}

VARIABLES
    plans,              \* ordered_plans
    failed_execution,   \* whether a failed execution was given
    ledger,             \* whether there is a ledger
    calls,              \* the number of the current call
    pc,
    index,              \* the plan the reversed loop is at
    succeeded,          \* how the compensator of that plan came out
    results,
    uncompensated,
    status,             \* of the summary that is returned
    audit,              \* the events in the ledger
    entered,            \* history: <<call, plan>> of every compensator entered
    undone              \* history: <<call, plan>> of every compensator that returned

vars == <<plans, failed_execution, ledger, calls, pc, index, succeeded, results,
          uncompensated, status, audit, entered, undone>>

Given == <<plans, failed_execution, ledger, calls>>

TypeOK ==
    /\ plans \in PlanLists
    /\ failed_execution \in BOOLEAN /\ ledger \in BOOLEAN /\ succeeded \in BOOLEAN
    /\ calls \in 1..MaxCalls
    /\ pc \in {"begin", "loop", "enter", "running", "record", "returned", "raised"}
    /\ index \in 0..Len(plans)
    /\ results \in Seq(CompensationResult)
    /\ uncompensated \in Seq(DOMAIN plans)
    /\ status \in SummaryStatuses
    /\ audit \subseteq [call : 1..MaxCalls, event : EventTypes, plan : 0..Len(plans)]
    /\ entered \subseteq (1..MaxCalls) \X DOMAIN plans
    /\ undone \subseteq entered

Init ==
    /\ plans \in PlanLists
    /\ failed_execution \in BOOLEAN
    /\ ledger \in BOOLEAN
    /\ calls         = 1
    /\ pc            = "begin"
    /\ index         = Len(plans)
    /\ succeeded     = FALSE
    /\ results       = <<>>
    /\ uncompensated = <<>>
    /\ status        = "not_required"
    /\ audit         = {}
    /\ entered       = {}
    /\ undone        = {}

-----------------------------------------------------------------------------
\* _append_event() comes back; without a ledger it does nothing.
Logged(event, plan) ==
    audit' = IF ledger THEN audit \cup {[call |-> calls, event |-> event, plan |-> plan]}
             ELSE audit

\* ledger.append() raises, and compensate() catches nothing.
AppendRaises ==
    /\ ledger
    /\ pc' = "raised"
    /\ UNCHANGED <<audit, index, results, uncompensated, status>>

Begin ==
    /\ pc = "begin"
    /\ \/ /\ IF failed_execution THEN Logged("started", 0) ELSE UNCHANGED audit
          /\ pc' = "loop"
          /\ UNCHANGED <<index, results, uncompensated, status>>
       \/ failed_execution /\ AppendRaises
    /\ UNCHANGED <<Given, succeeded, entered, undone>>

\* @mutant of Disposition: a stageable effect is taken for a harmless one.
StageableIsHarmless(plan) ==
    IF ~plan.succeeded                        THEN "ignored"
    ELSE IF plan.effect_type = "read_only"    THEN "skipped_read_only"
    ELSE IF plan.effect_type = "irreversible" THEN "irreversible"
    ELSE IF plan.effect_type \notin _COMPENSATABLE_EFFECTS \ {"stageable"}
                                              THEN "skipped_uncompensatable"
    ELSE IF ~plan.compensator                 THEN "missing_compensator"
    ELSE "attempted"

\* The branch of the loop a plan takes, named by the event it logs.
Disposition(plan) ==
    IF ~plan.succeeded                        THEN "ignored"
    ELSE IF plan.effect_type = "read_only"    THEN "skipped_read_only"
    ELSE IF plan.effect_type = "irreversible" THEN "irreversible"
    ELSE IF plan.effect_type \notin _COMPENSATABLE_EFFECTS
                                              THEN "skipped_uncompensatable"
    ELSE IF ~plan.compensator                 THEN "missing_compensator"
    ELSE "attempted"

AtPlan == pc = "loop" /\ index > 0

\* @mutant of IgnoreFailed: the loop steps over the plan before it, too.
IgnoreTwo ==
    /\ AtPlan
    /\ Disposition(plans[index]) = "ignored"
    /\ index' = index - 2
    /\ UNCHANGED <<Given, pc, succeeded, results, uncompensated, status, audit,
                   entered, undone>>

\* An execution that failed left no effect.
IgnoreFailed ==
    /\ AtPlan
    /\ Disposition(plans[index]) = "ignored"
    /\ index' = index - 1
    /\ UNCHANGED <<Given, pc, succeeded, results, uncompensated, status, audit,
                   entered, undone>>

\* The branches that end in `continue'.
SkipPlan ==
    LET branch == Disposition(plans[index])
    IN  /\ AtPlan
        /\ branch \notin {"ignored", "attempted"}
        /\ \/ /\ Logged(branch, index)
              /\ index' = index - 1
              /\ uncompensated' = IF branch \in {"irreversible", "missing_compensator"}
                                  THEN Append(uncompensated, index) ELSE uncompensated
              /\ UNCHANGED <<pc, results, status>>
           \/ AppendRaises
        /\ UNCHANGED <<Given, succeeded, entered, undone>>

\* @mutant of AnnounceAttempt: the compensator runs without its event.
AttemptUnannounced ==
    /\ AtPlan
    /\ Disposition(plans[index]) = "attempted"
    /\ pc' = "enter"
    /\ UNCHANGED <<Given, index, succeeded, results, uncompensated, status, audit,
                   entered, undone>>

\* _attempt_compensation() logs the attempt before it makes it.
AnnounceAttempt ==
    /\ AtPlan
    /\ Disposition(plans[index]) = "attempted"
    /\ \/ /\ Logged("attempted", index)
          /\ pc' = "enter"
          /\ UNCHANGED <<index, results, uncompensated, status>>
       \/ AppendRaises
    /\ UNCHANGED <<Given, succeeded, entered, undone>>

EnterCompensator ==
    /\ pc = "enter"
    /\ pc' = "running"
    /\ entered' = entered \cup {<<calls, index>>}
    /\ UNCHANGED <<Given, index, succeeded, results, uncompensated, status, audit, undone>>

\* The compensator returns a JSON value, or raises an Exception.
CompensatorEnds ==
    /\ pc = "running"
    /\ pc' = "record"
    /\ succeeded' \in BOOLEAN
    /\ undone' = IF succeeded' THEN undone \cup {<<calls, index>>} ELSE undone
    /\ UNCHANGED <<Given, index, results, uncompensated, status, audit, entered>>

(***************************************************************************)
(* The compensator has returned, but its output is no JsonValue and the    *)
(* CompensationResult cannot be built; or a BaseException crosses it.      *)
(* compensate() catches neither.                                           *)
(***************************************************************************)
ResultLost ==
    /\ pc = "running"
    /\ pc' = "raised"
    /\ undone' \in {undone, undone \cup {<<calls, index>>}}
    /\ UNCHANGED <<Given, index, succeeded, results, uncompensated, status, audit, entered>>

\* @mutant of RecordResult: a failed compensation ends the loop.
StopAtFailure ==
    /\ pc = "record"
    /\ \/ /\ Logged(IF succeeded THEN "succeeded" ELSE "failed", index)
          /\ results' = Append(results, [plan |-> index, succeeded |-> succeeded])
          /\ index' = IF succeeded THEN index - 1 ELSE 0
          /\ pc' = "loop"
          /\ UNCHANGED <<uncompensated, status>>
       \/ AppendRaises
    /\ UNCHANGED <<Given, succeeded, entered, undone>>

\* @mutant of RecordResult: a lost event is overcome by a second attempt.
RetryLostEvent ==
    /\ pc = "record"
    /\ \/ /\ Logged(IF succeeded THEN "succeeded" ELSE "failed", index)
          /\ results' = Append(results, [plan |-> index, succeeded |-> succeeded])
          /\ index' = index - 1
          /\ pc' = "loop"
          /\ UNCHANGED <<uncompensated, status>>
       \/ ledger /\ pc' = "enter"
            /\ UNCHANGED <<audit, index, results, uncompensated, status>>
    /\ UNCHANGED <<Given, succeeded, entered, undone>>

\* The result is logged and joins the results; the loop goes on either way.
RecordResult ==
    /\ pc = "record"
    /\ \/ /\ Logged(IF succeeded THEN "succeeded" ELSE "failed", index)
          /\ results' = Append(results, [plan |-> index, succeeded |-> succeeded])
          /\ index' = index - 1
          /\ pc' = "loop"
          /\ UNCHANGED <<uncompensated, status>>
       \/ AppendRaises
    /\ UNCHANGED <<Given, succeeded, entered, undone>>

\* @mutant of _summarize_status: missing and irreversible effects are forgotten.
SummaryOfResultsOnly(done, left) ==
    LET successes == {i \in DOMAIN done : done[i].succeeded}
    IN  IF done = <<>> /\ left = <<>> THEN "not_required"
        ELSE IF successes = DOMAIN done THEN "compensated"
        ELSE IF successes # {} THEN "partially_compensated"
        ELSE "failed"

_summarize_status(done, left) ==
    LET successes == {i \in DOMAIN done : done[i].succeeded}
    IN  IF done = <<>> /\ left = <<>> THEN "not_required"
        ELSE IF left # <<>> THEN
            IF successes # {} THEN "partially_compensated" ELSE "failed"
        ELSE IF successes = DOMAIN done THEN "compensated"
        ELSE IF successes # {} THEN "partially_compensated"
        ELSE "failed"

Summarize ==
    /\ pc = "loop"
    /\ index = 0
    /\ \/ /\ IF failed_execution THEN Logged("completed", 0) ELSE UNCHANGED audit
          /\ status' = _summarize_status(results, uncompensated)
          /\ pc' = "returned"
          /\ UNCHANGED <<index, results, uncompensated>>
       \/ failed_execution /\ AppendRaises
    /\ UNCHANGED <<Given, succeeded, entered, undone>>

Ended == pc \in {"returned", "raised"}

\* The host calls compensate() again with the plans it has.
CallAgain ==
    /\ Ended
    /\ calls < MaxCalls
    /\ calls'         = calls + 1
    /\ pc'            = "begin"
    /\ index'         = Len(plans)
    /\ succeeded'     = FALSE
    /\ results'       = <<>>
    /\ uncompensated' = <<>>
    /\ status'        = "not_required"
    /\ UNCHANGED <<plans, failed_execution, ledger, audit, entered, undone>>

\* The host makes no more calls.
Quiescent == Ended /\ UNCHANGED vars

Proceed ==
    \/ Begin \/ IgnoreFailed \/ SkipPlan \/ AnnounceAttempt \/ EnterCompensator
    \/ CompensatorEnds \/ ResultLost \/ RecordResult \/ Summarize

Next == Proceed \/ CallAgain \/ Quiescent

\* compensate() keeps running, and compensators come back.
Fairness == WF_vars(Proceed)

Spec == Init /\ [][Next]_vars /\ Fairness

-----------------------------------------------------------------------------
\* What this call has entered and undone.
EnteredNow == {i \in DOMAIN plans : <<calls, i>> \in entered}
UndoneNow  == {i \in DOMAIN plans : <<calls, i>> \in undone}

\* The effects that happened and are not harmless to leave in place.
Owed(i) == plans[i].succeeded /\ plans[i].effect_type \notin {"read_only", "idempotent"}

Attemptable(i) == Owed(i) /\ plans[i].effect_type # "irreversible" /\ plans[i].compensator

Later == {i \in DOMAIN plans : i > index}

(***************************************************************************)
(* Reverse recovery order (INV-EXE-04), also when the call breaks off in   *)
(* the middle: every attemptable effect after the current plan has had its *)
(* compensator run, none before it has, and only the current one may be in *)
(* doubt (coordinator.py:81-102).                                          *)
(***************************************************************************)
ReverseOrder ==
    /\ {i \in Later : Attemptable(i)} \subseteq EnteredNow
    /\ EnteredNow \subseteq {i \in Later : Attemptable(i)} \cup {index}

(***************************************************************************)
(* Every effect is accounted for, once: the results and the uncompensated  *)
(* executions share no plan, both run backwards, and together they are the *)
(* effects that are owed, whichever compensators failed on the way.        *)
(***************************************************************************)
EffectsAccountedOnce ==
    LET attempted == {results[i].plan : i \in DOMAIN results}
        left      == {uncompensated[i] : i \in DOMAIN uncompensated}
    IN  /\ attempted \cap left = {}
        /\ attempted \cup left = {i \in Later : Owed(i)}
        /\ \A i, j \in DOMAIN results : i < j => results[i].plan > results[j].plan
        /\ \A i, j \in DOMAIN uncompensated : i < j => uncompensated[i] > uncompensated[j]

(***************************************************************************)
(* The summary is honest: its status follows from what this call's         *)
(* compensators did.  "compensated" is never said while an owed effect     *)
(* stands, nor "failed" when one was undone (coordinator.py:174-189).      *)
(***************************************************************************)
StatusIsHonest ==
    LET owed == {i \in DOMAIN plans : Owed(i)}
    IN  pc = "returned" =>
            /\ status = "not_required" <=> owed = {}
            /\ status = "compensated" <=> owed # {} /\ owed \subseteq UndoneNow
            /\ status = "failed" <=> owed # {} /\ UndoneNow = {}

(***************************************************************************)
(* Every attempt stays visible (INV-EXE-05): with a ledger no compensator  *)
(* is entered unannounced, in whatever call, also when its result is lost; *)
(* and when the call returns, the log tells of every effect what the       *)
(* compensators did.                                                       *)
(***************************************************************************)
RecoveryIsAudited ==
    LET About(event) == {i \in DOMAIN plans :
                            [call |-> calls, event |-> event, plan |-> i] \in audit}
    IN  ledger =>
          /\ \A e \in entered : [call |-> e[1], event |-> "attempted", plan |-> e[2]] \in audit
          /\ pc = "returned" =>
                /\ About("succeeded") = UndoneNow
                /\ About("failed") = EnteredNow \ UndoneNow
                /\ About("irreversible") \cup About("missing_compensator") =
                      {i \in DOMAIN plans : Owed(i) /\ ~Attemptable(i)}

(***************************************************************************)
(* A compensator runs at most once in a call: a result that is lost, or an *)
(* event the ledger refused, never makes the coordinator try again; only a *)
(* new call of compensate() repeats a compensator (coordinator.py:122).    *)
(***************************************************************************)
NoSecondAttempt ==
    [][pc = "enter" /\ pc' = "running" => <<calls, index>> \notin entered]_vars

\* Every call of compensate() returns or raises.
CallEnds == \A n \in 1..MaxCalls : calls = n ~> calls = n /\ Ended
=============================================================================
