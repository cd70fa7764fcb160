-------------------------- MODULE CompensationProofs --------------------------
(***************************************************************************)
(* Proofs about Compensation for lists of any length, any plans and any    *)
(* number of calls.                                                        *)
(***************************************************************************)
EXTENDS Compensation, TLAPS

\* An owed effect no compensator can be run for.
Stands(i) == Owed(i) /\ ~Attemptable(i)

\* The sites of _attempt_compensation() belong to an attemptable plan.
Sites ==
    /\ pc \in {"enter", "running", "record"} => index > 0 /\ Attemptable(index)
    /\ pc = "begin" => index = Len(plans)
    /\ pc = "returned" => index = 0 /\ status = _summarize_status(results, uncompensated)

\* The histories do not know of later calls.
Past ==
    /\ \A e \in entered : e[1] <= calls
    /\ \A a \in audit : a.call <= calls

\* This call has entered the attemptable plans after the current one.
EnteredSoFar ==
    /\ \A i \in Later : <<calls, i>> \in entered <=> Attemptable(i)
    /\ \A i \in DOMAIN plans : i < index => <<calls, i>> \notin entered
    /\ pc \in {"begin", "loop", "enter"} => <<calls, index>> \notin entered
    /\ pc \in {"running", "record"} => <<calls, index>> \in entered

\* What the compensator of the current plan did.
UndoneSoFar ==
    /\ pc = "running" => <<calls, index>> \notin undone
    /\ pc = "record" => (succeeded <=> <<calls, index>> \in undone)

\* One result per attempt behind the loop, the latest plan first.
ResultsSoFar ==
    /\ \A n \in DOMAIN results :
          LET i == results[n].plan
          IN  /\ i \in Later /\ Attemptable(i)
              /\ results[n].succeeded <=> <<calls, i>> \in undone
    /\ \A i \in Later : Attemptable(i) => \E n \in DOMAIN results : results[n].plan = i
    /\ \A n, m \in DOMAIN results : n < m => results[n].plan > results[m].plan

\* The same for the effects that had to be left in place.
LeftSoFar ==
    /\ \A n \in DOMAIN uncompensated : uncompensated[n] \in Later /\ Stands(uncompensated[n])
    /\ \A i \in Later : Stands(i) => \E n \in DOMAIN uncompensated : uncompensated[n] = i
    /\ \A n, m \in DOMAIN uncompensated : n < m => uncompensated[n] > uncompensated[m]

Told(event, i) == [call |-> calls, event |-> event, plan |-> i] \in audit

\* The log holds what has been decided of the plans behind the loop.
AuditSoFar ==
    ledger =>
        /\ \A e \in entered : [call |-> e[1], event |-> "attempted", plan |-> e[2]] \in audit
        /\ pc = "enter" => Told("attempted", index)
        /\ \A i \in DOMAIN plans :
              /\ Told("succeeded", i) <=> i \in Later /\ <<calls, i>> \in undone
              /\ Told("failed", i) <=> i \in Later /\ Attemptable(i) /\ <<calls, i>> \notin undone
              /\ Told("irreversible", i) \/ Told("missing_compensator", i)
                    <=> i \in Later /\ Stands(i)

IInv ==
    /\ TypeOK
    /\ Sites
    /\ Past
    /\ EnteredSoFar
    /\ UndoneSoFar
    /\ ResultsSoFar
    /\ LeftSoFar
    /\ AuditSoFar

-----------------------------------------------------------------------------
\* The branches of the loop partition the plans by what is owed.
LEMMA DispositionIsOwed ==
    ASSUME NEW i \in DOMAIN plans, plans[i] \in CompensationPlan
    PROVE  /\ Disposition(plans[i]) = "ignored" => ~Owed(i) /\ ~Attemptable(i)
           /\ Disposition(plans[i]) = "attempted" => Attemptable(i)
           /\ Disposition(plans[i]) \in {"irreversible", "missing_compensator"} => Stands(i)
           /\ Disposition(plans[i]) \in {"skipped_read_only", "skipped_uncompensatable"} =>
                 ~Owed(i) /\ ~Attemptable(i)
           /\ Disposition(plans[i]) \in EventTypes \cup {"ignored"}
           /\ Disposition(plans[i]) \in
                 {"ignored", "attempted", "irreversible", "missing_compensator",
                  "skipped_read_only", "skipped_uncompensatable"}
BY DEF Disposition, Owed, Attemptable, Stands, CompensationPlan, EffectTypes, EventTypes,
       _COMPENSATABLE_EFFECTS

\* What append() does to a list.
LEMMA AppendFacts ==
    ASSUME NEW S, NEW s \in Seq(S), NEW e \in S
    PROVE  /\ Append(s, e) \in Seq(S)
           /\ Len(s) \in Nat /\ DOMAIN s = 1..Len(s)
           /\ DOMAIN Append(s, e) = DOMAIN s \cup {Len(s) + 1}
           /\ \A n \in DOMAIN s : Append(s, e)[n] = s[n] /\ n < Len(s) + 1
           /\ Append(s, e)[Len(s) + 1] = e
OBVIOUS

\* The plans of a list are plans.
LEMMA PlansAreTyped ==
    ASSUME TypeOK
    PROVE  /\ plans \in Seq(CompensationPlan)
           /\ Len(plans) \in Nat
           /\ DOMAIN plans = 1..Len(plans)
           /\ \A i \in DOMAIN plans : plans[i] \in CompensationPlan
BY PlanListsAssumption DEF TypeOK

\* The first call has not begun.
LEMMA InitIInv == Init => IInv
<1> SUFFICES ASSUME Init PROVE IInv
    OBVIOUS
<1>1. TypeOK
    <2>1. plans \in Seq(CompensationPlan)
        BY PlanListsAssumption DEF Init
    <2>2. Len(plans) \in Nat
        BY <2>1
    <2>3. 1 \in 1..MaxCalls
        BY MaxCallsAssumption
    <2>4. /\ results \in Seq(CompensationResult)
          /\ uncompensated \in Seq(DOMAIN plans)
        BY DEF Init
    <2>5. index \in 0..Len(plans) /\ calls \in 1..MaxCalls
        BY <2>2, <2>3 DEF Init
    <2>6. /\ audit \subseteq [call : 1..MaxCalls, event : EventTypes, plan : 0..Len(plans)]
          /\ entered \subseteq (1..MaxCalls) \X DOMAIN plans
          /\ undone \subseteq entered
        BY DEF Init
    <2> QED BY <2>4, <2>5, <2>6 DEF Init, TypeOK, SummaryStatuses
<1>2. Later = {} /\ Len(plans) \in Nat /\ DOMAIN plans = 1..Len(plans)
    BY <1>1, PlansAreTyped DEF Init, Later
<1>3. Sites /\ Past /\ EnteredSoFar /\ UndoneSoFar
    BY <1>2 DEF Init, Sites, Past, EnteredSoFar, UndoneSoFar
<1>4. ResultsSoFar /\ LeftSoFar /\ AuditSoFar
    BY <1>2 DEF Init, ResultsSoFar, LeftSoFar, AuditSoFar, Told
<1> QED BY <1>1, <1>3, <1>4 DEF IInv

-----------------------------------------------------------------------------
\* What is owed only depends on the plans, which do not change.
LEMMA OwedIsFixed ==
    ASSUME plans' = plans
    PROVE  \A i : /\ Owed(i)' <=> Owed(i)
                  /\ Attemptable(i)' <=> Attemptable(i)
                  /\ Stands(i)' <=> Stands(i)
BY DEF Owed, Attemptable, Stands

\* An event that is logged is the only new one.
LEMMA LoggedAdds ==
    ASSUME TypeOK, NEW event \in EventTypes, NEW plan \in 0..Len(plans), Logged(event, plan),
           UNCHANGED Given
    PROVE  /\ audit' \subseteq [call : 1..MaxCalls, event : EventTypes, plan : 0..Len(plans)]
           /\ \A a \in audit' : a \in audit \/ a.call = calls
           /\ audit \subseteq audit'
           /\ \A e \in EventTypes, i \in 0..Len(plans) :
                 Told(e, i)' <=> Told(e, i) \/ (ledger /\ e = event /\ i = plan)
BY DEF TypeOK, Logged, Told, Given

\* A step that only moves pc to "raised".
LEMMA RaisingKeepsIInv ==
    ASSUME IInv, AppendRaises, UNCHANGED <<Given, succeeded, entered, undone>>
    PROVE  IInv'
<1> USE DEF IInv, AppendRaises, Given
<1>1. TypeOK'
    BY DEF TypeOK
<1>2. Later' = Later /\ \A i : (Owed(i)' <=> Owed(i)) /\ (Attemptable(i)' <=> Attemptable(i))
                               /\ (Stands(i)' <=> Stands(i))
    BY OwedIsFixed DEF Later
<1>3. Sites' /\ Past' /\ EnteredSoFar' /\ UndoneSoFar'
    BY <1>2 DEF Sites, Past, EnteredSoFar, UndoneSoFar
<1>4. ResultsSoFar' /\ LeftSoFar'
    BY <1>2 DEF ResultsSoFar, LeftSoFar
<1>5. AuditSoFar'
    BY <1>2 DEF AuditSoFar, Told
<1> QED BY <1>1, <1>3, <1>4, <1>5

\* The first event, or a ledger that refuses it.
LEMMA BeginInv == ASSUME IInv, Begin PROVE IInv'
<1> USE DEF IInv
<1>1. CASE failed_execution /\ AppendRaises
    BY <1>1, RaisingKeepsIInv DEF Begin
<1>2. CASE /\ IF failed_execution THEN Logged("started", 0) ELSE UNCHANGED audit
           /\ pc' = "loop"
           /\ UNCHANGED <<index, results, uncompensated, status>>
    <2> UNCHANGED <<Given, succeeded, entered, undone>> /\ pc = "begin"
        BY <1>2 DEF Begin
    <2> USE DEF Given
    <2>1. Later' = Later /\ \A i : (Owed(i)' <=> Owed(i)) /\ (Attemptable(i)' <=> Attemptable(i))
                                   /\ (Stands(i)' <=> Stands(i))
        BY <1>2, OwedIsFixed DEF Later
    <2>2. "started" \in EventTypes /\ 0 \in 0..Len(plans) /\ DOMAIN plans = 1..Len(plans)
        BY PlansAreTyped DEF EventTypes
    <2>3. /\ audit' \subseteq [call : 1..MaxCalls, event : EventTypes, plan : 0..Len(plans)]
          /\ \A a \in audit' : a \in audit \/ a.call = calls
          /\ audit \subseteq audit'
          /\ \A e \in EventTypes, i \in DOMAIN plans : Told(e, i)' <=> Told(e, i)
        <3>1. CASE failed_execution
            BY <1>2, <2>2, <3>1, LoggedAdds
        <3>2. CASE ~failed_execution
            BY <1>2, <3>2 DEF TypeOK, Told
        <3> QED BY <3>1, <3>2
    <2>4. TypeOK'
        BY <1>2, <2>3 DEF TypeOK
    <2>5. Sites' /\ Past' /\ EnteredSoFar' /\ UndoneSoFar'
        BY <1>2, <2>1, <2>3 DEF Sites, Past, EnteredSoFar, UndoneSoFar, TypeOK
    <2>6. ResultsSoFar' /\ LeftSoFar'
        BY <1>2, <2>1 DEF ResultsSoFar, LeftSoFar
    <2>7. AuditSoFar'
        BY <1>2, <2>1, <2>3 DEF AuditSoFar, EventTypes
    <2> QED BY <2>4, <2>5, <2>6, <2>7
<1> QED BY <1>1, <1>2 DEF Begin

\* The loop leaves a plan behind.
LEMMA LoopMovesOn ==
    ASSUME TypeOK, index > 0, index' = index - 1, UNCHANGED plans
    PROVE  /\ Later' = Later \cup {index}
           /\ index \in DOMAIN plans /\ index \notin Later
           /\ index' \in 0..Len(plans)
           /\ \A i \in DOMAIN plans : i < index' => i < index
           /\ \A i : /\ Owed(i)' <=> Owed(i)
                     /\ Attemptable(i)' <=> Attemptable(i)
                     /\ Stands(i)' <=> Stands(i)
BY PlansAreTyped, OwedIsFixed DEF TypeOK, Later

\* Nothing has been entered for the plan the loop comes to.
LEMMA NextPlanIsFresh ==
    ASSUME TypeOK, EnteredSoFar, index > 0, index' = index - 1, pc' = "loop",
           UNCHANGED <<plans, calls, entered>>,
           <<calls, index>> \in entered <=> Attemptable(index)
    PROVE  EnteredSoFar'
<1>1. \A i \in Later' : <<calls, i>> \in entered <=> Attemptable(i)'
    BY LoopMovesOn DEF EnteredSoFar
<1>2. \A i \in DOMAIN plans : i < index' => <<calls, i>> \notin entered
    BY LoopMovesOn DEF EnteredSoFar
<1>3. <<calls, index'>> \notin entered
    <2>1. CASE index' = 0
        <3>1. index' \notin DOMAIN plans
            BY <2>1, PlansAreTyped
        <3> QED BY <3>1 DEF TypeOK
    <2>2. CASE index' # 0
        <3>1. index' \in DOMAIN plans /\ index' < index
            BY <2>2, PlansAreTyped DEF TypeOK
        <3> QED BY <3>1 DEF EnteredSoFar
    <2> QED BY <2>1, <2>2
<1> QED BY <1>1, <1>2, <1>3 DEF EnteredSoFar

\* A failed execution is stepped over.
LEMMA IgnoreFailedInv == ASSUME IInv, IgnoreFailed PROVE IInv'
<1> USE DEF IInv, Given
<1>0. /\ pc = "loop" /\ index > 0 /\ index' = index - 1
      /\ UNCHANGED <<plans, failed_execution, ledger, calls, pc, succeeded, results,
                     uncompensated, status, audit, entered, undone>>
    BY DEF IgnoreFailed, AtPlan
<1>1. ~Owed(index) /\ ~Attemptable(index) /\ ~Stands(index)
    BY <1>0, LoopMovesOn, PlansAreTyped, DispositionIsOwed DEF IgnoreFailed, Stands
<1>2. /\ Later' = Later \cup {index}
      /\ index \in DOMAIN plans /\ index \notin Later
      /\ index' \in 0..Len(plans)
      /\ \A i : /\ Owed(i)' <=> Owed(i)
                /\ Attemptable(i)' <=> Attemptable(i)
                /\ Stands(i)' <=> Stands(i)
    BY <1>0, LoopMovesOn
<1>3. TypeOK'
    BY <1>0, <1>2 DEF TypeOK
<1>4. Sites' /\ Past' /\ UndoneSoFar'
    BY <1>0 DEF Sites, Past, UndoneSoFar
<1>5. EnteredSoFar'
    <2>1. <<calls, index>> \notin entered
        BY <1>0 DEF EnteredSoFar
    <2> QED BY <1>0, <1>1, <2>1, NextPlanIsFresh
<1>6. ResultsSoFar' /\ LeftSoFar'
    BY <1>0, <1>1, <1>2 DEF ResultsSoFar, LeftSoFar
<1>7. AuditSoFar'
    BY <1>0, <1>1, <1>2 DEF AuditSoFar, Told, EnteredSoFar, TypeOK
<1> QED BY <1>3, <1>4, <1>5, <1>6, <1>7

\* The branches that end in `continue'.
LEMMA SkipPlanInv == ASSUME IInv, SkipPlan PROVE IInv'
<1> USE DEF IInv, Given
<1> DEFINE branch == Disposition(plans[index])
<1>0. /\ pc = "loop" /\ index > 0 /\ branch \notin {"ignored", "attempted"}
      /\ UNCHANGED <<Given, succeeded, entered, undone>>
    BY DEF SkipPlan, AtPlan
<1>1. CASE AppendRaises
    BY <1>0, <1>1, RaisingKeepsIInv
<1>2. CASE /\ Logged(branch, index)
           /\ index' = index - 1
           /\ uncompensated' = IF branch \in {"irreversible", "missing_compensator"}
                               THEN Append(uncompensated, index) ELSE uncompensated
           /\ UNCHANGED <<pc, results, status>>
    <2>1. /\ Later' = Later \cup {index}
          /\ index \in DOMAIN plans /\ index \notin Later
          /\ index' \in 0..Len(plans)
          /\ \A i : /\ Owed(i)' <=> Owed(i)
                    /\ Attemptable(i)' <=> Attemptable(i)
                    /\ Stands(i)' <=> Stands(i)
        BY <1>0, <1>2, LoopMovesOn
    <2>2. /\ branch \in EventTypes
          /\ branch \in {"irreversible", "missing_compensator"} <=> Stands(index)
          /\ ~Attemptable(index)
          /\ branch \notin {"succeeded", "failed"}
        BY <1>0, <2>1, PlansAreTyped, DispositionIsOwed DEF Stands, EventTypes
    <2>3. /\ audit' \subseteq [call : 1..MaxCalls, event : EventTypes, plan : 0..Len(plans)]
          /\ \A a \in audit' : a \in audit \/ a.call = calls
          /\ audit \subseteq audit'
          /\ \A e \in EventTypes, i \in 0..Len(plans) :
                Told(e, i)' <=> Told(e, i) \/ (ledger /\ e = branch /\ i = index)
        BY <1>0, <1>2, <2>2, LoggedAdds DEF TypeOK
    <2> HIDE DEF branch
    <2>4. uncompensated' \in Seq(DOMAIN plans)
        <3>1. uncompensated \in Seq(DOMAIN plans)
            BY DEF TypeOK
        <3>2. Append(uncompensated, index) \in Seq(DOMAIN plans)
            BY <2>1, <3>1, AppendFacts
        <3> QED BY <1>2, <3>1, <3>2
    <2>5. TypeOK'
        BY <1>0, <1>2, <2>1, <2>3, <2>4 DEF TypeOK
    <2>6. Sites' /\ Past' /\ UndoneSoFar'
        BY <1>0, <1>2, <2>3 DEF Sites, Past, UndoneSoFar, TypeOK
    <2>7. EnteredSoFar'
        <3>1. <<calls, index>> \notin entered
            BY <1>0 DEF EnteredSoFar
        <3> QED BY <1>0, <1>2, <2>2, <3>1, NextPlanIsFresh
    <2>8. ResultsSoFar'
        BY <1>0, <1>2, <2>1, <2>2 DEF ResultsSoFar
    <2>9. LeftSoFar'
        <3>1. CASE Stands(index)
            <4>1. uncompensated' = Append(uncompensated, index)
                BY <1>2, <2>2, <3>1
            <4>2. \A n \in DOMAIN uncompensated : uncompensated[n] > index
                BY DEF LeftSoFar, Later
            <4>3. uncompensated \in Seq(DOMAIN plans)
                BY DEF TypeOK
            <4>4. /\ DOMAIN uncompensated' = DOMAIN uncompensated \cup {Len(uncompensated) + 1}
                  /\ \A n \in DOMAIN uncompensated :
                        uncompensated'[n] = uncompensated[n] /\ n < Len(uncompensated) + 1
                  /\ uncompensated'[Len(uncompensated) + 1] = index
                  /\ DOMAIN uncompensated = 1..Len(uncompensated) /\ Len(uncompensated) \in Nat
                BY <2>1, <4>1, <4>3, AppendFacts
            <4>5. \A n \in DOMAIN uncompensated' :
                      uncompensated'[n] \in Later' /\ Stands(uncompensated'[n])
                BY <2>1, <3>1, <4>4 DEF LeftSoFar
            <4>6. \A i \in Later' : Stands(i) =>
                      \E n \in DOMAIN uncompensated' : uncompensated'[n] = i
                BY <2>1, <4>4 DEF LeftSoFar
            <4>7. ASSUME NEW n \in DOMAIN uncompensated', NEW m \in DOMAIN uncompensated', n < m
                  PROVE  uncompensated'[n] > uncompensated'[m]
                <5>1. n \in DOMAIN uncompensated
                    BY <4>4, <4>7
                <5> QED BY <4>2, <4>4, <4>7, <5>1 DEF LeftSoFar
            <4> QED BY <2>1, <4>5, <4>6, <4>7 DEF LeftSoFar
        <3>2. CASE ~Stands(index)
            BY <1>0, <1>2, <2>1, <2>2, <3>2 DEF LeftSoFar
        <3> QED BY <3>1, <3>2
    <2>10. AuditSoFar'
        <3> SUFFICES ASSUME ledger PROVE AuditSoFar'
            BY <1>0 DEF AuditSoFar
        <3>1. \A e \in entered : [call |-> e[1], event |-> "attempted", plan |-> e[2]] \in audit'
            BY <2>3 DEF AuditSoFar
        <3>2. ASSUME NEW i \in DOMAIN plans
              PROVE  /\ Told("succeeded", i)' <=> i \in Later' /\ <<calls, i>> \in undone
                     /\ Told("failed", i)' <=> i \in Later' /\ Attemptable(i)
                                                  /\ <<calls, i>> \notin undone
                     /\ Told("irreversible", i)' \/ Told("missing_compensator", i)'
                           <=> i \in Later' /\ Stands(i)
            <4>1. i \in 0..Len(plans)
                BY PlansAreTyped
            <4>2. <<calls, index>> \notin undone
                BY <1>0 DEF EnteredSoFar, TypeOK
            <4>3. /\ Told("succeeded", i)' <=> Told("succeeded", i)
                  /\ Told("failed", i)' <=> Told("failed", i)
                  /\ Told("irreversible", i)' \/ Told("missing_compensator", i)' <=>
                        \/ Told("irreversible", i) \/ Told("missing_compensator", i)
                        \/ i = index /\ Stands(index)
                BY <2>2, <2>3, <4>1 DEF EventTypes
            <4> QED BY <2>1, <2>2, <4>2, <4>3 DEF AuditSoFar
        <3> QED BY <1>0, <1>2, <2>1, <3>1, <3>2 DEF AuditSoFar
    <2> QED BY <2>5, <2>6, <2>7, <2>8, <2>9, <2>10
<1> QED BY <1>1, <1>2 DEF SkipPlan

\* The event before the attempt.
LEMMA AnnounceAttemptInv == ASSUME IInv, AnnounceAttempt PROVE IInv'
<1> USE DEF IInv, Given
<1>0. /\ pc = "loop" /\ index > 0 /\ Disposition(plans[index]) = "attempted"
      /\ UNCHANGED <<Given, succeeded, entered, undone>>
    BY DEF AnnounceAttempt, AtPlan
<1>1. CASE AppendRaises
    BY <1>0, <1>1, RaisingKeepsIInv
<1>2. CASE /\ Logged("attempted", index)
           /\ pc' = "enter"
           /\ UNCHANGED <<index, results, uncompensated, status>>
    <2>1. Later' = Later /\ \A i : (Owed(i)' <=> Owed(i)) /\ (Attemptable(i)' <=> Attemptable(i))
                                   /\ (Stands(i)' <=> Stands(i))
        BY <1>0, <1>2, OwedIsFixed DEF Later
    <2>2. index \in DOMAIN plans /\ DOMAIN plans = 1..Len(plans) /\ "attempted" \in EventTypes
        BY <1>0, PlansAreTyped DEF EventTypes, TypeOK
    <2>3. /\ audit' \subseteq [call : 1..MaxCalls, event : EventTypes, plan : 0..Len(plans)]
          /\ \A a \in audit' : a \in audit \/ a.call = calls
          /\ audit \subseteq audit'
          /\ \A e \in EventTypes, i \in 0..Len(plans) :
                Told(e, i)' <=> Told(e, i) \/ (ledger /\ e = "attempted" /\ i = index)
        BY <1>0, <1>2, <2>2, LoggedAdds
    <2>4. Attemptable(index)
        BY <1>0, <2>2, PlansAreTyped, DispositionIsOwed
    <2>5. TypeOK'
        BY <1>0, <1>2, <2>3 DEF TypeOK
    <2>6. Sites' /\ Past' /\ EnteredSoFar' /\ UndoneSoFar'
        BY <1>0, <1>2, <2>1, <2>3, <2>4 DEF Sites, Past, EnteredSoFar, UndoneSoFar, TypeOK
    <2>7. ResultsSoFar' /\ LeftSoFar'
        BY <1>0, <1>2, <2>1 DEF ResultsSoFar, LeftSoFar
    <2>8. AuditSoFar'
        BY <1>0, <1>2, <2>1, <2>2, <2>3 DEF AuditSoFar, EventTypes
    <2> QED BY <2>5, <2>6, <2>7, <2>8
<1> QED BY <1>1, <1>2 DEF AnnounceAttempt

\* The compensator is entered.
LEMMA EnterCompensatorInv == ASSUME IInv, EnterCompensator PROVE IInv'
<1> USE DEF IInv, Given
<1>0. /\ pc = "enter" /\ pc' = "running" /\ entered' = entered \cup {<<calls, index>>}
      /\ UNCHANGED <<plans, failed_execution, ledger, calls, index, succeeded, results,
                     uncompensated, status, audit, undone>>
    BY DEF EnterCompensator
<1>1. Later' = Later /\ \A i : (Owed(i)' <=> Owed(i)) /\ (Attemptable(i)' <=> Attemptable(i))
                               /\ (Stands(i)' <=> Stands(i))
    BY <1>0, OwedIsFixed DEF Later
<1>2. index \in DOMAIN plans
    BY <1>0, PlansAreTyped DEF TypeOK, Sites
<1>3. TypeOK'
    BY <1>0, <1>2 DEF TypeOK
<1>4. Sites' /\ Past'
    BY <1>0, <1>1 DEF Sites, Past, TypeOK
<1>5. EnteredSoFar' /\ UndoneSoFar'
    BY <1>0, <1>1, <1>2 DEF EnteredSoFar, UndoneSoFar, TypeOK, Later
<1>6. ResultsSoFar' /\ LeftSoFar'
    BY <1>0, <1>1 DEF ResultsSoFar, LeftSoFar
<1>7. AuditSoFar'
    BY <1>0, <1>1 DEF AuditSoFar, Told
<1> QED BY <1>3, <1>4, <1>5, <1>6, <1>7

\* It ends, with or without a result that can be recorded.
LEMMA CompensatorEndsInv == ASSUME IInv, CompensatorEnds \/ ResultLost PROVE IInv'
<1> USE DEF IInv, Given
<1>0. /\ pc = "running" /\ pc' \in {"record", "raised"}
      /\ succeeded' \in BOOLEAN
      /\ undone' \in {undone, undone \cup {<<calls, index>>}}
      /\ pc' = "record" => undone' = IF succeeded' THEN undone \cup {<<calls, index>>} ELSE undone
      /\ UNCHANGED <<plans, failed_execution, ledger, calls, index, results,
                     uncompensated, status, audit, entered>>
    BY DEF CompensatorEnds, ResultLost, TypeOK
<1>1. Later' = Later /\ \A i : (Owed(i)' <=> Owed(i)) /\ (Attemptable(i)' <=> Attemptable(i))
                               /\ (Stands(i)' <=> Stands(i))
    BY <1>0, OwedIsFixed DEF Later
<1>2. <<calls, index>> \in entered /\ <<calls, index>> \notin undone /\ index \notin Later
    BY <1>0 DEF EnteredSoFar, UndoneSoFar, Later, TypeOK
<1>3. TypeOK'
    BY <1>0, <1>2 DEF TypeOK
<1>4. Sites' /\ Past' /\ EnteredSoFar'
    BY <1>0, <1>1 DEF Sites, Past, EnteredSoFar
<1>5. UndoneSoFar'
    BY <1>0, <1>2 DEF UndoneSoFar
<1>6. \A i \in Later : <<calls, i>> \in undone' <=> <<calls, i>> \in undone
    BY <1>0, <1>2
<1>7. ResultsSoFar' /\ LeftSoFar'
    BY <1>0, <1>1, <1>6 DEF ResultsSoFar, LeftSoFar
<1>8. AuditSoFar'
    BY <1>0, <1>1, <1>6 DEF AuditSoFar, Told
<1> QED BY <1>3, <1>4, <1>5, <1>7, <1>8

\* The result is logged and listed.
LEMMA RecordResultInv == ASSUME IInv, RecordResult PROVE IInv'
<1> USE DEF IInv, Given
<1> DEFINE event == IF succeeded THEN "succeeded" ELSE "failed"
<1>0. pc = "record" /\ UNCHANGED <<Given, succeeded, entered, undone>>
    BY DEF RecordResult
<1>1. CASE AppendRaises
    BY <1>0, <1>1, RaisingKeepsIInv
<1>2. CASE /\ Logged(event, index)
           /\ results' = Append(results, [plan |-> index, succeeded |-> succeeded])
           /\ index' = index - 1
           /\ pc' = "loop"
           /\ UNCHANGED <<uncompensated, status>>
    <2>1. /\ Later' = Later \cup {index}
          /\ index \in DOMAIN plans /\ index \notin Later
          /\ index' \in 0..Len(plans)
          /\ \A i : /\ Owed(i)' <=> Owed(i)
                    /\ Attemptable(i)' <=> Attemptable(i)
                    /\ Stands(i)' <=> Stands(i)
        BY <1>0, <1>2, LoopMovesOn DEF Sites
    <2>2. /\ Attemptable(index) /\ ~Stands(index)
          /\ <<calls, index>> \in entered
          /\ succeeded <=> <<calls, index>> \in undone
        BY <1>0 DEF Sites, EnteredSoFar, UndoneSoFar, Stands
    <2>3. event \in EventTypes /\ (event = "succeeded" <=> succeeded)
                               /\ (event = "failed" <=> ~succeeded)
                               /\ event \in {"succeeded", "failed"}
        BY DEF EventTypes
    <2>4. /\ audit' \subseteq [call : 1..MaxCalls, event : EventTypes, plan : 0..Len(plans)]
          /\ \A a \in audit' : a \in audit \/ a.call = calls
          /\ audit \subseteq audit'
          /\ \A e \in EventTypes, i \in 0..Len(plans) :
                Told(e, i)' <=> Told(e, i) \/ (ledger /\ e = event /\ i = index)
        BY <1>0, <1>2, <2>3, LoggedAdds DEF TypeOK
    <2> HIDE DEF event
    <2>5. /\ results' \in Seq(CompensationResult)
          /\ DOMAIN results' = DOMAIN results \cup {Len(results) + 1}
          /\ \A n \in DOMAIN results : results'[n] = results[n] /\ n < Len(results) + 1
          /\ results'[Len(results) + 1] = [plan |-> index, succeeded |-> succeeded]
          /\ DOMAIN results = 1..Len(results) /\ Len(results) \in Nat
        <3>1. [plan |-> index, succeeded |-> succeeded] \in CompensationResult
            BY DEF TypeOK, CompensationResult
        <3> QED BY <1>2, <3>1, AppendFacts DEF TypeOK
    <2>6. TypeOK'
        BY <1>0, <1>2, <2>1, <2>4, <2>5 DEF TypeOK
    <2>7. Sites' /\ Past' /\ UndoneSoFar'
        BY <1>0, <1>2, <2>4 DEF Sites, Past, UndoneSoFar, TypeOK
    <2>8. EnteredSoFar'
        BY <1>0, <1>2, <2>1, <2>2, NextPlanIsFresh DEF Sites
    <2>9. LeftSoFar'
        BY <1>0, <1>2, <2>1, <2>2 DEF LeftSoFar
    <2>10. ResultsSoFar'
        <3>1. \A n \in DOMAIN results' :
                  /\ results'[n].plan \in Later' /\ Attemptable(results'[n].plan)
                  /\ results'[n].succeeded <=> <<calls, results'[n].plan>> \in undone
            BY <2>1, <2>2, <2>5 DEF ResultsSoFar
        <3>2. \A i \in Later' : Attemptable(i) => \E n \in DOMAIN results' : results'[n].plan = i
            BY <2>1, <2>5 DEF ResultsSoFar
        <3>3. ASSUME NEW n \in DOMAIN results', NEW m \in DOMAIN results', n < m
              PROVE  results'[n].plan > results'[m].plan
            <4>1. n \in DOMAIN results
                BY <2>5, <3>3
            <4>2. results[n].plan \in Later
                BY <4>1 DEF ResultsSoFar
            <4>3. results[n].plan > index
                BY <4>2 DEF Later
            <4> QED BY <2>5, <3>3, <4>1, <4>3 DEF ResultsSoFar
        <3> QED BY <1>0, <2>1, <3>1, <3>2, <3>3 DEF ResultsSoFar
    <2>11. AuditSoFar'
        <3> SUFFICES ASSUME ledger PROVE AuditSoFar'
            BY <1>0 DEF AuditSoFar
        <3>1. \A e \in entered : [call |-> e[1], event |-> "attempted", plan |-> e[2]] \in audit'
            BY <2>4 DEF AuditSoFar
        <3>2. ASSUME NEW i \in DOMAIN plans
              PROVE  /\ Told("succeeded", i)' <=> i \in Later' /\ <<calls, i>> \in undone
                     /\ Told("failed", i)' <=> i \in Later' /\ Attemptable(i)
                                                  /\ <<calls, i>> \notin undone
                     /\ Told("irreversible", i)' \/ Told("missing_compensator", i)'
                           <=> i \in Later' /\ Stands(i)
            <4>1. i \in 0..Len(plans)
                BY PlansAreTyped
            <4>2. /\ Told("succeeded", i)' <=> Told("succeeded", i) \/ (i = index /\ succeeded)
                  /\ Told("failed", i)' <=> Told("failed", i) \/ (i = index /\ ~succeeded)
                  /\ Told("irreversible", i)' <=> Told("irreversible", i)
                  /\ Told("missing_compensator", i)' <=> Told("missing_compensator", i)
                BY <2>3, <2>4, <4>1 DEF EventTypes
            <4> QED BY <2>1, <2>2, <4>2 DEF AuditSoFar
        <3> QED BY <1>0, <1>2, <2>1, <3>1, <3>2 DEF AuditSoFar
    <2> QED BY <2>6, <2>7, <2>8, <2>9, <2>10, <2>11
<1> QED BY <1>1, <1>2 DEF RecordResult

\* The summary has one of its statuses.
LEMMA SummaryIsTyped ==
    ASSUME NEW done, NEW left
    PROVE  _summarize_status(done, left) \in SummaryStatuses
BY DEF _summarize_status, SummaryStatuses

\* The summary is built and returned.
LEMMA SummarizeInv == ASSUME IInv, Summarize PROVE IInv'
<1> USE DEF IInv, Given
<1>0. pc = "loop" /\ index = 0 /\ UNCHANGED <<Given, succeeded, entered, undone>>
    BY DEF Summarize
<1>1. CASE failed_execution /\ AppendRaises
    BY <1>0, <1>1, RaisingKeepsIInv
<1>2. CASE /\ IF failed_execution THEN Logged("completed", 0) ELSE UNCHANGED audit
           /\ status' = _summarize_status(results, uncompensated)
           /\ pc' = "returned"
           /\ UNCHANGED <<index, results, uncompensated>>
    <2>1. Later' = Later /\ \A i : (Owed(i)' <=> Owed(i)) /\ (Attemptable(i)' <=> Attemptable(i))
                                   /\ (Stands(i)' <=> Stands(i))
        BY <1>0, <1>2, OwedIsFixed DEF Later
    <2>2. "completed" \in EventTypes /\ 0 \in 0..Len(plans) /\ DOMAIN plans = 1..Len(plans)
        BY PlansAreTyped DEF EventTypes
    <2>3. /\ audit' \subseteq [call : 1..MaxCalls, event : EventTypes, plan : 0..Len(plans)]
          /\ \A a \in audit' : a \in audit \/ a.call = calls
          /\ audit \subseteq audit'
          /\ \A e \in EventTypes, i \in DOMAIN plans : Told(e, i)' <=> Told(e, i)
        <3>1. CASE failed_execution
            BY <1>0, <1>2, <2>2, <3>1, LoggedAdds
        <3>2. CASE ~failed_execution
            BY <1>0, <1>2, <3>2 DEF TypeOK, Told
        <3> QED BY <3>1, <3>2
    <2>4. status' \in SummaryStatuses
        BY <1>2, SummaryIsTyped
    <2>5. TypeOK'
        BY <1>0, <1>2, <2>3, <2>4 DEF TypeOK
    <2>6. Past' /\ EnteredSoFar' /\ UndoneSoFar'
        BY <1>0, <1>2, <2>1, <2>3 DEF Past, EnteredSoFar, UndoneSoFar, TypeOK
    <2>7. Sites'
        <3>1. _summarize_status(results, uncompensated)' = _summarize_status(results, uncompensated)
            BY <1>2 DEF _summarize_status
        <3> QED BY <1>0, <1>2, <3>1 DEF Sites
    <2>8. ResultsSoFar' /\ LeftSoFar'
        BY <1>0, <1>2, <2>1 DEF ResultsSoFar, LeftSoFar
    <2>9. AuditSoFar'
        BY <1>0, <1>2, <2>1, <2>3 DEF AuditSoFar, EventTypes
    <2> QED BY <2>5, <2>6, <2>7, <2>8, <2>9
<1> QED BY <1>1, <1>2 DEF Summarize

\* A new call starts from nothing.
LEMMA CallAgainInv == ASSUME IInv, CallAgain PROVE IInv'
<1> USE DEF IInv
<1>0. /\ calls' = calls + 1 /\ calls < MaxCalls /\ pc' = "begin" /\ index' = Len(plans)
      /\ succeeded' = FALSE /\ results' = <<>> /\ uncompensated' = <<>>
      /\ status' = "not_required"
      /\ UNCHANGED <<plans, failed_execution, ledger, audit, entered, undone>>
    BY DEF CallAgain
<1>1. /\ Len(plans) \in Nat /\ DOMAIN plans = 1..Len(plans)
      /\ calls \in Nat /\ calls' \in 1..MaxCalls
    BY <1>0, PlansAreTyped, MaxCallsAssumption DEF TypeOK
<1>2. Later' = {}
    BY <1>0, <1>1 DEF Later
<1>3. TypeOK'
    <2>1. /\ results' \in Seq(CompensationResult)
          /\ uncompensated' \in Seq(DOMAIN plans)
        BY <1>0
    <2>2. index' \in 0..Len(plans)
        BY <1>0, <1>1
    <2>3. status' \in SummaryStatuses
        BY <1>0 DEF SummaryStatuses
    <2> QED BY <1>0, <1>1, <2>1, <2>2, <2>3 DEF TypeOK
<1>4. \A i : <<calls', i>> \notin entered
    BY <1>0, <1>1 DEF Past
<1>5. \A e, i : [call |-> calls', event |-> e, plan |-> i] \notin audit
    BY <1>0, <1>1 DEF Past
<1>6. Sites' /\ EnteredSoFar' /\ UndoneSoFar'
    BY <1>0, <1>2, <1>4 DEF Sites, EnteredSoFar, UndoneSoFar
<1>7. Past'
    BY <1>0, <1>1 DEF Past, TypeOK
<1>8. ResultsSoFar' /\ LeftSoFar'
    BY <1>0, <1>2 DEF ResultsSoFar, LeftSoFar
<1>9. AuditSoFar'
    BY <1>0, <1>2, <1>5 DEF AuditSoFar, Told
<1> QED BY <1>3, <1>6, <1>7, <1>8, <1>9

\* The invariant is inductive.
LEMMA NextKeepsIInv == ASSUME IInv, [Next]_vars PROVE IInv'
<1>1. CASE Begin              BY <1>1, BeginInv
<1>2. CASE IgnoreFailed       BY <1>2, IgnoreFailedInv
<1>3. CASE SkipPlan           BY <1>3, SkipPlanInv
<1>4. CASE AnnounceAttempt    BY <1>4, AnnounceAttemptInv
<1>5. CASE EnterCompensator   BY <1>5, EnterCompensatorInv
<1>6. CASE CompensatorEnds    BY <1>6, CompensatorEndsInv
<1>7. CASE ResultLost         BY <1>7, CompensatorEndsInv
<1>8. CASE RecordResult       BY <1>8, RecordResultInv
<1>9. CASE Summarize          BY <1>9, SummarizeInv
<1>10. CASE CallAgain         BY <1>10, CallAgainInv
<1>11. CASE UNCHANGED vars
    BY <1>11 DEF vars, IInv, TypeOK, Sites, Past, EnteredSoFar, UndoneSoFar, ResultsSoFar,
                 LeftSoFar, AuditSoFar, Told, Later, Owed, Attemptable, Stands,
                 _summarize_status
<1> QED BY <1>1, <1>2, <1>3, <1>4, <1>5, <1>6, <1>7, <1>8, <1>9, <1>10, <1>11
        DEF Next, Proceed, Quiescent

(***************************************************************************)
(* The inductive invariant holds in every state of compensate(): entered,  *)
(* undone, listed and logged plans all follow from where the loop is.      *)
(***************************************************************************)
THEOREM InvariantHolds == Spec => []IInv
BY InitIInv, NextKeepsIInv, PTL DEF Spec

-----------------------------------------------------------------------------
\* Type correctness of the coordinator, for every list of plans.
THEOREM TypeCorrect == Spec => []TypeOK
BY InvariantHolds, PTL DEF IInv

(***************************************************************************)
(* Reverse recovery order, for lists of any length and wherever the call   *)
(* breaks off (INV-EXE-04).                                                *)
(***************************************************************************)
THEOREM RecoveryRunsBackwards == Spec => []ReverseOrder
<1>1. IInv => ReverseOrder
    <2> SUFFICES ASSUME IInv PROVE ReverseOrder
        OBVIOUS
    <2>1. {i \in Later : Attemptable(i)} \subseteq EnteredNow
        BY DEF IInv, EnteredSoFar, EnteredNow, Later
    <2>2. ASSUME NEW i \in EnteredNow, i # index
          PROVE  i \in Later /\ Attemptable(i)
        <3>1. i \in DOMAIN plans /\ <<calls, i>> \in entered
            BY DEF EnteredNow
        <3>2. i > index
            BY <2>2, <3>1, PlansAreTyped DEF IInv, EnteredSoFar, TypeOK
        <3> QED BY <3>1, <3>2 DEF IInv, EnteredSoFar, Later
    <2> QED BY <2>1, <2>2 DEF ReverseOrder
<1> QED BY <1>1, InvariantHolds, PTL

(***************************************************************************)
(* Every owed effect behind the loop is in exactly one of the two lists of *)
(* the summary, once, whichever compensators failed (coordinator.py:74).   *)
(***************************************************************************)
THEOREM EveryEffectIsAccounted == Spec => []EffectsAccountedOnce
<1>1. IInv => EffectsAccountedOnce
    <2> SUFFICES ASSUME IInv PROVE EffectsAccountedOnce
        OBVIOUS
    <2> DEFINE attempted == {results[i].plan : i \in DOMAIN results}
               left      == {uncompensated[i] : i \in DOMAIN uncompensated}
    <2>1. attempted = {i \in Later : Attemptable(i)}
        BY DEF IInv, ResultsSoFar
    <2>2. left = {i \in Later : Stands(i)}
        BY DEF IInv, LeftSoFar
    <2>3. \A i : Attemptable(i) => Owed(i)
        BY DEF Attemptable
    <2>4. attempted \cap left = {} /\ attempted \cup left = {i \in Later : Owed(i)}
        BY <2>1, <2>2, <2>3 DEF Stands
    <2> QED BY <2>4 DEF IInv, ResultsSoFar, LeftSoFar, EffectsAccountedOnce
<1> QED BY <1>1, InvariantHolds, PTL

(***************************************************************************)
(* The status of a returned summary follows from what the compensators of  *)
(* this call did: never "compensated" while an owed effect stands.         *)
(***************************************************************************)
THEOREM SummaryIsHonest == Spec => []StatusIsHonest
<1>1. IInv => StatusIsHonest
    <2> SUFFICES ASSUME IInv, pc = "returned" PROVE StatusIsHonest
        BY DEF StatusIsHonest
    <2> DEFINE owed == {i \in DOMAIN plans : Owed(i)}
               successes == {n \in DOMAIN results : results[n].succeeded}
    <2>1. Later = DOMAIN plans /\ status = _summarize_status(results, uncompensated)
        BY PlansAreTyped DEF IInv, Sites, Later
    <2>2. \A n \in DOMAIN results : /\ results[n].plan \in DOMAIN plans
                                    /\ Attemptable(results[n].plan)
                                    /\ results[n].succeeded <=> <<calls, results[n].plan>> \in undone
        BY <2>1 DEF IInv, ResultsSoFar
    <2>3. \A i \in DOMAIN plans : Attemptable(i) => \E n \in DOMAIN results : results[n].plan = i
        BY <2>1 DEF IInv, ResultsSoFar
    <2>4. \A n \in DOMAIN uncompensated : /\ uncompensated[n] \in DOMAIN plans
                                          /\ Stands(uncompensated[n])
        BY <2>1 DEF IInv, LeftSoFar
    <2>5. \A i \in DOMAIN plans : Stands(i) => \E n \in DOMAIN uncompensated : uncompensated[n] = i
        BY <2>1 DEF IInv, LeftSoFar
    <2>6. \A i \in UndoneNow : Attemptable(i)
        BY <2>1 DEF IInv, EnteredSoFar, UndoneNow, TypeOK
    <2>7. \A i : (Attemptable(i) => Owed(i)) /\ (Stands(i) <=> Owed(i) /\ ~Attemptable(i))
        BY DEF Attemptable, Stands
    <2>8. (results = <<>> <=> DOMAIN results = {}) /\ (uncompensated = <<>> <=> DOMAIN uncompensated = {})
        BY DEF IInv, TypeOK
    <2>9. results = <<>> /\ uncompensated = <<>> <=> owed = {}
        BY <2>2, <2>3, <2>4, <2>5, <2>7, <2>8
    <2>10. successes # {} <=> UndoneNow # {}
        BY <2>2, <2>3, <2>6 DEF UndoneNow
    <2>11. uncompensated = <<>> /\ successes = DOMAIN results <=> owed \subseteq UndoneNow
        <3>1. ASSUME uncompensated = <<>>, successes = DOMAIN results
              PROVE  owed \subseteq UndoneNow
            BY <2>2, <2>3, <2>5, <2>7, <2>8, <3>1 DEF UndoneNow
        <3>2. ASSUME owed \subseteq UndoneNow
              PROVE  uncompensated = <<>> /\ successes = DOMAIN results
            <4>1. DOMAIN uncompensated = {}
                BY <2>4, <2>6, <2>7, <3>2
            <4> QED BY <2>2, <2>7, <2>8, <3>2, <4>1 DEF UndoneNow
        <3> QED BY <3>1, <3>2
    <2>12. owed = {} => UndoneNow = {}
        BY <2>6, <2>7 DEF UndoneNow
    <2>13. status = IF results = <<>> /\ uncompensated = <<>> THEN "not_required"
                    ELSE IF uncompensated # <<>> THEN
                        IF successes # {} THEN "partially_compensated" ELSE "failed"
                    ELSE IF successes = DOMAIN results THEN "compensated"
                    ELSE IF successes # {} THEN "partially_compensated"
                    ELSE "failed"
        BY <2>1 DEF _summarize_status
    <2> HIDE DEF owed, successes
    <2>14. uncompensated = <<>> /\ successes = {} /\ successes = DOMAIN results => owed = {}
        BY <2>8, <2>9
    <2>15. /\ status = "not_required" <=> owed = {}
           /\ status = "compensated" <=> owed # {} /\ owed \subseteq UndoneNow
           /\ status = "failed" <=> owed # {} /\ UndoneNow = {}
        BY <2>9, <2>10, <2>11, <2>12, <2>13, <2>14
    <2> QED BY <2>15 DEF StatusIsHonest, owed
<1> QED BY <1>1, InvariantHolds, PTL

(***************************************************************************)
(* Every attempt stays visible (INV-EXE-05), also when the ledger or the   *)
(* result of a compensator ends the call.                                  *)
(***************************************************************************)
THEOREM AttemptsStayVisible == Spec => []RecoveryIsAudited
<1>1. IInv => RecoveryIsAudited
    <2> SUFFICES ASSUME IInv, ledger PROVE RecoveryIsAudited
        BY DEF RecoveryIsAudited
    <2>1. \A e \in entered : [call |-> e[1], event |-> "attempted", plan |-> e[2]] \in audit
        BY DEF IInv, AuditSoFar
    <2>2. ASSUME pc = "returned", NEW i \in DOMAIN plans
          PROVE  /\ Told("succeeded", i) <=> i \in UndoneNow
                 /\ Told("failed", i) <=> i \in EnteredNow \ UndoneNow
                 /\ Told("irreversible", i) \/ Told("missing_compensator", i)
                       <=> Owed(i) /\ ~Attemptable(i)
        <3>1. i \in Later
            BY <2>2, PlansAreTyped DEF IInv, Sites, Later
        <3>2. /\ i \in UndoneNow <=> <<calls, i>> \in undone
              /\ i \in EnteredNow <=> <<calls, i>> \in entered
            BY DEF UndoneNow, EnteredNow
        <3>3. <<calls, i>> \in entered <=> Attemptable(i)
            BY <3>1 DEF IInv, EnteredSoFar
        <3> QED BY <3>1, <3>2, <3>3 DEF IInv, AuditSoFar, Stands
    <2> DEFINE About(event) == {i \in DOMAIN plans :
                                   [call |-> calls, event |-> event, plan |-> i] \in audit}
    <2>3. \A event, i : i \in About(event) <=> i \in DOMAIN plans /\ Told(event, i)
        BY DEF Told
    <2> HIDE DEF About
    <2>4. \A i \in EnteredNow \cup UndoneNow : i \in DOMAIN plans
        BY DEF EnteredNow, UndoneNow
    <2>5. ASSUME pc = "returned"
          PROVE  /\ About("succeeded") = UndoneNow
                 /\ About("failed") = EnteredNow \ UndoneNow
                 /\ About("irreversible") \cup About("missing_compensator") =
                       {i \in DOMAIN plans : Owed(i) /\ ~Attemptable(i)}
        BY <2>2, <2>3, <2>4, <2>5
    <2> QED BY <2>1, <2>5 DEF RecoveryIsAudited, About
<1> QED BY <1>1, InvariantHolds, PTL

(***************************************************************************)
(* A compensator runs at most once in a call, whatever happens to its      *)
(* result or to the event that reports it (coordinator.py:122).            *)
(***************************************************************************)
THEOREM CompensatorsRunOnce == Spec => NoSecondAttempt
<1>1. IInv /\ [Next]_vars => [pc = "enter" /\ pc' = "running" => <<calls, index>> \notin entered]_vars
    BY DEF IInv, EnteredSoFar
<1> QED BY <1>1, InvariantHolds, PTL DEF Spec, NoSecondAttempt
=============================================================================
