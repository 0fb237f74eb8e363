------------------------- MODULE CoordinatorProofs -------------------------
(***************************************************************************)
(* Proofs about Coordinator for every plan, however long and whatever its  *)
(* ids, dependencies and agents, and for every list of providers.          *)
(***************************************************************************)
EXTENDS Coordinator, NaturalLemmas

(* completed_tasks holds the ids of the settled tasks, which can be read.  *)
CompletedIds ==
  /\ \A k \in settled : k \in WellFormed
  /\ completed = {plan[k].id : k \in settled}

(* The task that an agent is busy with is runnable, and not yet settled.   *)
DelegatedReady ==
  pc = "delegated" =>
    /\ next \in WellFormed /\ next \in ran
    /\ plan[next].deps \subseteq completed

(* Every settled task hangs from settled ones, and no task of the part     *)
(* that is behind the loop is left out of any set that hangs together.     *)
SettledSupported == Supported(settled)

NoneMissed ==
  pc # "raised" =>
    \A S \in SUBSET WellFormed :
      Supported(S) => S \cap 1..(next - 1) \subseteq settled

(* An agent was given the settled tasks that are runnable, and the one in  *)
(* progress.                                                               *)
RanSettled ==
  \A k \in 1..next :
    k \in ran <=> /\ k \in settled \/ (pc = "delegated" /\ k = next)
                  /\ plan[k].known /\ ~plan[k].approval

LoopInv == /\ TypeOK /\ CompletedIds /\ DelegatedReady
           /\ SettledSupported /\ NoneMissed /\ RanSettled

(* The findings come from settled tasks, in their order. *)
FindingsInOrder ==
  /\ found \subseteq settled
  /\ pc # "raised" => Range(findings) = found
  /\ \A i, j \in DOMAIN findings : i < j => findings[i] < findings[j]

(* There is no plan before a provider has answered, and the loop returns   *)
(* only from behind the last task.                                         *)
Phases ==
  /\ failed # {} => primary \in failed
  /\ pc = "asking" => plan = << >> /\ next = 1
  /\ pc = "returned" => next > Len(plan)

Inv == LoopInv /\ FindingsInOrder /\ Phases

USE DEF Inv

-----------------------------------------------------------------------------
LEMMA PlanType ==
  ASSUME NEW q \in Plans
  PROVE  /\ q \in Seq(Task \cup {Malformed}) /\ Len(q) \in Nat
         /\ DOMAIN q = 1..Len(q)
         /\ \A k \in 1..Len(q) : q[k] # Malformed => q[k] \in Task
<1>1. PICK n \in 0..MaxTasks : q \in [1..n -> Task \cup {Malformed}]
  BY DEF Plans
<1>2. n \in Nat
  BY <1>1, ConstantsAssumption
<1>3. q \in Seq(Task \cup {Malformed}) /\ Len(q) = n
  BY <1>1, <1>2
<1> QED
  BY <1>1, <1>2, <1>3

(* What the loop knows at a task. *)
LEMMA AtTaskFacts ==
  ASSUME TypeOK, AtTask, task # Malformed
  PROVE  /\ next \in Nat \ {0} /\ next <= Len(plan) /\ Len(plan) \in Nat
         /\ next \in DOMAIN plan /\ next \in WellFormed
         /\ task \in Task /\ task.id \in Ids \cup {NoId}
         /\ next + 1 \in 1..(Len(plan) + 1)
<1>1. /\ Len(plan) \in Nat /\ DOMAIN plan = 1..Len(plan)
      /\ \A k \in 1..Len(plan) : plan[k] # Malformed => plan[k] \in Task
  BY PlanType DEF TypeOK
<1>2. next \in 1..Len(plan)
  BY <1>1 DEF TypeOK, AtTask
<1>3. task \in Task
  BY <1>1, <1>2 DEF task
<1> QED
  BY <1>1, <1>2, <1>3 DEF WellFormed, task, Task

LEMMA SamePlan == plan' = plan => WellFormed' = WellFormed
BY DEF WellFormed

-----------------------------------------------------------------------------
(* A ready task may be settled: it hangs from settled tasks before it.     *)
LEMMA SettleStep ==
  ASSUME LoopInv, next \in WellFormed, plan[next].deps \subseteq completed,
         pc # "raised", Settle, plan' = plan
  PROVE  CompletedIds' /\ SettledSupported' /\ NoneMissed'
<1>1. /\ next \in Nat \ {0} /\ settled \subseteq 1..(next - 1)
      /\ settled' = settled \cup {next} /\ next' = next + 1
      /\ completed' = completed \cup {plan[next].id}
  <2>1. Len(plan) \in Nat
    BY PlanType DEF LoopInv, TypeOK
  <2> QED
    BY <2>1 DEF LoopInv, TypeOK, Settle, task
<1>2. CompletedIds'
  BY <1>1, SamePlan DEF LoopInv, CompletedIds
<1>3. SettledSupported'
  <2>1. ASSUME NEW k \in settled', NEW d \in plan[k].deps
        PROVE  \E j \in settled' : j < k /\ plan[j].id = d
    <3>1. CASE k \in settled
      BY <1>1, <2>1, <3>1 DEF LoopInv, SettledSupported, Supported
    <3>2. CASE k = next
      <4>1. PICK j \in settled : plan[j].id = d
        BY <2>1, <3>2 DEF LoopInv, CompletedIds
      <4> QED
        BY <1>1, <3>2, <4>1
    <3> QED
      BY <1>1, <3>1, <3>2
  <2> QED
    BY <2>1 DEF SettledSupported, Supported
<1>4. NoneMissed'
  <2>1. SUFFICES ASSUME NEW S \in SUBSET WellFormed, Supported(S)
                 PROVE  S \cap 1..next \subseteq settled'
    <3>1. next' - 1 = next /\ WellFormed' = WellFormed
      BY <1>1, SamePlan
    <3> QED
      BY <3>1 DEF NoneMissed, Supported
  <2>2. S \cap 1..(next - 1) \subseteq settled
    BY <2>1 DEF LoopInv, NoneMissed
  <2> QED
    BY <1>1, <2>2
<1> QED
  BY <1>2, <1>3, <1>4

(* A task that is not ready is in no set of tasks that hangs together:     *)
(* what it lacks would be before it, and nothing before it was missed.     *)
LEMMA SkipStep ==
  ASSUME LoopInv, SkipUnready
  PROVE  NoneMissed'
<1>1. /\ next \in Nat \ {0} /\ next' = next + 1 /\ plan' = plan
      /\ pc = "walking" /\ settled' = settled
  BY AtTaskFacts DEF LoopInv, SkipUnready, AtTask
<1>2. SUFFICES ASSUME NEW S \in SUBSET WellFormed, Supported(S)
               PROVE  S \cap 1..next \subseteq settled
  BY <1>1, SamePlan DEF NoneMissed, Supported
<1>3. S \cap 1..(next - 1) \subseteq settled
  BY <1>1, <1>2 DEF LoopInv, NoneMissed
<1>4. next \notin S
  <2>1. SUFFICES ASSUME next \in S PROVE FALSE
    OBVIOUS
  <2>2. PICK d \in plan[next].deps : d \notin completed
    BY DEF SkipUnready, Ready, task
  <2>3. PICK j \in S : j < next /\ plan[j].id = d
    BY <1>2, <2>1, <2>2 DEF Supported
  <2>4. j \in 1..(next - 1)
    <3>1. j \in 1..Len(plan) /\ Len(plan) \in Nat
      BY PlanType DEF LoopInv, TypeOK, WellFormed
    <3> QED
      BY <1>1, <2>3, <3>1
  <2>5. j \in settled
    BY <1>3, <2>4
  <2> QED
    BY <2>2, <2>3, <2>5 DEF LoopInv, CompletedIds
<1> QED
  BY <1>1, <1>3, <1>4

LEMMA InitLoop == Init => Inv
<1> SUFFICES ASSUME Init PROVE Inv
  OBVIOUS
<1>1. << >> \in Plans
  <2>1. << >> \in [1..0 -> Task \cup {Malformed}] /\ 0 \in 0..MaxTasks
    BY ConstantsAssumption
  <2> QED
    BY <2>1 DEF Plans
<1>2. TypeOK
  BY <1>1 DEF Init, TypeOK
<1>3. /\ CompletedIds /\ DelegatedReady /\ SettledSupported
      /\ NoneMissed /\ RanSettled
  BY DEF Init, CompletedIds, DelegatedReady, SettledSupported, Supported,
         NoneMissed, RanSettled
<1>4. FindingsInOrder /\ Phases
  BY DEF Init, FindingsInOrder, Phases, Range
<1> QED
  BY <1>2, <1>3, <1>4 DEF LoopInv

-----------------------------------------------------------------------------
(* Before there is a plan there is nothing. *)
LEMMA AskingFacts ==
  ASSUME Inv, pc = "asking"
  PROVE  /\ plan = << >> /\ next = 1 /\ settled = {} /\ ran = {} /\ found = {}
         /\ completed = {} /\ findings = << >>
<1>1. plan = << >> /\ next = 1 /\ settled = {}
  BY DEF Phases, LoopInv, TypeOK
<1>2. ran = {}
  BY <1>1 DEF LoopInv, TypeOK, RanSettled
<1>3. findings = << >>
  <2>1. findings \in Seq(DOMAIN plan) /\ DOMAIN plan = {}
    BY <1>1 DEF LoopInv, TypeOK
  <2>2. Len(findings) = 0
    <3>1. SUFFICES ASSUME Len(findings) # 0 PROVE FALSE
      OBVIOUS
    <3>2. findings[1] \in {}
      BY <2>1, <3>1
    <3> QED
      BY <3>2
  <2> QED
    BY <2>1, <2>2
<1> QED
  BY <1>1, <1>2, <1>3 DEF LoopInv, TypeOK, CompletedIds

(* A step of the planning call, after which the plan is new or empty.      *)
LEMMA PlanningStep ==
  ASSUME Inv, pc = "asking",
         pc' \in {"asking", "walking"} \cup (Ended \ {"returned"}),
         plan' \in Plans, pc' = "asking" => plan' = plan,
         failed' \subseteq Range(Providers),
         failed' # {} => primary \in failed',
         UNCHANGED <<primary, next, completed, findings, settled, ran, found>>
  PROVE  Inv'
<1>1. /\ plan = << >> /\ next = 1 /\ settled = {} /\ ran = {} /\ found = {}
      /\ completed = {} /\ findings = << >>
  BY AskingFacts
<1>2. Len(plan') \in Nat
  BY PlanType
<1>3. TypeOK'
  BY <1>1, <1>2 DEF LoopInv, TypeOK
<1>4. CompletedIds' /\ SettledSupported' /\ NoneMissed' /\ RanSettled'
  BY <1>1 DEF CompletedIds, SettledSupported, Supported, NoneMissed,
              RanSettled, Ended
<1>5. DelegatedReady'
  BY DEF DelegatedReady, Ended
<1>6. FindingsInOrder'
  BY <1>1 DEF FindingsInOrder, Range
<1>7. Phases'
  BY <1>1 DEF Phases, Ended
<1> QED
  BY <1>3, <1>4, <1>5, <1>6, <1>7 DEF LoopInv

LEMMA ProviderFailsInv ==
  ASSUME Inv,
         NEW p \in Range(Providers), ProviderFails(p)
  PROVE  Inv'
<1>1. primary \in failed'
  BY DEF ProviderFails, Asked, Turn, Phases
<1> QED
  BY <1>1, PlanningStep DEF ProviderFails, Asked, LoopInv, TypeOK

LEMMA ProviderAnswersInv ==
  ASSUME Inv,
         NEW p \in Range(Providers), ProviderAnswers(p)
  PROVE  Inv'
<1>1. plan' \in Plans /\ pc' \in {"walking", "noPlan", "raised"}
  BY DEF ProviderAnswers, LoopInv, TypeOK
<1> QED
  BY <1>1, PlanningStep DEF ProviderAnswers, Asked, Ended

LEMMA GiveUpInv ==
  ASSUME Inv, GiveUp
  PROVE  Inv'
BY PlanningStep DEF GiveUp, Ended, LoopInv, TypeOK, Phases

-----------------------------------------------------------------------------
(* The loop. *)

LEMMA ReadMalformedInv ==
  ASSUME Inv, ReadMalformed
  PROVE  Inv'
<1>1. pc = "walking" /\ pc' = "raised" /\ findings' = << >>
  BY DEF ReadMalformed, AtTask
<1>2. UNCHANGED <<primary, failed, plan, next, completed, settled, ran, found>>
  BY DEF ReadMalformed
<1>3. TypeOK'
  BY <1>1, <1>2 DEF LoopInv, TypeOK, Ended
<1>4. CompletedIds' /\ SettledSupported'
  BY <1>2, SamePlan DEF LoopInv, CompletedIds, SettledSupported, Supported
<1>5. DelegatedReady' /\ NoneMissed' /\ RanSettled'
  BY <1>1, <1>2 DEF LoopInv, DelegatedReady, NoneMissed, RanSettled
<1>6. FindingsInOrder'
  BY <1>1, <1>2 DEF FindingsInOrder
<1> QED
  BY <1>1, <1>2, <1>3, <1>4, <1>5, <1>6 DEF LoopInv, Phases

LEMMA SkipUnreadyInv ==
  ASSUME Inv, SkipUnready
  PROVE  Inv'
<1>1. /\ pc = "walking" /\ next' = next + 1
      /\ UNCHANGED <<pc, primary, failed, plan, completed, findings, settled,
                     ran, found>>
  BY DEF SkipUnready, AtTask
<1>2. /\ next \in Nat \ {0} /\ Len(plan) \in Nat
      /\ next + 1 \in 1..(Len(plan) + 1)
  BY AtTaskFacts DEF LoopInv, SkipUnready
<1>3. TypeOK'
  BY <1>1, <1>2 DEF LoopInv, TypeOK, Ended
<1>4. CompletedIds' /\ SettledSupported'
  BY <1>1, SamePlan DEF LoopInv, CompletedIds, SettledSupported, Supported
<1>5. DelegatedReady' /\ Phases'
  BY <1>1 DEF DelegatedReady, Phases
<1>6. RanSettled'
  <2>1. next + 1 \notin ran /\ next + 1 \notin settled
    BY <1>2 DEF LoopInv, TypeOK
  <2> QED
    BY <1>1, <1>2, <2>1 DEF LoopInv, RanSettled
<1>7. NoneMissed'
  BY SkipStep
<1>8. FindingsInOrder'
  BY <1>1 DEF FindingsInOrder
<1> QED
  BY <1>3, <1>4, <1>5, <1>6, <1>7, <1>8 DEF LoopInv

(* Settling a task that no agent gets. *)
LEMMA PassInv ==
  ASSUME Inv,
         AtTask, task # Malformed, Ready, ~(task.known /\ ~task.approval),
         Settle, UNCHANGED <<pc, primary, failed, plan, findings, ran, found>>
  PROVE  Inv'
<1>1. /\ next \in Nat \ {0} /\ Len(plan) \in Nat /\ next \in WellFormed
      /\ next + 1 \in 1..(Len(plan) + 1) /\ task.id \in Ids \cup {NoId}
  BY AtTaskFacts DEF LoopInv
<1>2. /\ pc = "walking" /\ next' = next + 1 /\ settled' = settled \cup {next}
      /\ completed' = completed \cup {task.id}
      /\ settled \subseteq 1..(next - 1) /\ ran \subseteq 1..next
  BY DEF AtTask, Settle, LoopInv, TypeOK
<1>3. TypeOK'
  BY <1>1, <1>2 DEF LoopInv, TypeOK, Ended
<1>4. CompletedIds' /\ SettledSupported' /\ NoneMissed'
  BY <1>1, <1>2, SettleStep DEF Ready, task
<1>5. DelegatedReady' /\ Phases'
  BY <1>2 DEF DelegatedReady, Phases
<1>6. RanSettled'
  <2>1. next \notin ran /\ next + 1 \notin ran /\ next + 1 \notin settled'
    BY <1>1, <1>2 DEF LoopInv, RanSettled
  <2>2. ASSUME NEW k \in 1..(next + 1)
        PROVE  k \in ran <=> /\ k \in settled'
                             /\ plan[k].known /\ ~plan[k].approval
    <3>1. CASE k = next
      BY <2>1, <3>1 DEF task
    <3>2. CASE k = next + 1
      BY <2>1, <3>2
    <3>3. CASE k \in 1..(next - 1)
      BY <1>1, <1>2, <3>3 DEF LoopInv, RanSettled
    <3> QED
      BY <1>1, <3>1, <3>2, <3>3
  <2> QED
    BY <1>2, <2>2 DEF RanSettled
<1>7. FindingsInOrder'
  BY <1>2 DEF FindingsInOrder
<1> QED
  BY <1>3, <1>4, <1>5, <1>6, <1>7 DEF LoopInv

LEMMA DelegateInv ==
  ASSUME Inv, Delegate
  PROVE  Inv'
<1>1. /\ pc = "walking" /\ pc' = "delegated" /\ ran' = ran \cup {next}
      /\ UNCHANGED <<primary, failed, plan, next, completed, findings, settled,
                     found>>
      /\ Ready /\ task.known /\ ~task.approval
  BY DEF Delegate, AtTask
<1>2. /\ next \in Nat \ {0} /\ Len(plan) \in Nat /\ next \in WellFormed
  BY AtTaskFacts DEF LoopInv, Delegate
<1>3. TypeOK'
  BY <1>1, <1>2 DEF LoopInv, TypeOK, Ended
<1>4. CompletedIds' /\ SettledSupported' /\ NoneMissed'
  BY <1>1, SamePlan
     DEF LoopInv, CompletedIds, SettledSupported, Supported, NoneMissed
<1>5. DelegatedReady' /\ Phases'
  BY <1>1, <1>2, SamePlan DEF DelegatedReady, Phases, Ready, task
<1>6. RanSettled'
  BY <1>1 DEF LoopInv, RanSettled, task
<1>7. FindingsInOrder'
  BY <1>1 DEF FindingsInOrder
<1> QED
  BY <1>3, <1>4, <1>5, <1>6, <1>7 DEF LoopInv

(* An agent is done with its task: what holds whether it returned findings *)
(* or not.                                                                 *)
LEMMA AgentDone ==
  ASSUME LoopInv, Phases, pc = "delegated", pc' = "walking", Settle,
         UNCHANGED <<primary, failed, plan, ran>>,
         findings' \in Seq(DOMAIN plan), found' \subseteq ran
  PROVE  LoopInv' /\ Phases'
<1>1. /\ next \in WellFormed /\ next \in ran
      /\ plan[next].deps \subseteq completed
  BY DEF LoopInv, DelegatedReady
<1>2. /\ Len(plan) \in Nat /\ next \in 1..Len(plan)
      /\ plan[next] \in Task
  BY <1>1, PlanType DEF LoopInv, TypeOK, WellFormed
<1>3. /\ next' = next + 1 /\ settled' = settled \cup {next}
      /\ completed' = completed \cup {plan[next].id}
      /\ settled \subseteq 1..(next - 1) /\ ran \subseteq 1..next
  BY DEF Settle, LoopInv, TypeOK, task
<1>4. TypeOK'
  <2>1. plan[next].id \in Ids \cup {NoId}
    BY <1>2 DEF Task
  <2> QED
    BY <1>2, <1>3, <2>1 DEF LoopInv, TypeOK, Ended
<1>5. CompletedIds' /\ SettledSupported' /\ NoneMissed'
  BY <1>1, SettleStep
<1>6. DelegatedReady' /\ Phases'
  BY DEF DelegatedReady, Phases
<1>7. RanSettled'
  <2>1. next + 1 \notin ran /\ next + 1 \notin settled'
    BY <1>2, <1>3
  <2>2. ASSUME NEW k \in 1..(next + 1)
        PROVE  k \in ran <=> /\ k \in settled'
                             /\ plan[k].known /\ ~plan[k].approval
    <3>1. CASE k = next
      BY <1>1, <1>2, <1>3, <3>1 DEF LoopInv, RanSettled
    <3>2. CASE k = next + 1
      BY <2>1, <3>2
    <3>3. CASE k \in 1..(next - 1)
      BY <1>2, <1>3, <3>3 DEF LoopInv, RanSettled
    <3> QED
      BY <1>2, <3>1, <3>2, <3>3
  <2> QED
    BY <1>3, <2>2 DEF RanSettled
<1> QED
  BY <1>4, <1>5, <1>6, <1>7 DEF LoopInv

LEMMA AgentRaisesInv ==
  ASSUME Inv, AgentRaises
  PROVE  Inv'
<1>1. LoopInv' /\ Phases'
  BY AgentDone DEF AgentRaises, LoopInv, TypeOK
<1>2. FindingsInOrder'
  BY DEF FindingsInOrder, AgentRaises, Settle
<1> QED
  BY <1>1, <1>2

(* The findings of the task that the loop is at go behind all others.      *)
LEMMA AgentReturnsInv ==
  ASSUME Inv, AgentReturns
  PROVE  Inv'
<1>1. /\ pc = "delegated" /\ pc' = "walking" /\ settled' = settled \cup {next}
      /\ Settle /\ UNCHANGED <<primary, failed, plan, ran>>
  BY DEF AgentReturns, Settle
<1>2. CASE UNCHANGED <<findings, found>>
  <2>1. LoopInv' /\ Phases'
    BY <1>1, <1>2, AgentDone DEF LoopInv, TypeOK
  <2> QED
    BY <1>1, <1>2, <2>1 DEF FindingsInOrder
<1>3. CASE findings' = Append(findings, next) /\ found' = found \cup {next}
  <2>1. /\ next \in ran /\ next \in DOMAIN plan
        /\ findings \in Seq(DOMAIN plan) /\ found \subseteq ran
        /\ settled \subseteq 1..(next - 1)
    BY <1>1 DEF LoopInv, TypeOK, DelegatedReady, WellFormed
  <2>2. LoopInv' /\ Phases'
    <3>1. findings' \in Seq(DOMAIN plan)
      BY <1>3, <2>1
    <3> QED
      BY <1>1, <1>3, <2>1, <3>1, AgentDone
  <2>3. /\ Len(findings) \in Nat /\ DOMAIN findings = 1..Len(findings)
        /\ DOMAIN findings' = 1..(Len(findings) + 1)
        /\ \A i \in 1..Len(findings) : findings'[i] = findings[i]
        /\ findings'[Len(findings) + 1] = next
    BY <1>3, <2>1
  <2>4. \A i \in DOMAIN findings : findings[i] \in settled
    BY <1>1 DEF FindingsInOrder, Range
  <2>5. next \in Nat \ {0} /\ settled \subseteq Nat
    <3>1. Len(plan) \in Nat
      BY PlanType DEF LoopInv, TypeOK
    <3> QED
      BY <2>1, <3>1 DEF LoopInv, TypeOK
  <2>6. \A i, j \in DOMAIN findings' : i < j => findings'[i] < findings'[j]
    <3>1. SUFFICES ASSUME NEW i \in 1..(Len(findings) + 1),
                          NEW j \in 1..(Len(findings) + 1), i < j
                   PROVE  findings'[i] < findings'[j]
      BY <2>3
    <3>2. i \in 1..Len(findings) /\ findings'[i] = findings[i]
      BY <2>3, <3>1
    <3>3. CASE j = Len(findings) + 1
      <4>1. findings[i] \in settled /\ findings'[j] = next
        BY <2>3, <2>4, <3>2, <3>3
      <4>2. findings[i] \in 1..(next - 1)
        BY <2>1, <4>1
      <4> QED BY <2>5, <3>2, <4>1, <4>2
    <3>4. CASE j \in 1..Len(findings)
      BY <2>3, <3>1, <3>2, <3>4 DEF FindingsInOrder
    <3> QED
      BY <2>3, <3>3, <3>4
  <2>7. Range(findings') = Range(findings) \cup {next}
    BY <2>3 DEF Range
  <2>8. FindingsInOrder'
    BY <1>1, <1>3, <2>6, <2>7 DEF FindingsInOrder
  <2> QED
    BY <2>2, <2>8
<1> QED
  BY <1>2, <1>3 DEF AgentReturns

LEMMA FinishInv ==
  ASSUME Inv, Finish
  PROVE  Inv'
<1>1. /\ pc = "walking" /\ pc' = "returned"
      /\ UNCHANGED <<primary, failed, plan, next, completed, findings, settled,
                     ran, found>>
  BY DEF Finish
<1>2. TypeOK'
  BY <1>1 DEF LoopInv, TypeOK, Ended
<1>3. CompletedIds' /\ SettledSupported' /\ NoneMissed'
  BY <1>1, SamePlan
     DEF LoopInv, CompletedIds, SettledSupported, Supported, NoneMissed
<1>4. DelegatedReady' /\ RanSettled' /\ Phases' /\ FindingsInOrder'
  BY <1>1 DEF LoopInv, DelegatedReady, RanSettled, Phases, FindingsInOrder,
              Finish
<1> QED
  BY <1>2, <1>3, <1>4 DEF LoopInv

HIDE DEF Inv

LEMMA StutterInv ==
  ASSUME Inv, UNCHANGED vars
  PROVE  Inv'
<1>1. UNCHANGED <<pc, primary, failed, plan, next, completed, findings,
                  settled, ran, found>>
  BY DEF vars
<1>2. TypeOK'
  BY <1>1 DEF Inv, LoopInv, TypeOK
<1>3. CompletedIds' /\ SettledSupported' /\ NoneMissed' /\ DelegatedReady'
  BY <1>1, SamePlan
     DEF Inv, LoopInv, CompletedIds, SettledSupported, Supported, NoneMissed,
         DelegatedReady
<1>4. RanSettled' /\ Phases' /\ FindingsInOrder'
  BY <1>1 DEF Inv, LoopInv, RanSettled, Phases, FindingsInOrder
<1> QED
  BY <1>2, <1>3, <1>4 DEF Inv, LoopInv

LEMMA NextInv == Inv /\ [Next]_vars => Inv'
<1> SUFFICES ASSUME Inv, [Next]_vars PROVE Inv'
  OBVIOUS
<1>1. ASSUME NEW p \in Range(Providers), ProviderFails(p) PROVE Inv'
  BY <1>1, ProviderFailsInv
<1>2. ASSUME NEW p \in Range(Providers), ProviderAnswers(p) PROVE Inv'
  BY <1>2, ProviderAnswersInv
<1>3. CASE GiveUp
  BY <1>3, GiveUpInv
<1>4. CASE ReadMalformed
  BY <1>4, ReadMalformedInv
<1>5. CASE SkipUnready
  BY <1>5, SkipUnreadyInv
<1>6. CASE AwaitApproval
  BY <1>6, PassInv DEF AwaitApproval
<1>7. CASE PassUnknownAgent
  BY <1>7, PassInv DEF PassUnknownAgent
<1>8. CASE Delegate
  BY <1>8, DelegateInv
<1>9. CASE AgentReturns
  BY <1>9, AgentReturnsInv
<1>10. CASE AgentRaises
  BY <1>10, AgentRaisesInv
<1>11. CASE Finish
  BY <1>11, FinishInv
<1>12. CASE UNCHANGED vars
  BY <1>12, StutterInv
<1> QED
  BY <1>1, <1>2, <1>3, <1>4, <1>5, <1>6, <1>7, <1>8, <1>9, <1>10, <1>11, <1>12
     DEF Next

(* The inductive invariant holds in every reachable state: the settled     *)
(* tasks hang together, none was missed, and the agents got the runnable   *)
(* ones among them.                                                        *)
THEOREM AlwaysInv == Spec => []Inv
<1>1. Init => Inv
  BY InitLoop
<1>2. Inv /\ [Next]_vars => Inv'
  BY NextInv
<1> QED
  BY <1>1, <1>2, PTL DEF Spec

(* Every variable of a run of the coordinator keeps its type.              *)
THEOREM TypeCorrect == Spec => []TypeOK
<1>1. Inv => TypeOK
  BY DEF Inv, LoopInv
<1> QED
  BY <1>1, AlwaysInv, PTL

LEMMA SettledIsUnion == Inv => SettledAreSupportable
<1> SUFFICES ASSUME Inv, pc # "raised"
             PROVE  settled = Supportable \cap 1..(next - 1)
  BY DEF SettledAreSupportable
<1>1. settled \subseteq Supportable \cap 1..(next - 1)
  <2>1. settled \in SUBSET WellFormed /\ Supported(settled)
    BY DEF Inv, LoopInv, CompletedIds, SettledSupported
  <2>2. settled \subseteq 1..(next - 1)
    BY DEF Inv, LoopInv, TypeOK
  <2> QED
    BY <2>1, <2>2 DEF Supportable
<1>2. Supportable \cap 1..(next - 1) \subseteq settled
  BY DEF Inv, LoopInv, NoneMissed, Supportable
<1> QED
  BY <1>1, <1>2

(* The loop over the tasks counts as completed exactly the tasks, of those *)
(* it has passed, whose dependencies are met by earlier tasks, whatever    *)
(* plan the LLM wrote.                                                     *)
THEOREM SettlesSupportable == Spec => []SettledAreSupportable
  BY AlwaysInv, SettledIsUnion, PTL

(* When the coordinator returns, an agent has been given every supportable *)
(* task whose agent exists and that needs no approval, and nothing else.   *)
THEOREM RunsTheRunnable == Spec => []RunsExactlyTheRunnable
<1>1. Inv => RunsExactlyTheRunnable
  <2> SUFFICES ASSUME Inv, pc = "returned"
               PROVE  ran = {k \in Supportable :
                               plan[k].known /\ ~plan[k].approval}
    BY DEF RunsExactlyTheRunnable
  <2>1. /\ Len(plan) \in Nat /\ DOMAIN plan = 1..Len(plan)
        /\ next = Len(plan) + 1
    BY PlanType DEF Inv, LoopInv, TypeOK, Phases
  <2>2. settled = Supportable \cap 1..(next - 1)
    BY SettledIsUnion DEF SettledAreSupportable
  <2>3. Supportable \subseteq 1..(next - 1)
    BY <2>1 DEF Supportable, WellFormed
  <2>4. ran \subseteq 1..next
    BY DEF Inv, LoopInv, TypeOK
  <2>5. \A k \in 1..next :
          k \in ran <=> k \in settled /\ plan[k].known /\ ~plan[k].approval
    BY DEF Inv, LoopInv, RanSettled
  <2>6. ran \subseteq {k \in Supportable : plan[k].known /\ ~plan[k].approval}
    BY <2>2, <2>4, <2>5
  <2>7. ASSUME NEW k \in Supportable, plan[k].known, ~plan[k].approval
        PROVE  k \in ran
    <3>1. k \in 1..(next - 1) /\ k \in settled
      BY <2>2, <2>3, <2>7
    <3>2. k \in 1..next
      BY <2>1, <3>1
    <3> QED
      BY <2>5, <2>7, <3>1, <3>2
  <2> QED
    BY <2>6, <2>7
<1> QED
  BY <1>1, AlwaysInv, PTL

(* The result of the coordinator has the findings of every agent that      *)
(* returned some, once and in the order of the plan.                       *)
THEOREM FindingsKept == Spec => []NoFindingLost
<1>1. Inv => NoFindingLost
  BY DEF Inv, FindingsInOrder, NoFindingLost
<1> QED
  BY <1>1, AlwaysInv, PTL

-----------------------------------------------------------------------------
(* Some provider has the turn as long as one has not failed: the default   *)
(* one, and after it the first of the list that has not failed.            *)
LEMMA SomebodysTurn ==
  ASSUME Phases, primary \in Range(Providers),
         failed \subseteq Range(Providers), failed # Range(Providers)
  PROVE  \E p \in Range(Providers) : Turn(p)
<1>1. CASE failed = {}
  BY <1>1 DEF Turn
<1>2. CASE failed # {}
  <2> DEFINE left == {i \in DOMAIN Providers : Providers[i] \notin failed}
  <2>1. DOMAIN Providers \subseteq Nat
    BY ConstantsAssumption
  <2>2. left # {}
    BY DEF Range
  <2>3. PICK i \in left : \A j \in left : i <= j
    BY <2>1, <2>2, LeastNatural
  <2>4. ASSUME NEW j \in 1..(i - 1) PROVE Providers[j] \in failed
    <3>1. j \in DOMAIN Providers
      <4>1. Len(Providers) \in Nat /\ DOMAIN Providers = 1..Len(Providers)
        BY ConstantsAssumption
      <4> QED BY <2>3, <4>1
    <3>2. ~(i <= j)
      BY <2>1, <2>3
    <3> QED BY <2>3, <3>1, <3>2
  <2> QED
    BY <1>2, <2>3, <2>4 DEF Turn, Range
<1> QED
  BY <1>1, <1>2

LEMMA NextLLM ==
  Inv /\ LLMFailsOnlyWhenAllFail /\ [Next]_vars => LLMFailsOnlyWhenAllFail'
<1> SUFFICES ASSUME Inv, LLMFailsOnlyWhenAllFail, [Next]_vars,
                    pc' = "llmFailed"
             PROVE  IF primary' \in Range(Providers)
                    THEN failed' = Range(Providers) ELSE failed' = {}
  BY DEF LLMFailsOnlyWhenAllFail
<1>1. failed \subseteq Range(Providers) /\ (failed # {} => primary \in failed)
  BY DEF Inv, LoopInv, TypeOK, Phases
<1>2. primary' = primary /\ failed' = failed
  BY DEF Next, vars, Asked, ProviderFails, ProviderAnswers, GiveUp,
         ReadMalformed, SkipUnready, AwaitApproval, PassUnknownAgent, Delegate,
         AgentReturns, AgentRaises, Finish, AtTask
<1>3. CASE GiveUp
  <2>1. ~\E p \in Range(Providers) : Turn(p)
    BY <1>3 DEF GiveUp
  <2>2. CASE primary \in Range(Providers)
    BY <1>1, <1>2, <2>1, <2>2, SomebodysTurn DEF Inv
  <2>3. CASE primary \notin Range(Providers)
    BY <1>1, <1>2, <2>3
  <2> QED
    BY <2>2, <2>3
<1>4. CASE UNCHANGED vars
  BY <1>4 DEF vars, LLMFailsOnlyWhenAllFail
<1> QED
  BY <1>2, <1>3, <1>4
     DEF Next, ProviderFails, ProviderAnswers, Asked, ReadMalformed,
         SkipUnready, AwaitApproval, PassUnknownAgent, Delegate, AgentReturns,
         AgentRaises, Finish, AtTask, LLMFailsOnlyWhenAllFail

(* The planning call fails only when every configured provider has failed, *)
(* or when the default provider is not configured and none was asked:      *)
(* whatever the list of providers, the fallback passes none of them over.  *)
THEOREM FallbackIsComplete == Spec => []LLMFailsOnlyWhenAllFail
<1>1. Init => LLMFailsOnlyWhenAllFail
  BY DEF Init, LLMFailsOnlyWhenAllFail
<1> QED
  BY <1>1, NextLLM, AlwaysInv, PTL DEF Spec
=============================================================================
