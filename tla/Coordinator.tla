---------------------------- MODULE Coordinator ----------------------------
(***************************************************************************)
(* One run of the coordinator agent, backend/app/agents/coordinator.py:    *)
(* an LLM is asked for a plan, through the fallback over providers of      *)
(* backend/app/llm/adapter.py, and the tasks of the plan are handed to     *)
(* agents, one at a time and in the order of the plan.                     *)
(*                                                                         *)
(* The plan is whatever the LLM wrote: its tasks may share an id or have   *)
(* none, depend on later tasks, on themselves or on nothing that exists,   *)
(* name agents that nobody knows, or not be tasks at all.                  *)
(***************************************************************************)
EXTENDS Naturals, Sequences, Functions

CONSTANTS
  Providers,     \* the configured providers, in the order of the adapter
  Defaults,      \* what LLM_DEFAULT_PROVIDER may be set to
  Ids,           \* the task ids that a plan can mention
  NoId,          \* the id made up for a task without one: no task names it
  Malformed,     \* a task that is no object, or whose dependencies
                 \* are no list of names
  MaxTasks       \* bound: tasks in a plan

ASSUME ConstantsAssumption ==
  /\ Providers \in Seq(Defaults)
  /\ NoId \notin Ids
  /\ MaxTasks \in Nat

Task == [id : Ids \cup {NoId}, deps : SUBSET Ids,
         approval : BOOLEAN,      \* require_approval
         known : BOOLEAN]         \* _create_agent knows its agent

ASSUME MalformedAssumption == Malformed \notin Task

Plans == UNION {[1..n -> Task \cup {Malformed}] : n \in 0..MaxTasks}

VARIABLES
  pc,          \* where the run is
  primary,     \* config.LLM_DEFAULT_PROVIDER
  failed,      \* providers that have failed the call of the adapter
  plan,
  next,        \* the task that the loop is at
  completed,   \* completed_tasks: ids
  findings,    \* all_findings: the tasks that they come from
  settled,     \* history: tasks whose ids were added to completed_tasks
  ran,         \* history: tasks that were handed to an agent
  found        \* history: tasks whose agent returned findings

vars == <<pc, primary, failed, plan, next, completed, findings, settled, ran,
          found>>

Ended == {"returned", "llmFailed", "noPlan", "raised"}

TypeOK ==
  /\ pc \in {"asking", "walking", "delegated"} \cup Ended
  /\ primary \in Defaults
  /\ failed \subseteq Range(Providers)
  /\ plan \in Plans
  /\ next \in 1..(Len(plan) + 1)
  /\ completed \subseteq Ids \cup {NoId}
  /\ findings \in Seq(DOMAIN plan)
  /\ settled \subseteq 1..(next - 1)
  /\ ran \subseteq 1..next
  /\ found \subseteq ran

Init ==
  /\ pc = "asking"
  /\ primary \in Defaults
  /\ failed = {}
  /\ plan = << >> /\ next = 1
  /\ completed = {} /\ findings = << >>
  /\ settled = {} /\ ran = {} /\ found = {}

-----------------------------------------------------------------------------
(* LLMAdapter.complete: the default provider first, and after it failed    *)
(* the others in their order.                                              *)

Turn(p) ==
  IF failed = {} THEN p = primary
  ELSE /\ p \notin failed
       /\ \E i \in DOMAIN Providers :
            p = Providers[i] /\ \A j \in 1..(i - 1) : Providers[j] \in failed

Asked(p) == pc = "asking" /\ p \in Range(Providers) /\ Turn(p)

ProviderFails(p) ==
  /\ Asked(p)
  /\ failed' = failed \cup {p}
  /\ UNCHANGED <<pc, primary, plan, next, completed, findings, settled, ran,
                 found>>

GiveUp_WithoutFallback ==
  /\ pc = "asking" /\ (primary \notin Range(Providers) \/ failed # {})
  /\ pc' = "llmFailed"
  /\ UNCHANGED <<primary, failed, plan, next, completed, findings, settled,
                 ran, found>>

(* The default provider is not configured, or no provider is left.         *)
GiveUp ==
  /\ pc = "asking"
  /\ ~\E p \in Range(Providers) : Turn(p)
  /\ pc' = "llmFailed"
  /\ UNCHANGED <<primary, failed, plan, next, completed, findings, settled,
                 ran, found>>

(* _parse_plan of what p wrote.  Text that is no JSON, or an empty value,  *)
(* is no plan; a code fence that never ends raises, and so does JSON that  *)
(* is no object with a list of tasks.                                      *)
ProviderAnswers(p) ==
  /\ Asked(p)
  /\ failed' = {}
  /\ \/ plan' \in Plans /\ pc' = "walking"
     \/ plan' = plan /\ pc' \in {"noPlan", "raised"}
  /\ UNCHANGED <<primary, next, completed, findings, settled, ran, found>>

-----------------------------------------------------------------------------
(* The loop over plan["tasks"]. *)

task == plan[next]

AtTask == pc = "walking" /\ next <= Len(plan)

Ready == task.deps \subseteq completed

(* The loop goes on after a task that counts as completed. *)
Settle ==
  /\ completed' = completed \cup {task.id}
  /\ settled' = settled \cup {next}
  /\ next' = next + 1

(* Anything unreadable raises out of run, with all that was found so far.  *)
ReadMalformed ==
  /\ AtTask /\ task = Malformed
  /\ pc' = "raised" /\ findings' = << >>
  /\ UNCHANGED <<primary, failed, plan, next, completed, settled, ran, found>>

SkipUnready_Removes ==
  /\ AtTask /\ task # Malformed /\ ~Ready
  /\ plan' = SubSeq(plan, 1, next - 1) \o SubSeq(plan, next + 1, Len(plan))
  /\ next' = next + 1
  /\ UNCHANGED <<pc, primary, failed, completed, findings, settled, ran, found>>

(* A task with an unmet dependency is passed over, and not come back to.   *)
SkipUnready ==
  /\ AtTask /\ task # Malformed /\ ~Ready
  /\ next' = next + 1
  /\ UNCHANGED <<pc, primary, failed, plan, completed, findings, settled, ran,
                 found>>

AwaitApproval_Dropped ==
  /\ AtTask /\ task # Malformed /\ Ready /\ task.approval
  /\ next' = next + 1
  /\ UNCHANGED <<pc, primary, failed, plan, completed, findings, settled, ran,
                 found>>

(* A task that needs approval is left to nobody, and counts as completed.  *)
AwaitApproval ==
  /\ AtTask /\ task # Malformed /\ Ready /\ task.approval
  /\ Settle
  /\ UNCHANGED <<pc, primary, failed, plan, findings, ran, found>>

PassUnknownAgent ==
  /\ AtTask /\ task # Malformed /\ Ready /\ ~task.approval /\ ~task.known
  /\ Settle
  /\ UNCHANGED <<pc, primary, failed, plan, findings, ran, found>>

Delegate_Unready ==
  /\ AtTask /\ task # Malformed /\ ~task.approval /\ task.known
  /\ pc' = "delegated"
  /\ ran' = ran \cup {next}
  /\ UNCHANGED <<primary, failed, plan, next, completed, findings, settled,
                 found>>

(* sub_agent.run begins. *)
Delegate ==
  /\ AtTask /\ task # Malformed /\ Ready /\ ~task.approval /\ task.known
  /\ pc' = "delegated"
  /\ ran' = ran \cup {next}
  /\ UNCHANGED <<primary, failed, plan, next, completed, findings, settled,
                 found>>

AgentReturns_Overwrites ==
  /\ pc = "delegated" /\ pc' = "walking"
  /\ Settle
  /\ \/ UNCHANGED <<findings, found>>
     \/ findings' = <<next>> /\ found' = found \cup {next}
  /\ UNCHANGED <<primary, failed, plan, ran>>

(* The agent returns, whether it calls that a success or not.              *)
AgentReturns ==
  /\ pc = "delegated" /\ pc' = "walking"
  /\ Settle
  /\ \/ UNCHANGED <<findings, found>>
     \/ findings' = Append(findings, next) /\ found' = found \cup {next}
  /\ UNCHANGED <<primary, failed, plan, ran>>

(* An agent that raises adds nothing, and its task counts as completed.    *)
AgentRaises ==
  /\ pc = "delegated" /\ pc' = "walking"
  /\ Settle
  /\ UNCHANGED <<primary, failed, plan, findings, ran, found>>

Finish ==
  /\ pc = "walking" /\ next > Len(plan)
  /\ pc' = "returned"
  /\ UNCHANGED <<primary, failed, plan, next, completed, findings, settled,
                 ran, found>>

Next ==
  \/ \E p \in Range(Providers) : ProviderFails(p) \/ ProviderAnswers(p)
  \/ GiveUp
  \/ ReadMalformed \/ SkipUnready \/ AwaitApproval \/ PassUnknownAgent
  \/ Delegate \/ AgentReturns \/ AgentRaises
  \/ Finish

Spec == Init /\ [][Next]_vars

-----------------------------------------------------------------------------
(* A planning call fails only when no configured provider would answer, or *)
(* when the default provider is not configured, in which case none is      *)
(* asked.                                                                  *)
LLMFailsOnlyWhenAllFail ==
  pc = "llmFailed" =>
    IF primary \in Range(Providers) THEN failed = Range(Providers)
                                    ELSE failed = {}

(* Tasks that hold each other up: whatever one of them depends on, an      *)
(* earlier one of them has as its id.                                      *)
WellFormed == {k \in DOMAIN plan : plan[k] # Malformed}

Supported(S) ==
  \A k \in S : \A d \in plan[k].deps : \E j \in S : j < k /\ plan[j].id = d

Supportable == UNION {S \in SUBSET WellFormed : Supported(S)}

(* Of the tasks that the loop has passed, exactly those count as completed *)
(* whose dependencies are all met, through any number of steps, by earlier *)
(* tasks of the plan: the order of the plan decides, and nothing else.     *)
SettledAreSupportable ==
  pc # "raised" => settled = Supportable \cap 1..(next - 1)

(* When the coordinator returns, the tasks that an agent was given are all *)
(* the supportable ones whose agent exists and that need no approval.      *)
RunsExactlyTheRunnable ==
  pc = "returned" =>
    ran = {k \in Supportable : plan[k].known /\ ~plan[k].approval}

(* What any agent found is in the result, once and in the order of the     *)
(* plan, also when other agents raised.                                    *)
NoFindingLost ==
  pc = "returned" =>
    /\ Range(findings) = found
    /\ \A i, j \in DOMAIN findings : i < j => findings[i] < findings[j]
=============================================================================
