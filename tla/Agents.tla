------------------------------- MODULE Agents -------------------------------
(***************************************************************************)
(* The agents that the coordinator runs for one job, backend/app/agents/,  *)
(* one at a time, and the tools of the job's registry, backend/app/tools/, *)
(* with the limit on the calls a minute that each tool keeps for itself.   *)
(* Of the other jobs of the case only the report files show, which share   *)
(* one directory.                                                          *)
(*                                                                         *)
(* The input of an agent is what an LLM wrote into its task.               *)
(***************************************************************************)
EXTENDS SlidingWindow, FiniteSets

CONSTANTS
  RateLimit,    \* rate_limit_per_minute of each tool
  Minute,       \* the 60 seconds of the limit
  Subdomains,   \* names that certificates may show
  Target,       \* the name that an agent is asked about
  Inputs,       \* bound: kinds of tasks explored
  MaxRuns,      \* bound: agents that the job runs
  LastTick      \* bound: of the clock

ToolNames == {"dns_lookup", "whois_query", "cert_search", "web_fetch",
              "web_search", "document_extract", "archive_lookup",
              "ip_geolocation", "social_profile_fetch"}

ReportTypes == {"executive_summary", "technical_report"}   \* two, of any

Kinds == [osint_agent |-> {"DOMAIN", "IP", "EMAIL", "URL", "GENERIC",
                           "EMPTY", "UNREADABLE"},
          socmint_agent |-> {"HANDLE", "HANDLE ONLY", "QUERY ONLY", "EMPTY",
                             "UNREADABLE"},
          entity_resolver |-> {"GIVEN", "EMPTY", "UNREADABLE"},
          source_validator |-> {"GIVEN", "EMPTY", "UNREADABLE"},
          reporter |-> ReportTypes \cup {"UNREADABLE"},
          timeline_agent |-> {"GIVEN", "UNREADABLE"}]

AgentTasks ==
  {t \in [agent : DOMAIN Kinds, kind : UNION {Kinds[a] : a \in DOMAIN Kinds}] :
     t.kind \in Kinds[t.agent]}

Collectors == {"osint_agent", "socmint_agent"}

ASSUME AgentsAssumption ==
  /\ RateLimit \in [ToolNames -> Nat \ {0}]
  /\ Minute \in Nat \ {0} /\ LastTick \in Nat /\ MaxRuns \in Nat
  /\ Inputs \subseteq AgentTasks
  /\ Target \notin Subdomains

(* What a call comes to: ToolResult, or an exception. *)
ToolAnswer ==
  [tool : ToolNames, end : {"success", "failure", "raised"},
   names : SUBSET Subdomains]

(* at: the second in the name of a saved report.  asked is history: what came of   *)
(* every call of the agent, in order.                                      *)
Result ==
  [task : AgentTasks, outcome : {"success", "failure", "raised"},
   findings : Seq(ToolNames \cup {"timeline"}),
   entities : SUBSET (Subdomains \cup {Target}),
   at : 0..LastTick, asked : Seq(ToolAnswer)]

VARIABLES
  clock,
  callTimes,   \* _call_times of each tool
  agent,       \* the agent at work
  results,     \* what the agents of the job returned, the last one last
  reports,     \* which of them opened the file of a second and type last
  starts       \* history: when each tool got past its limit

Another == MaxRuns + 1     \* in reports: a reporter of another job

agentVars == <<clock, callTimes, agent, results, reports, starts>>

NoAgent == [pc |-> "none"]

AgentTypeOK ==
  /\ clock \in 0..LastTick
  /\ callTimes \in [ToolNames -> Seq(0..LastTick)]
  /\ agent = NoAgent \/
       agent \in [pc : {"ready", "throttled", "calling"}, task : AgentTasks,
                  raw : Seq(ToolAnswer), asked : Seq(ToolAnswer),
                  wake : 0..(LastTick + Minute)]
  /\ results \in Seq(Result)
  /\ reports \in [0..LastTick -> [ReportTypes -> 0..Another]]
  /\ starts \in [ToolNames -> Seq(0..LastTick)]

AgentInit ==
  /\ clock = 0
  /\ callTimes = [t \in ToolNames |-> << >>]
  /\ agent = NoAgent
  /\ results = << >>
  /\ reports = [s \in 0..LastTick |-> [type \in ReportTypes |-> 0]]
  /\ starts = [t \in ToolNames |-> << >>]

-----------------------------------------------------------------------------
(* The tools: how a call may end.  Data are left out but for the names.    *)

Succeed(names) == [end |-> "success", names |-> names]
Fail == [end |-> "failure", names |-> {}]
Raise == [end |-> "raised", names |-> {}]

(* Every lookup error is written into the data; only making the resolver   *)
(* can raise.                                                              *)
DnsLookup == {Succeed({}), Raise}

(* RDAP, and whois after it for a domain; a target that is no text raises. *)
WhoisQuery == {Succeed({}), Fail, Raise}

CertSearch == {Succeed(names) : names \in SUBSET Subdomains} \cup {Fail}

WebFetch == {Succeed({}), Fail}

WebSearch == {Succeed({}), Fail}

IpGeolocation == {Succeed({}), Fail}

DocumentExtract == {Succeed({}), Fail}

ArchiveLookup == {Succeed({}), Fail}

(* Every platform's error is written into the data; a list of platforms    *)
(* that is none raises.                                                    *)
SocialProfileFetch == {Succeed({}), Raise}

Execute ==
  [dns_lookup |-> DnsLookup, whois_query |-> WhoisQuery,
   cert_search |-> CertSearch, web_fetch |-> WebFetch,
   web_search |-> WebSearch, document_extract |-> DocumentExtract,
   archive_lookup |-> ArchiveLookup, ip_geolocation |-> IpGeolocation,
   social_profile_fetch |-> SocialProfileFetch]

-----------------------------------------------------------------------------
(* The calls an agent makes, one after the other. *)

InvestigateDomain ==
  <<"dns_lookup", "dns_lookup", "dns_lookup", "dns_lookup", "dns_lookup",
    "whois_query", "cert_search", "web_fetch", "archive_lookup">>

InvestigateIp == <<"ip_geolocation", "whois_query", "dns_lookup">>

InvestigateEmail == <<"web_search">> \o InvestigateDomain

InvestigateUrl == <<"web_fetch", "document_extract", "archive_lookup">>

InvestigateGeneric == <<"web_search">>

Osint(kind) ==
  CASE kind = "DOMAIN" -> InvestigateDomain
    [] kind = "IP" -> InvestigateIp
    [] kind = "EMAIL" -> InvestigateEmail
    [] kind = "URL" -> InvestigateUrl
    [] kind = "GENERIC" -> InvestigateGeneric

(* The query is the handle unless the task has another, or an empty one.   *)
Socmint(kind) ==
  (IF kind = "QUERY ONLY" THEN << >> ELSE <<"social_profile_fetch">>)
    \o (IF kind = "HANDLE ONLY" THEN << >> ELSE <<"web_search">>)
    \o (IF kind = "QUERY ONLY" THEN << >>
        ELSE <<"archive_lookup", "archive_lookup">>)

Calls(task) ==
  CASE task.agent = "osint_agent" -> Osint(task.kind)
    [] task.agent = "socmint_agent" -> Socmint(task.kind)
    [] OTHER -> << >>

-----------------------------------------------------------------------------
(* An agent comes to its end. *)

(* _build_findings: one for each result. *)
Findings(raw) == [i \in DOMAIN raw |-> raw[i].tool]

Finish(task, outcome, findings, entities, asked) ==
  /\ agent' = NoAgent
  /\ results' = Append(results,
       [task |-> task, outcome |-> outcome, findings |-> findings,
        entities |-> entities, at |-> clock, asked |-> asked])

Nothing(task, outcome, asked) == Finish(task, outcome, << >>, {}, asked)

Startable(t) == agent = NoAgent /\ Len(results) < MaxRuns /\ t \in Inputs

(* The input is no object: asking it for a key raises. *)
RaiseOnInput(t) ==
  /\ Startable(t) /\ t.kind = "UNREADABLE"
  /\ Nothing(t, "raised", << >>)
  /\ UNCHANGED <<clock, callTimes, reports, starts>>

(* No target, or no entities or findings to look at. *)
NothingToDo(t) ==
  /\ Startable(t) /\ t.kind = "EMPTY"
  /\ Nothing(t, IF t.agent \in Collectors THEN "failure" ELSE "success", << >>)
  /\ UNCHANGED <<clock, callTimes, reports, starts>>

Begin(t) ==
  /\ Startable(t) /\ t.kind \notin {"EMPTY", "UNREADABLE"}
  /\ agent' = [pc |-> "ready", task |-> t, raw |-> << >>, asked |-> << >>,
               wake |-> 0]
  /\ UNCHANGED <<clock, callTimes, results, reports, starts>>

Ready(who) == agent # NoAgent /\ agent.pc = "ready" /\ agent.task.agent \in who

-----------------------------------------------------------------------------
(* _call_tool. *)

Calling == Ready(Collectors) /\ Len(agent.asked) < Len(Calls(agent.task))

tool == Calls(agent.task)[Len(agent.asked) + 1]

Note(answer) == [tool |-> tool, end |-> answer.end, names |-> answer.names]

Take_KeepsPartial(answer) ==
  LET asked == Append(agent.asked, Note(answer)) IN
    IF answer.end # "raised"
    THEN /\ agent' = [agent EXCEPT !.pc = "ready", !.asked = asked,
                 !.raw = IF answer.end = "success" THEN Append(@, Note(answer))
                         ELSE @]
         /\ UNCHANGED results
    ELSE Finish(agent.task, "failure", Findings(agent.raw), {}, asked)

(* What the agent makes of an answer: an exception ends its collecting,    *)
(* which OSINT calls a failure and SOCMINT passes on.                      *)
Take(answer) ==
  LET asked == Append(agent.asked, Note(answer)) IN
    CASE answer.end = "success" ->
           /\ agent' = [agent EXCEPT !.pc = "ready", !.asked = asked,
                                     !.raw = Append(@, Note(answer))]
           /\ UNCHANGED results
      [] answer.end = "failure" ->
           /\ agent' = [agent EXCEPT !.pc = "ready", !.asked = asked]
           /\ UNCHANGED results
      [] answer.end = "raised" ->
           Nothing(agent.task,
                   IF agent.task.agent = "osint_agent" THEN "failure"
                   ELSE "raised", asked)

(* _is_safe_url refuses the URL before the limit is looked at. *)
BlockFetch ==
  /\ Calling /\ tool = "web_fetch"
  /\ Take(Fail)
  /\ UNCHANGED <<clock, callTimes, reports, starts>>

Recent == Within(callTimes[tool], clock, Minute)

Pass(times) ==
  /\ callTimes' = [callTimes EXCEPT ![tool] = Append(times, clock)]
  /\ starts' = [starts EXCEPT ![tool] = Append(@, clock)]
  /\ agent' = [agent EXCEPT !.pc = "calling"]

AtLimit_OneMore == Len(Recent) > RateLimit[tool]

AtLimit == Len(Recent) >= RateLimit[tool]

(* _rate_limit_check, up to its sleep. *)
CallTool ==
  /\ Calling
  /\ IF AtLimit
     THEN /\ agent' = [agent EXCEPT !.pc = "throttled",
                                    !.wake = Head(Recent) + Minute]
          /\ callTimes' = [callTimes EXCEPT ![tool] = Recent]
          /\ UNCHANGED starts
     ELSE Pass(Recent)
  /\ UNCHANGED <<clock, results, reports>>

(* It does not look again. *)
WakeUp ==
  /\ agent # NoAgent /\ agent.pc = "throttled" /\ clock >= agent.wake
  /\ Pass(callTimes[tool])
  /\ UNCHANGED <<clock, results, reports>>

GetAnswer(answer) ==
  /\ agent # NoAgent /\ agent.pc = "calling" /\ answer \in Execute[tool]
  /\ Take(answer)
  /\ UNCHANGED <<clock, callTimes, reports, starts>>

-----------------------------------------------------------------------------
(* After the last call the collectors ask an LLM, and do without when it   *)
(* fails; the others have nothing to call.                                 *)

Shown(answers) == UNION {answers[k].names : k \in DOMAIN answers}

(* _extract_entities.  SOCMINT looks for profiles one level too high, and  *)
(* so takes the handle alone.                                              *)
Entities(task, raw) ==
  CASE task.agent = "osint_agent" ->
         {Target} \cup Shown(raw)
    [] task.kind = "QUERY ONLY" -> {}
    [] OTHER -> {Target}

Collected ==
  /\ Ready(Collectors) /\ Len(agent.asked) = Len(Calls(agent.task))
  /\ Finish(agent.task, "success", Findings(agent.raw),
            Entities(agent.task, agent.raw), agent.asked)
  /\ UNCHANGED <<clock, callTimes, reports, starts>>

(* Duplicates are proposed for merging to nobody.  An entity whose value   *)
(* is no text raises, an LLM that fails does not.                          *)
ResolveEntities ==
  /\ Ready({"entity_resolver"})
  /\ \E outcome \in {"success", "raised"} : Nothing(agent.task, outcome, << >>)
  /\ UNCHANGED <<clock, callTimes, reports, starts>>

ValidateSources ==
  /\ Ready({"source_validator"})
  /\ \E outcome \in {"success", "failure"} :
       Nothing(agent.task, outcome, << >>)
  /\ UNCHANGED <<clock, callTimes, reports, starts>>

OpenFile_NoType(type, who) ==
  reports' = [reports EXCEPT ![clock] = [t \in ReportTypes |-> who]]

(* The file is named by case, second and type, and opened to be written    *)
(* anew.                                                                   *)
OpenFile(type, who) == reports' = [reports EXCEPT ![clock][type] = who]

(* The LLM fails before the file is opened; what raises does so before or  *)
(* while the file is written.                                              *)
Report ==
  /\ Ready({"reporter"})
  /\ \E outcome \in {"success", "failure", "raised"} :
       /\ Nothing(agent.task, outcome, << >>)
       /\ \/ /\ outcome # "failure"
             /\ OpenFile(agent.task.kind, Len(results) + 1)
          \/ outcome # "success" /\ UNCHANGED reports
  /\ UNCHANGED <<clock, callTimes, starts>>

(* The reporter of another job of the case.  Bound: it opens only files    *)
(* that this job has opened.                                               *)
ReportElsewhere(type) ==
  /\ reports[clock][type] # 0
  /\ OpenFile(type, Another)
  /\ UNCHANGED <<clock, callTimes, agent, results, starts>>

(* Evidence that is not as expected raises while it is sorted or converted *)
DrawTimeline ==
  /\ Ready({"timeline_agent"})
  /\ \/ Finish(agent.task, "success", <<"timeline">>, {}, << >>)
     \/ Nothing(agent.task, "raised", << >>)
  /\ UNCHANGED <<clock, callTimes, reports, starts>>

Tick ==
  /\ clock < LastTick
  /\ clock' = clock + 1
  /\ UNCHANGED <<callTimes, agent, results, reports, starts>>

AgentNext ==
  \/ \E t \in Inputs : RaiseOnInput(t) \/ NothingToDo(t) \/ Begin(t)
  \/ BlockFetch \/ CallTool \/ WakeUp
  \/ \E answer \in UNION {Execute[t] : t \in ToolNames} : GetAnswer(answer)
  \/ Collected
  \/ ResolveEntities \/ ValidateSources \/ Report \/ DrawTimeline
  \/ \E type \in ReportTypes : ReportElsewhere(type)
  \/ Tick

AgentSpec == AgentInit /\ [][AgentNext]_agentVars

-----------------------------------------------------------------------------
(* Whatever agents of a job call, any RateLimit + 1 calls of one tool span *)
(* at least a minute.  (Another job has a registry of its own.)            *)
ToolRateKept ==
  \A t \in ToolNames : \A i, j \in DOMAIN starts[t] :
    j = i + RateLimit[t] => starts[t][j] >= starts[t][i] + Minute

Succeeded(asked) == {k \in DOMAIN asked : asked[k].end = "success"}

(* The findings are the calls that succeeded, in the order of the calls.   *)
InOrder(findings, asked) ==
  /\ Len(findings) = Cardinality(Succeeded(asked))
  /\ \A k \in Succeeded(asked) :
       findings[Cardinality({j \in Succeeded(asked) : j <= k})] =
         asked[k].tool

Whole(r) ==
  IF r.outcome = "success"
  THEN /\ Len(r.asked) = Len(Calls(r.task))
       /\ InOrder(r.findings, r.asked)
       /\ r.entities \subseteq {Target} \cup Shown(r.asked)
  ELSE /\ r.findings = << >> /\ r.entities = {}
       /\ \/ r.task.kind \in {"EMPTY", "UNREADABLE"}
          \/ \E k \in DOMAIN r.asked : r.asked[k].end = "raised"

(* An agent reports everything it collected or nothing at all: as findings *)
(* the calls that succeeded, in their order, once all were made, and only  *)
(* names that one of these showed; and nothing only if there was nothing   *)
(* to do or a call raised.                                                 *)
CollectedWholeOrNotAtAll ==
  \A i \in DOMAIN results :
    results[i].task.agent \in Collectors => Whole(results[i])

(* The file that the reporter announced holds its report, unless a later   *)
(* run of the reporter, of this job with the same type in the same second  *)
(* or of another job of the case, opened that very file: a run that failed *)
(* before, or of another type, takes no report away.                       *)
ReportsKept ==
  \A i \in DOMAIN results :
    results[i].task.agent = "reporter" /\ results[i].outcome = "success" =>
      LET j == reports[results[i].at][results[i].task.kind] IN
        \/ j \in {i, Another}
        \/ /\ j \in DOMAIN results /\ j > i
           /\ results[j].at = results[i].at
           /\ results[j].task = results[i].task
           /\ results[j].outcome # "failure"

(* What agents return is whole, and stays so.                              *)
ResultsAreWhole == CollectedWholeOrNotAtAll /\ ReportsKept
=============================================================================
