----------------------------- MODULE MCPlatform -----------------------------
(* Components that share no state, side by side: in each behaviour one of  *)
(* them moves, part, and the others stay as they begin.                    *)
EXTENDS Provisioning, RateWindow, Agents, Fusion

VARIABLE part

MCRateLimit == [t \in ToolNames |-> IF t = "dns_lookup" THEN 5 ELSE 1]

MCInputs ==
  {t \in AgentTasks :
     CASE t.agent = "osint_agent" -> t.kind \notin {"EMAIL", "UNREADABLE"}
       [] t.agent = "socmint_agent" -> t.kind \in {"HANDLE", "UNREADABLE"}
       [] OTHER -> t.kind \in {"GIVEN"} \cup ReportTypes}

Intelligence(kind, name, id, marks) ==
  [kind |-> kind, name |-> name, id |-> id, marks |-> marks]

MCItems ==
  {Intelligence("OSINT", "target", "osint_target", {}),
   Intelligence("IMINT", "image", "target", {"gps", "manipulated"}),
   Intelligence("FININT", "bank", "sanctions_bank", {"large", "sanctioned"}),
   Intelligence("CYBINT", "https://evil/a", "ioc_https://evil", {"severe"}),
   Intelligence("CYBINT", "https://evil/b", "ioc_https://evil", {}),
   Intelligence("SOCMINT", "friend", "friend", {}),
   Intelligence("LINK", "friend", "target", {}),
   Intelligence("LINK", "ioc_https://evil", "friend", {}),
   Intelligence("DARKWEB", "forum", "darkweb_forum", {"risky"})}

PlatformTypeOK == UserTypeOK /\ RateTypeOK /\ AgentTypeOK /\ FusionTypeOK

platformVars == <<userVars, rateVars, agentVars, fusionVars, part>>

PlatformInit ==
  /\ part \in {"users", "rate", "agents", "fusion"}
  /\ UserInit /\ RateInit /\ AgentInit /\ FusionInit
  /\ part # "rate" => \A s \in Servers : mode[s] = "local"

UserStep ==
  part = "users" /\ UserNext /\ UNCHANGED <<rateVars, agentVars, fusionVars>>

RateStep ==
  part = "rate" /\ RateNext /\ UNCHANGED <<userVars, agentVars, fusionVars>>

AgentStep ==
  part = "agents" /\ AgentNext /\ UNCHANGED <<userVars, rateVars, fusionVars>>

FusionStep ==
  part = "fusion" /\ FusionNext /\ UNCHANGED <<userVars, rateVars, agentVars>>

PlatformNext ==
  (UserStep \/ RateStep \/ AgentStep \/ FusionStep) /\ UNCHANGED part

PlatformSpec == PlatformInit /\ [][PlatformNext]_platformVars
=============================================================================
