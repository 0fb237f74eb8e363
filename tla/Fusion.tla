------------------------------- MODULE Fusion -------------------------------
(***************************************************************************)
(* The fusion engine of backend/app/intelligence/fusion.py and the graph   *)
(* of graph_intel.py that all its fusions, of any target, share.           *)
(***************************************************************************)
EXTENDS Naturals, Sequences

CONSTANTS
  Targets,
  Items,        \* bound: intelligence that a fusion may be given
  NodeIds,      \* node ids, targets among them
  MaxItems,     \* bound: items of one fusion
  MaxFusions    \* bound: fusions

Disciplines ==
  <<"OSINT", "DARKWEB", "IMINT", "FININT", "CYBINT", "SOCMINT", "LINK",
    "REPORT">>

(* id is the node that an item gets, made of its name: for an indicator,   *)
(* of the first twelve characters.  A "LINK" is an edge of a social graph, *)
(* with its ends as id and name.  marks: what else the engine asks an item *)
(* - risk_score >= 7.0, gps_coordinates, manipulation_detected, volume,    *)
(* sanctions_match, a threat_level of critical or high.                    *)
Item ==
  [kind : {Disciplines[i] : i \in DOMAIN Disciplines}, name : STRING,
   id : NodeIds,
   marks : SUBSET {"risky", "gps", "manipulated", "large", "sanctioned",
                   "severe"}]

ASSUME FusionAssumption ==
  /\ Targets \subseteq NodeIds
  /\ \A i \in Items : i \in Item /\ (i.kind = "LINK" => i.name \in NodeIds)
  /\ MaxItems \in Nat /\ MaxFusions \in Nat

VARIABLES
  labels,    \* _nodes: the label of each node that there is
  edges,     \* _edges: sources and targets, in order
  fusions    \* _fusion_results

fusionVars == <<labels, edges, fusions>>

Order(item) ==
  CHOOSE i \in DOMAIN Disciplines : Disciplines[i] = item.kind

(* fuse takes the disciplines in their order. *)
Given ==
  {s \in UNION {[1..n -> Items] : n \in 0..MaxItems} :
     \A i, j \in DOMAIN s : i < j => Order(s[i]) <= Order(s[j])}

Edge == NodeIds \X NodeIds

FusionTypeOK ==
  /\ DOMAIN labels \subseteq NodeIds
  /\ edges \in Seq(Edge)
  /\ \A i \in DOMAIN fusions :
       /\ fusions[i].target \in Targets /\ fusions[i].given \in Given
       /\ DOMAIN fusions[i].graph.labels \subseteq NodeIds
       /\ fusions[i].graph.edges \in Seq(Edge)

FusionInit == labels = << >> /\ edges = << >> /\ fusions = << >>

-----------------------------------------------------------------------------
(* GraphIntelligence. *)

AddEntity_Relabels(nodes, id, label) ==
  [n \in DOMAIN nodes \cup {id} |-> IF n = id THEN label ELSE nodes[n]]

(* A node keeps the label that it was made with. *)
AddEntity(nodes, id, label) ==
  [n \in DOMAIN nodes \cup {id} |->
     IF n \in DOMAIN nodes THEN nodes[n] ELSE label]

AddRelationship(list, source, target) == Append(list, <<source, target>>)

(* adj: an edge leads both ways. *)
Neighbours(list, m) ==
  {list[i][2] : i \in {i \in DOMAIN list : list[i][1] = m}}
    \cup {list[i][1] : i \in {i \in DOMAIN list : list[i][2] = m}}

Steps(list, path) ==
  {Append(path, n) :
     n \in Neighbours(list, path[Len(path)]) \ {path[i] : i \in DOMAIN path}}

(* find_paths: breadth first, not beyond the end; a path longer than       *)
(* max_depth is dropped when its turn comes.                               *)
FindPaths(list, start, end, max_depth) ==
  LET queue[n \in Nat] ==
        IF n <= 1 THEN {<<start>>}
        ELSE UNION {Steps(list, p) : p \in {p \in queue[n - 1] :
                      Len(p) <= max_depth /\ (p[Len(p)] # end \/ Len(p) = 1)}}
  IN {p \in UNION {queue[n] : n \in 1..(max_depth + 1)} :
        Len(p) <= max_depth /\ p[Len(p)] = end /\ Len(p) > 1}

GetAllPathsFrom_Longer(list, start, max_depth) ==
  LET stack[n \in Nat] ==
        IF n <= 1 THEN {<<start>>}
        ELSE UNION {Steps(list, p) : p \in {p \in stack[n - 1] :
                      Len(p) <= max_depth}}
  IN {p \in UNION {stack[n] : n \in 1..(max_depth + 1)} : Len(p) > 1}

(* get_all_paths_from: depth first; a path of max_depth is not extended.   *)
GetAllPathsFrom(list, start, max_depth) ==
  LET stack[n \in Nat] ==
        IF n <= 1 THEN {<<start>>}
        ELSE UNION {Steps(list, p) : p \in {p \in stack[n - 1] :
                      Len(p) < max_depth}}
  IN {p \in UNION {stack[n] : n \in 1..(max_depth + 1)} : Len(p) > 1}

Touching(list, nodes) ==
  {i \in DOMAIN list : \E k \in {1, 2} : list[i][k] \in nodes}

Ends(nodes, list, indices) ==
  {list[i][k] : i \in indices, k \in {1, 2}} \cap DOMAIN nodes

(* find_connected_nodes: any depth beyond 1 is 2. *)
FindConnectedNodes(nodes, list, id, depth) ==
  LET near == ({id} \cap DOMAIN nodes)
                \cup Ends(nodes, list, Touching(list, {id}))
  IN IF depth <= 1 THEN near
     ELSE near \cup Ends(nodes, list, Touching(list, near))

-----------------------------------------------------------------------------
(* MultiINTFusionEngine.fuse. *)

Marked(given, kind, mark) ==
  {i \in DOMAIN given : given[i].kind = kind /\ mark \in given[i].marks}

(* Which items are linked to the target: dark web sources of high risk,    *)
(* sanctioned profiles, and every indicator.                               *)
Linked(item) ==
  \/ item.kind = "DARKWEB" /\ "risky" \in item.marks
  \/ item.kind = "FININT" /\ "sanctioned" \in item.marks
  \/ item.kind = "CYBINT"

(* What a fusion of target does to the graph with one item.  An OSINT node *)
(* is labelled with the target, and like a social account linked to        *)
(* nothing.                                                                *)
Draw(target, item, graph) ==
  CASE item.kind = "OSINT" ->
         [graph EXCEPT !.labels = AddEntity(@, item.id, target)]
    [] item.kind = "SOCMINT" ->
         [graph EXCEPT !.labels = AddEntity(@, item.id, item.name)]
    [] item.kind = "LINK" ->
         [graph EXCEPT !.edges = AddRelationship(@, item.id, item.name)]
    [] Linked(item) ->
         [graph EXCEPT !.labels = AddEntity(@, item.id, item.name),
                       !.edges = AddRelationship(@, target, item.id)]
    [] OTHER -> graph

Drawn(target, given, graph) ==
  LET after[n \in 0..Len(given)] ==
        IF n = 0 THEN graph ELSE Draw(target, given[n], after[n - 1])
  IN after[Len(given)]

(* The indicators that the text of the assessment is made of. *)
AssessThreat(given) ==
  (IF Marked(given, "DARKWEB", "risky") # {} THEN {"dark web"} ELSE {})
    \cup (IF Marked(given, "FININT", "sanctioned") # {} THEN {"sanctions"}
          ELSE {})
    \cup (IF Marked(given, "CYBINT", "severe") # {} THEN {"iocs"} ELSE {})
    \cup (IF Marked(given, "REPORT", "severe") # {} THEN {"cyber"} ELSE {})

(* What is correlated, by its type. *)
Correlated(given) ==
  (IF Marked(given, "DARKWEB", "risky") # {} THEN {"darkweb_alert"} ELSE {})
    \cup (IF Marked(given, "IMINT", "gps") # {} THEN {"geolocation"} ELSE {})
    \cup (IF Marked(given, "IMINT", "manipulated") # {}
          THEN {"image_manipulation"} ELSE {})
    \cup (IF Marked(given, "FININT", "large") # {}
          THEN {"high_value_financial"} ELSE {})

(* They are looked for in the text of the assessment. *)
GenerateRecommendations(given) ==
  (IF "sanctions" \in AssessThreat(given) THEN {"escalate"} ELSE {})
    \cup (IF AssessThreat(given) \cap {"cyber", "iocs"} # {} THEN {"block"}
          ELSE {})
    \cup (IF "geolocation" \in Correlated(given) THEN {"locate"} ELSE {})
    \cup (IF "image_manipulation" \in Correlated(given) THEN {"forensics"}
          ELSE {})

Relationships(target, given) ==
  {<<target, given[i].name>> : i \in {i \in DOMAIN given : Linked(given[i])}}

(* graph_data is the whole graph, what other targets left in it included.  *)
Fuse(target, given) ==
  LET graph == Drawn(target, given, [labels |-> labels, edges |-> edges]) IN
    /\ Len(fusions) < MaxFusions
    /\ labels' = graph.labels /\ edges' = graph.edges
    /\ fusions' = Append(fusions,
         [target |-> target, given |-> given, graph |-> graph,
          relationships |-> Relationships(target, given),
          advice |-> GenerateRecommendations(given)])

FusionNext ==
  \E target \in Targets, given \in Given : Fuse(target, given)

FusionSpec == FusionInit /\ [][FusionNext]_fusionVars

-----------------------------------------------------------------------------
Mentioned ==
  DOMAIN labels \cup {edges[i][k] : i \in DOMAIN edges, k \in {1, 2}}

(* The searches agree: a path of at most max_depth nodes is found by       *)
(* find_paths exactly if get_all_paths_from finds it, and what             *)
(* find_connected_nodes shows are the nodes where the paths of three nodes *)
(* lead that pass nodes which exist, in whatever graph, with loops,        *)
(* parallel edges and edges to nodes nobody added.                         *)
SearchesAgree ==
  \A start \in Mentioned : \A depth \in 0..4 :
    LET all == GetAllPathsFrom(edges, start, depth)
        there == {p \in all : Len(p) = 3 => p[2] \in DOMAIN labels}
    IN /\ \A end \in Mentioned :
            FindPaths(edges, start, end, depth) = {p \in all : p[Len(p)] = end}
       /\ depth = 3 =>
            FindConnectedNodes(labels, edges, start, 2) =
              DOMAIN labels \cap ({start} \cup {p[Len(p)] : p \in there})

Before(i, k) ==
  UNION {{[target |-> fusions[m].target, item |-> fusions[m].given[n]] :
            n \in {n \in DOMAIN fusions[m].given : m < i \/ n < k}} :
         m \in 1..i}

(* The label that node id had before item k of fusion i, which others made *)
LabelledBefore(i, k, label) ==
  LET id == fusions[i].given[k].id IN
    \E b \in Before(i, k) :
      b.item.id = id /\ label = IF b.item.kind = "OSINT" THEN b.target
                               ELSE b.item.name

(* Every relationship that a fusion reports is an edge of its graph to a   *)
(* node with that name, unless an earlier item, of this or another target, *)
(* took the node's id; nothing of an earlier fusion is missing or renamed  *)
(* in a later graph; and compliance is alerted exactly when one of the     *)
(* relationships is to somebody sanctioned.                                *)
FusionsAreSound ==
  \A i \in DOMAIN fusions :
    LET f == fusions[i] IN
      /\ \A r \in f.relationships : \E k \in DOMAIN f.given :
           LET id == f.given[k].id IN
             /\ f.given[k].name = r[2]
             /\ \E e \in DOMAIN f.graph.edges : f.graph.edges[e] = <<r[1], id>>
             /\ id \in DOMAIN f.graph.labels
             /\ \/ f.graph.labels[id] = r[2]
                \/ LabelledBefore(i, k, f.graph.labels[id])
      /\ \A j \in 1..(i - 1) :
           /\ \A n \in DOMAIN fusions[j].graph.labels :
                /\ n \in DOMAIN f.graph.labels
                /\ f.graph.labels[n] = fusions[j].graph.labels[n]
           /\ \A e \in DOMAIN fusions[j].graph.edges :
                /\ e \in DOMAIN f.graph.edges
                /\ f.graph.edges[e] = fusions[j].graph.edges[e]
      /\ "escalate" \in f.advice <=>
           \E k \in DOMAIN f.given :
             /\ <<f.target, f.given[k].name>> \in f.relationships
             /\ f.given[k].kind = "FININT" /\ "sanctioned" \in f.given[k].marks
=============================================================================
