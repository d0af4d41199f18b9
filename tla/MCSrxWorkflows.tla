--------------------------- MODULE MCSrxWorkflows ---------------------------
(* The SRX workflows: a behaviour is either two support-bundle collections *)
(* or one read-only query.                                                 *)
EXTENDS SupportBundle, SrxReports

CONSTANTS r1, r2

\* Same router twice, two routers, each path of run(), a cap that is reached.
MCRequests ==
    { [router |-> r1, types |-> {"idp_appid"}, include_logs |-> TRUE, redact |-> TRUE, max_log_files |-> 1, path_ok |-> TRUE],
      [router |-> r1, types |-> {"traffic_loss"}, include_logs |-> FALSE, redact |-> TRUE, max_log_files |-> 5, path_ok |-> TRUE],
      [router |-> r1, types |-> {"generic", "vpn"}, include_logs |-> TRUE, redact |-> TRUE, max_log_files |-> 5, path_ok |-> TRUE],
      [router |-> r2, types |-> {"generic"}, include_logs |-> TRUE, redact |-> FALSE, max_log_files |-> 5, path_ok |-> TRUE],
      [router |-> r2, types |-> {}, include_logs |-> TRUE, redact |-> TRUE, max_log_files |-> 5, path_ok |-> TRUE],
      [router |-> r2, types |-> {"vpn"}, include_logs |-> TRUE, redact |-> TRUE, max_log_files |-> 5, path_ok |-> FALSE] }

NoQuery == [tool |-> "none", valid |-> TRUE, device |-> "none"]

MCPolicyConfigs ==
    [zone : {"none", "permit", "deny"}, global : {"none", "permit", "reject", "odd"},
     default : {"deny-all", "permit-all"}]

PolicyMatches == [tool : {"policy_match"}, valid : BOOLEAN, device : MCPolicyConfigs]

\* A name in two zone pairs, on one or two nodes, one policy the parser refuses.
Policies ==
    { [key |-> <<"trust", "web">>, known |-> TRUE, hits |-> 1],
      [key |-> <<"dmz", "web">>, known |-> TRUE, hits |-> 2],
      [key |-> <<"dmz", "odd">>, known |-> FALSE, hits |-> 3] }
PolicyNodes ==
    {[tag |-> "rpc_error", policies |-> <<>>], [tag |-> "not_configured", policies |-> <<>>]}
        \cup [tag : {"ok"}, policies : BoundedSeq(Policies, 2)]
PolicyPages == [tool : {"list_policies"}, valid : {TRUE}, limit : 1..2, device : BoundedSeq(PolicyNodes, 2) \ {<<>>}]

\* What a commit between two pages may leave: one policy, another, both, none.
MCPolicyLists ==
    {<<[tag |-> "ok", policies |-> l]>> : l \in BoundedSeq({p \in Policies : p.known}, 2)}

\* Books over three names with sets of up to two members.
Nodes == {Leaf} \cup {SetOf(m) : m \in BoundedSeq({"a", "b", "c"}, 2)}
Books == UNION {[S -> Nodes] : S \in SUBSET {"a", "b", "c"}}
Globals == {[n \in {} |-> Leaf], [n \in {"a"} |-> Leaf], [n \in {"a", "b"} |-> IF n = "a" THEN Leaf ELSE SetOf(<<"a">>)]}
NoZones == [z \in {} |-> [n \in {} |-> Leaf]]
Global(b) == [name |-> "global", book |-> b, attach |-> {}]
Corp(b) == [name |-> "corp", book |-> b, attach |-> {"trust"}]
AddressConfigs ==
    {[top |-> <<Global(b)>>, zones |-> NoZones, unnamed |-> FALSE] : b \in Books}
    \cup {[top |-> <<Global(g)>>, zones |-> [z \in {"trust"} |-> b], unnamed |-> FALSE] :
            g \in Globals, b \in {d \in Books : DOMAIN d \subseteq {"a", "c"}}}
    \cup {[top |-> <<Global(g), Corp(b), [name |-> "none", book |-> h, attach |-> {}]>>, zones |-> NoZones, unnamed |-> FALSE] :
            g \in Globals, b \in {d \in Books : DOMAIN d \subseteq {"b"}}, h \in Globals}
\* An address that does not parse: the one looked up, one next to it, one in a
\* book the lookup never enters; and a security zone without a name.
Bad(S) == [n \in S |-> IF n = "a" THEN Leaf ELSE Unreadable]
UnreadableConfigs ==
    {[top |-> <<Global(g)>>, zones |-> [z \in Z |-> Bad({"c"})], unnamed |-> FALSE] : g \in Globals, Z \in {{"trust"}, {"dmz"}}}
    \cup {[top |-> <<Global(g), Corp(b)>>, zones |-> NoZones, unnamed |-> u] :
            g \in {Bad({"a"}), Bad({"a", "b"}), [n \in {"a"} |-> Unreadable]}, b \in {Bad({"a"}), Bad({"a", "c"})}, u \in BOOLEAN}
AddressLookups ==
    [tool : {"resolve_address"}, valid : {TRUE}, zone : {"none", "trust"}, name : {"a"},
     device : [nodes : {<<"config">>}, config : AddressConfigs \cup UnreadableConfigs]]
    \cup [tool : {"resolve_address"}, valid : {TRUE}, zone : {"none"}, name : {"a"},
          device : [nodes : BoundedSeq({"rpc_error", "not_configured", "config"}, 2) \ {<<>>},
                    config : {[top |-> <<Global([n \in {"a"} |-> Leaf])>>, zones |-> NoZones, unnamed |-> FALSE]}]]

\* "b" is in the compiled-in table; "c" may be of a form the parser does not know.
Containers ==
    {<<[group |-> g, book |-> b1], [group |-> "none", book |-> b2]>> :
        g \in {"corp", "junos-defaults"},
        b1 \in {[n \in {} |-> Leaf], [n \in {"b"} |-> SetOf(<<"c">>)], [n \in {"b", "c"} |-> Leaf]},
        b2 \in {d \in Books : DOMAIN d \subseteq {"a", "c"}}}
ApplicationLookups ==
    [tool : {"resolve_application"}, valid : {TRUE}, name : {"a", "b"},
     device : [nodes : {<<"config">>, <<"not_configured", "config">>, <<"rpc_error">>},
               containers : Containers, static : {[n \in {"b"} |-> Leaf]}, unknown : {{}, {"c"}}]]

\* At most one thing wrong, at most two captures lost.
Captures ==
    {g \in [{"status", "interfaces", "info", "alarms", "uptime", "software"} -> {"ok", "error", "garbled"}] :
        Cardinality({k \in DOMAIN g : g[k] # "ok"}) <= 2}
HealthChecks ==
    [tool : {"cluster_health"}, valid : {TRUE},
     device : [got : Captures \cup {[k \in DOMAIN g |-> IF k = "status" THEN "standalone" ELSE g[k]] : g \in Captures},
               ill : {{}} \cup {{i} : i \in FailIll \cup WarnIll}]]

\* One or two nodes of up to three sessions, caps below, at and above the ceiling.
MCFlowTables == BoundedSeq(0..3, 2) \ {<<>>}
FlowQueries ==
    [tool : {"flow_sessions"}, valid : BOOLEAN, filters : {{}, {"protocol", "port"}}, cap : {2},
     acknowledge_unfiltered : BOOLEAN, include_raw : BOOLEAN, device : MCFlowTables]
    \cup [tool : {"flow_sessions"}, valid : {TRUE}, filters : {{"port"}, {"prefix_0"}, {"blank_application"}, {"protocol"}},
          cap : {0, 1, 3}, acknowledge_unfiltered : BOOLEAN, include_raw : {TRUE}, device : {<<1, 1>>}]

\* One or two nodes. The first and the last RPC get every reply there is, nodes
\* left out and none listed included; the three between fail or agree.
Replies(truth) ==
    {[ok |-> FALSE, nodes |-> <<>>]}
    \cup {[ok |-> TRUE, nodes |-> n] :
            n \in {m \in BoundedSeq([node : DOMAIN truth, body : Bodies("active") \cup Bodies("absent")], Len(truth)) :
                    /\ \A i \in DOMAIN m : m[i].body \in Bodies(truth[m[i].node])
                    /\ \A i, j \in DOMAIN m : i < j => m[i].node < m[j].node}}
Service(t, r) == [truth |-> t, reply |-> r]
ServiceQueries ==
    UNION {
        {[tool |-> "services_status", valid |-> TRUE, order |-> <<"idp", "appid", "utm_av", "secintel", "atp_cloud">>,
          device |-> [s \in Services |-> CASE s = "idp" -> Service(t, a)
                                          [] s = "atp_cloud" -> Service(t, b)
                                          [] OTHER -> Service(u, c)]] :
            a \in Replies(t), b \in Replies(t),
            c \in {r \in Replies(u) : r.ok => /\ Len(r.nodes) = Len(u)
                                            /\ \A i \in DOMAIN r.nodes : r.nodes[i].body \notin {"rpc_error", "garbled"}}} :
        t \in {<<"absent">>, <<"active">>, <<"absent", "active">>}, u \in {<<"absent">>, <<"absent", "absent">>}}

MCQueries == FlowQueries \cup ServiceQueries \cup PolicyMatches \cup PolicyPages \cup AddressLookups \cup ApplicationLookups \cup HealthChecks

vars == <<bundleVars, queryVars>>

Init ==
    /\ BundleInit
    /\ \/ QueryInit
       \/ /\ query = NoQuery /\ device = "none" /\ step = "done"
          /\ partial = <<>> /\ answer = NoAnswer /\ moved = FALSE

Next ==
    \/ query.tool = "none" /\ BundleNext /\ UNCHANGED queryVars
    \/ (QueryNext \/ ReportNext) /\ UNCHANGED bundleVars

Spec == Init /\ [][Next]_vars
=============================================================================
