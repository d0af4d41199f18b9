----------------------------- MODULE SrxReports -----------------------------
(***************************************************************************)
(* The SRX reads that put several replies together: srx_flow_sessions,     *)
(* which counts before it walks, and get_srx_security_services_status,     *)
(* five RPCs over every node. They share the state of SrxQueries.          *)
(***************************************************************************)
EXTENDS SrxQueries

CONSTANTS
    MAX_CAP,        \* the ceiling of a caller's session cap
    FlowTables      \* node by node, the sessions a device may hold

ASSUME FlowAssumption ==
    /\ FlowTables \subseteq Seq(Nat)
    /\ \A q \in Queries : q.tool = "flow_sessions" => q.cap \in Nat /\ q.device \in Seq(Nat)

-----------------------------------------------------------------------------
(* srx_flow_sessions. The device is a sequence of nodes, each the number of *)
(* sessions that match the filter. A node's reply is [listed, errors,       *)
(* counted, sessions]: whether the reply has the node at all, the severities*)
(* of its rpc-errors ("none" for an rpc-error without one), whether a count *)
(* the parser knows is in it, and the count.                                *)

\* The severities of all the rpc-errors of a node, not of the first.
extract_rpc_error(errors) ==
    [present |-> errors # {},
     is_error |-> "error" \in errors,
     is_warning |-> "warning" \in errors /\ "error" \notin errors]

\* (external) a node's reply: the plain one, an advisory next to it, a count
\* under an unknown name; a failure or the "node is secondary" without a
\* severity, whatever the node holds; or none.
FlowReply(live) ==
    {[listed |-> TRUE, errors |-> e, counted |-> c, sessions |-> live] : e \in {{}, {"warning"}}, c \in BOOLEAN}
    \cup {[listed |-> TRUE, errors |-> e, counted |-> FALSE, sessions |-> 0] :
            e \in {{"error"}, {"warning", "error"}, {"none"}, {"none", "warning"}}}
    \cup {[listed |-> FALSE, errors |-> {}, counted |-> FALSE, sessions |-> 0]}

\* (external) the replies of all nodes to one RPC.
FlowReplies(table) ==
    {nodes \in [DOMAIN table -> UNION {FlowReply(table[i]) : i \in DOMAIN table}] :
        \A i \in DOMAIN table : nodes[i] \in FlowReply(table[i])}

\* The filters that narrow anything: a blank application is none; a port needs
\* its protocol; a /0 prefix is refused; no filter at all has to be acknowledged.
validate_filter(q) ==
    /\ q.valid
    /\ "port" \in q.filters => "protocol" \in q.filters
    /\ "prefix_0" \notin q.filters
    /\ q.filters \ {"blank_application"} # {} \/ q.acknowledge_unfiltered

validate_cap(cap) == cap \in 1..MAX_CAP

\* The sum of a sequence of counts.
Total(counts) ==
    LET upTo[i \in 0..Len(counts)] == IF i = 0 THEN 0 ELSE upTo[i - 1] + counts[i]
    IN upTo[Len(counts)]

\* The nodes the summary goes by: a node it does not list, and one whose
\* rpc-errors have no severity, are passed over.
NodesTold(nodes) ==
    {i \in DOMAIN nodes :
        LET error == extract_rpc_error(nodes[i].errors)
        IN nodes[i].listed /\ (error.present => error.is_error \/ error.is_warning)}

\* Mutant: nodes that failed are left out of the total.
parse_summary_total_HealthyOnly(nodes) ==
    LET Healthy == {i \in NodesTold(nodes) : nodes[i].counted /\ ~extract_rpc_error(nodes[i].errors).is_error}
    IN [known |-> Healthy # {},
        total |-> Total([i \in DOMAIN nodes |-> IF i \in Healthy THEN nodes[i].sessions ELSE 0])]

\* The table's size over all nodes told of; unknown when one of them failed or
\* answered without a count, and when there is none.
parse_summary_total(nodes) ==
    LET unknown == \E i \in NodesTold(nodes) :
                        extract_rpc_error(nodes[i].errors).is_error \/ ~nodes[i].counted
    IN [known |-> ~unknown /\ NodesTold(nodes) # {},
        total |-> Total([i \in DOMAIN nodes |-> IF i \in NodesTold(nodes) THEN nodes[i].sessions ELSE 0])]

plan_walk(summary, cap) ==
    CASE ~summary.known -> "count_unavailable"
      [] summary.known /\ summary.total > cap -> "count_exceeds_cap"
      [] OTHER -> "proceed"

\* The walk's nodes one after the other, cut where the cap runs out; a node the
\* reply does not list has no entry in the answer.
WalkNode(acc, n) ==
    LET error == extract_rpc_error(n.errors)
        failed == ~n.listed \/ (error.present /\ ~error.is_warning)
        taken == IF failed THEN 0 ELSE IF n.sessions > acc.remaining THEN acc.remaining ELSE n.sessions
    IN [nodes |-> Append(acc.nodes, [listed |-> n.listed, sessions |-> taken, error |-> error.present]),
        remaining |-> acc.remaining - taken,
        truncated |-> acc.truncated \/ (~failed /\ n.sessions > taken)]
parse_walk(nodes, cap) ==
    LET upTo[i \in 0..Len(nodes)] ==
            IF i = 0 THEN [nodes |-> <<>>, remaining |-> cap, truncated |-> FALSE]
            ELSE WalkNode(upTo[i - 1], nodes[i])
    IN upTo[Len(nodes)]

\* The sessions the raw XML shows: the walk's body only when nothing was cut.
compose_walk_raw(q, nodes, truncated) ==
    IF q.include_raw /\ ~truncated
    THEN Total([i \in DOMAIN nodes |-> nodes[i].sessions]) ELSE 0

\* run: the arguments, then the summary RPC with the query's own filters. The
\* summary is kept until the answer; `partial` has the nodes it goes by.
FlowSummary ==
    /\ query.tool = "flow_sessions" /\ step = "start"
    /\ \/ /\ ~(validate_filter(query) /\ validate_cap(query.cap))
          /\ answer' = Err("invalid_input") /\ step' = "done" /\ UNCHANGED partial
       \/ /\ validate_filter(query) /\ validate_cap(query.cap)
          /\ \/ answer' = Err("transport") /\ step' = "done" /\ UNCHANGED partial
             \/ \E nodes \in FlowReplies(device) :
                    LET summary == parse_summary_total(nodes)
                        plan == plan_walk(summary, query.cap)
                    IN IF plan = "proceed"
                       THEN partial' = NodesTold(nodes) /\ step' = "walk" /\ UNCHANGED answer
                       ELSE /\ answer' = [tag |-> "active", nodes |-> <<>>, truncated |-> TRUE,
                                          refused |-> plan, raw |-> 0]
                            /\ step' = "done" /\ UNCHANGED partial
    /\ UNCHANGED <<query, device, moved>>

\* run: the walk.
FlowWalk ==
    /\ query.tool = "flow_sessions" /\ step = "walk"
    /\ \/ answer' = Err("transport")
       \/ \E nodes \in FlowReplies(device) :
            LET walk1 == parse_walk(nodes, query.cap)
            IN answer' = [tag |-> "active", nodes |-> walk1.nodes, truncated |-> walk1.truncated,
                          refused |-> "no", raw |-> compose_walk_raw(query, nodes, walk1.truncated)]
    /\ step' = "done"
    /\ UNCHANGED <<query, device, partial, moved>>

\* (external) sessions come and go between the two RPCs.
SessionsChange ==
    /\ query.tool = "flow_sessions" /\ step = "walk" /\ ~moved
    /\ \E table \in FlowTables : Len(table) = Len(device) /\ table # device /\ device' = table
    /\ moved' = TRUE
    /\ UNCHANGED <<query, step, partial, answer>>

-----------------------------------------------------------------------------
(* get_srx_security_services_status. `device` has, service by service, the  *)
(* truth of each node, "active" or "absent", and the reply to the service's *)
(* RPC: whether it came and could be split, and for each routing engine it  *)
(* lists, which need not be all of them, the node and the body.             *)

Services == {"idp", "appid", "utm_av", "secintel", "atp_cloud"}

\* (external) a node's body: its service's element; the device's word that there
\* is none (a not-configured error, no-config, aamw-errors); well-formed without
\* either, as an empty reply is; another rpc-error; text that does not parse.
Bodies(truth) ==
    {IF truth = "active" THEN "element" ELSE "refused", "other", "rpc_error", "garbled"}

IsServiceReply(truth, sub) ==
    /\ sub.ok \in BOOLEAN /\ Len(sub.nodes) \in Nat /\ DOMAIN sub.nodes = 1..Len(sub.nodes)
    /\ \A i \in DOMAIN sub.nodes :
        /\ sub.nodes[i].node \in DOMAIN truth /\ truth[sub.nodes[i].node] \in {"active", "absent"}
        /\ sub.nodes[i].body \in Bodies(truth[sub.nodes[i].node])

\* Each of the five services is asked once.
ASSUME ServicesAssumption ==
    \A q \in Queries : q.tool = "services_status" =>
        /\ IsList(q.order) /\ {q.order[i] : i \in DOMAIN q.order} = Services
        /\ \A s \in Services : IsServiceReply(q.device[s].truth, q.device[s].reply)

\* parse_idp and the four like it, over one node's body: only what was not
\* understood is an error; a document without the element is an absent service.
ParseService(body) ==
    CASE body \in {"rpc_error", "garbled"} -> "error"
      [] body \in {"refused", "other"} -> "not_configured"
      [] body = "element" -> "active"

\* Mutant: a failed sub-RPC, and a node the reply lacks, read as an absent section.
per_node_Absent(sub, i) ==
    IF sub.ok /\ i \in DOMAIN sub.nodes THEN ParseService(sub.nodes[i].body) ELSE "not_configured"

\* One node's slot. A failed RPC, and a node the reply lacks, are errors.
per_node(sub, i) ==
    IF ~sub.ok THEN "error"
    ELSE IF i \in DOMAIN sub.nodes THEN ParseService(sub.nodes[i].body) ELSE "error"

\* The nodes of the first reply there is, or one standalone node.
NodeCount(subs, order) ==
    LET Answered == {i \in DOMAIN order : subs[order[i]].ok}
    IN IF Answered = {} THEN 1
       ELSE Len(subs[order[Min(Answered)]].nodes)

\* run: five captures, whose failures are slots; absent only if all of it is.
ServicesStatus ==
    /\ query.tool = "services_status" /\ step = "start"
    /\ LET subs == [s \in Services |-> device[s].reply]
           nodes == [i \in 1..NodeCount(subs, query.order) |-> [s \in Services |-> per_node(subs[s], i)]]
       IN answer' = IF \A i \in DOMAIN nodes, s \in Services : nodes[i][s] = "not_configured"
                    THEN NotConfigured ELSE [tag |-> "active", nodes |-> nodes]
    /\ step' = "done"
    /\ UNCHANGED <<query, device, partial, moved>>

ReportNext ==
    \/ FlowSummary
    \/ FlowWalk
    \/ SessionsChange
    \/ ServicesStatus

\* One call of one of these tools.
ReadSpec == QueryInit /\ [][QueryNext \/ ReportNext]_queryVars

-----------------------------------------------------------------------------
(* Properties.                                                             *)

\* srx_flow_sessions asks for the walk only of a table within the cap, over the
\* nodes the summary went by and with none of them failed; whatever the table
\* does between the two RPCs, no more than cap sessions leave the server, in the
\* list or in the raw XML; and an answer that is neither refused nor truncated
\* has every session of every node it lists without an error.
FlowAnswerIsBounded ==
    query.tool = "flow_sessions" =>
        /\ (step = "walk" /\ ~moved) =>
                Total([i \in DOMAIN device |-> IF i \in partial THEN device[i] ELSE 0]) <= query.cap
        /\ answer.tag = "active" =>
                LET listed == Total([i \in DOMAIN answer.nodes |-> answer.nodes[i].sessions])
                IN /\ listed <= query.cap
                   /\ answer.raw <= query.cap
                   /\ (answer.refused = "no" /\ answer.truncated) => listed = query.cap
                   /\ (answer.refused = "no" /\ ~answer.truncated) =>
                        \A i \in DOMAIN device :
                            answer.nodes[i].listed =>
                                answer.nodes[i].error \/ answer.nodes[i].sessions = device[i]

\* The parts of FailureIsNotAbsence for the services and for the name lookups. A
\* slot speaks of the routing engine at its place in the service's own reply.
SaysAbsent(s, i) ==
    LET sub == device[s].reply
    IN sub.ok /\ i \in DOMAIN sub.nodes
       /\ (device[s].truth[sub.nodes[i].node] = "absent" \/ sub.nodes[i].body = "other")
SaysActive(s, i) ==
    LET sub == device[s].reply
    IN sub.ok /\ i \in DOMAIN sub.nodes /\ device[s].truth[sub.nodes[i].node] = "active"

AbsentMeansAbsent ==
    query.tool = "services_status" =>
        /\ answer.tag = "not_configured" =>
                \A s \in Services :
                    \A i \in 1..NodeCount([t \in Services |-> device[t].reply], query.order) : SaysAbsent(s, i)
        /\ answer.tag = "active" =>
                \A i \in DOMAIN answer.nodes, s \in Services :
                    /\ answer.nodes[i][s] = "not_configured" => SaysAbsent(s, i)
                    /\ answer.nodes[i][s] = "active" => SaysActive(s, i)

NoBookMeansNoBook ==
    (query.tool \in {"resolve_address", "resolve_application"} /\ answer.tag = "not_configured") =>
        \/ \A i \in DOMAIN device.nodes : device.nodes[i] = "not_configured"
        \/ query.tool = "resolve_address" /\ DOMAIN View = {}

\* A failure never reads as absence: "not configured" is said of a service only
\* on the device's word or on a well-formed reply without the service's element
\* (the parsers take an empty reply for an absent service), never when its RPC
\* failed, its text did not parse, an rpc-error says otherwise or its reply lacks
\* the node, and of all services together only when each RPC says so of each node
\* that the first reply lists; of a book only when the device has none; and pages of
\* policies taken one after another leave none out and repeat none, unless the
\* call answers with an error (per_node, parse, the rpc-error paths).
FailureIsNotAbsence == AbsentMeansAbsent /\ NoBookMeansNoBook /\ PagesTile

\* "We only flip the top-level response to not_configured when every sub-service
\* is confirmed NotConfigured": with a first reply that lists no routing engine
\* nothing is confirmed, and the code flips all the same.
AbsenceIsConfirmed ==
    (query.tool = "services_status" /\ answer.tag = "not_configured") =>
        \A s \in Services : \E i \in DOMAIN device[s].reply.nodes : SaysAbsent(s, i)
=============================================================================
