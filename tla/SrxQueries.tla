----------------------------- MODULE SrxQueries -----------------------------
(***************************************************************************)
(* The SRX read-only workflows whose answer an operator acts on:           *)
(* srx_policy_match, srx_list_policies, srx_resolve_address,               *)
(* srx_resolve_application and validate_chassis_cluster_health.            *)
(*                                                                         *)
(* A reply is what the parsers can tell apart: a sequence of routing-engine*)
(* nodes (one for a standalone device), each an rpc-error, "not_configured"*)
(* or its payload; the XML is abstracted away. `device` is what the device *)
(* has configured, which another operator may commit over between two RPCs *)
(* of one call; `moved` records that this happened.                        *)
(***************************************************************************)
EXTENDS Naturals, Sequences, FiniteSets, SequencesExt

CONSTANTS
    MAX_RESOLUTION_DEPTH,   \* nesting the set walk accepts (resolve.rs)
    MEMBER_CAP,             \* DEFAULT_{ADDRESS,APPLICATION}_MEMBER_CAP
    Queries,                \* the calls: [tool, valid, ...arguments, device]
    PolicyConfigs,          \* the policy configurations a commit may install
    PolicyLists             \* node by node, the policies a commit may leave

\* A name of a book is a leaf, or a set with its members in their order.
ConfigNode ==
    [kind : {"leaf"}, members : {<<>>}] \cup [kind : {"set"}, members : Seq(STRING)]

Leaf == [kind |-> "leaf", members |-> <<>>]
SetOf(members) == [kind |-> "set", members |-> members]

IsBook(book) == \A n \in DOMAIN book : book[n] \in ConfigNode

\* An address whose value does not parse, or an entry without its name.
Unreadable == [kind |-> "unreadable", members |-> <<>>]
IsAddressBook(book) == \A n \in DOMAIN book : book[n] \in ConfigNode \cup {Unreadable}

IsList(s) == Len(s) \in Nat /\ DOMAIN s = 1..Len(s)

\* The action of a matching policy, in the device's words: "none" if no policy
\* matches, never a default's name, a failure or an element that is not there.
IsAction(a) == a \notin {"deny-all", "permit-all", "rpc_error", "absent"}

\* A policy as list_policies reads it: key is the zone pair and the name.
Policy == [key : STRING \X STRING, known : BOOLEAN, hits : Nat]
PolicyReply == [tag : STRING, policies : Seq(Policy)]

ASSUME DepthAssumption == MAX_RESOLUTION_DEPTH \in Nat /\ MEMBER_CAP \in Nat

ASSUME PoliciesAssumption ==
    \A d \in PolicyConfigs :
        IsAction(d.zone) /\ IsAction(d.global) /\ d.default \in {"deny-all", "permit-all"}

ASSUME ListsAssumption == PolicyLists \subseteq Seq(PolicyReply)

ASSUME QueriesAssumption ==
    \A q \in Queries :
        /\ q.tool = "policy_match" => q.device \in PolicyConfigs
        /\ q.tool = "list_policies" =>
              q.limit \in Nat /\ q.device \in Seq(PolicyReply)
        /\ q.tool \in {"resolve_address", "resolve_application"} =>
              q.name \in STRING /\ q.device.nodes \in Seq({"rpc_error", "not_configured", "config"})
        /\ q.tool = "resolve_address" =>
              LET config == q.device.config
              IN /\ IsList(config.top) /\ config.unnamed \in BOOLEAN
                 /\ \A i \in DOMAIN config.top :
                        IsAddressBook(config.top[i].book) /\ "none" \notin config.top[i].attach
                 /\ \A z \in DOMAIN config.zones : z # "none" /\ IsAddressBook(config.zones[z])
        /\ q.tool = "resolve_application" =>
              /\ IsList(q.device.containers) /\ IsBook(q.device.static)
              /\ \A i \in DOMAIN q.device.containers : IsBook(q.device.containers[i].book)

VARIABLES query, device, step, partial, answer, moved

queryVars == <<query, device, step, partial, answer, moved>>

NoAnswer == [tag |-> "none"]
Err(kind) == [tag |-> "error", kind |-> kind]
NotConfigured == [tag |-> "not_configured"]

\* The first node that answers, for the parsers that take one: "not_configured"
\* nodes are passed over, any other rpc-error ends the call.
FirstNode(nodes) ==
    LET Told == {i \in DOMAIN nodes : nodes[i] # "not_configured"}
    IN IF Told = {} THEN "not_configured"
       ELSE nodes[Min(Told)]

-----------------------------------------------------------------------------
(* srx_policy_match: the zone-pair tier, then the global tier, then the    *)
(* default policy. The device answers each RPC for its tier only.          *)

\* A reply's policy: its action and its zones, the pair asked for, "any", or an
\* element that is not there.
Matched(action, zones) == [action |-> action, zones |-> zones]
RpcError == Matched("rpc_error", "absent")

\* (external) what the device may say to the RPC of a tier: the policy, the
\* default, a global policy to the zone pair's RPC, or a reply without them.
TierReplies(d, tier) ==
    {Matched("absent", "absent")}
    \cup (IF d[tier] # "none" THEN {Matched(d[tier], z) : z \in {IF tier = "zone" THEN "pair" ELSE "any", "absent"}}
          ELSE {Matched(d.default, "absent")})
    \cup (IF tier = "zone" /\ d.zone = "none" /\ d.global # "none"
          THEN {Matched(d.global, z) : z \in {"any", "absent"}} ELSE {})

\* (external) the reply of an RPC: every node gives the tier's answer or an rpc-error.
NodeReplies(payload) == {<<payload>>, <<RpcError, payload>>, <<RpcError, RpcError>>}

\* parse_reply: the first node without an rpc-error; deny-all and permit-all are
\* the fallthrough; an action it does not know is an error, and so are a policy
\* without its action and, for a zone pair, without its zones.
parse_reply(nodes, global) ==
    LET Good == {i \in DOMAIN nodes : nodes[i] # RpcError}
        policy == nodes[Min(Good)]
    IN CASE Good = {} -> Err("rpc")
         [] Good # {} /\ policy.action = "absent" -> Err("schema")
         [] Good # {} /\ policy.action \in {"deny-all", "permit-all"} ->
                [tag |-> "active", verdict |-> "no_match", is_global |-> FALSE, default_action |-> policy.action]
         [] Good # {} /\ policy.action \in {"permit", "deny", "reject"} ->
                IF ~global /\ policy.zones = "absent" THEN Err("schema")
                ELSE [tag |-> "active", verdict |-> policy.action, default_action |-> "none",
                      is_global |-> global \/ policy.zones = "any"]
         [] OTHER -> Err("parse")

\* Mutant: the global policies are not consulted.
resolve_verdict_ZoneOnly(zone, global) == zone

\* resolve: the global reply decides when the zone pair fell through and it did not.
resolve_verdict(zone, global) ==
    IF zone.tag = "error" \/ zone.verdict # "no_match" THEN zone
    ELSE IF global.tag = "error" THEN global
    ELSE IF global.verdict # "no_match" THEN global ELSE zone

\* A 5-tuple with a bad zone, address, port or protocol is refused before any RPC;
\* so is a call of any tool without a router or a name.
parse_five_tuple(q) == q.valid

RefuseQuery ==
    /\ step = "start" /\ ~parse_five_tuple(query)
    /\ answer' = Err("invalid_input") /\ step' = "done"
    /\ UNCHANGED <<query, device, partial, moved>>

\* run, first RPC: match-firewall-policies.
MatchZonePolicies ==
    /\ query.tool = "policy_match" /\ step = "start" /\ parse_five_tuple(query)
    /\ \/ answer' = Err("transport") /\ step' = "done" /\ UNCHANGED partial
       \/ \E payload \in TierReplies(device, "zone") : \E nodes \in NodeReplies(payload) :
            LET zone == parse_reply(nodes, FALSE)
            IN IF zone.tag = "active" /\ zone.verdict = "no_match"
               THEN partial' = zone /\ step' = "global" /\ UNCHANGED answer
               ELSE answer' = zone /\ step' = "done" /\ UNCHANGED partial
    /\ UNCHANGED <<query, device, moved>>

\* run, second RPC: match-global-policies, and the combination.
MatchGlobalPolicies ==
    /\ query.tool = "policy_match" /\ step = "global"
    /\ \/ answer' = Err("transport")
       \/ \E payload \in TierReplies(device, "global") : \E nodes \in NodeReplies(payload) :
            answer' = resolve_verdict(partial, parse_reply(nodes, TRUE))
    /\ step' = "done"
    /\ UNCHANGED <<query, device, partial, moved>>

\* (external) another operator's commit between two RPCs.
CommitPolicies ==
    /\ query.tool = "policy_match" /\ step # "done" /\ ~moved
    /\ device' \in PolicyConfigs \ {device}
    /\ moved' = TRUE
    /\ UNCHANGED <<query, step, partial, answer>>

-----------------------------------------------------------------------------
(* srx_list_policies, called page after page. The device's policies are,   *)
(* per node, [tag, policies], a policy being [key, known, hits]: key is    *)
(* the zone pair and the name, known FALSE a policy with a child the       *)
(* parser does not know.                                                   *)

\* The policies of the nodes that answered, one node after the other.
OfEveryNode(nodes) ==
    LET upTo[i \in 0..Len(nodes)] ==
            IF i = 0 THEN <<>>
            ELSE upTo[i - 1] \o (IF nodes[i].tag = "ok" THEN nodes[i].policies ELSE <<>>)
    IN upTo[Len(nodes)]

\* One policy per key across nodes, first seen first.
AddUnseen(all, p) == IF \E i \in DOMAIN all : all[i].key = p.key THEN all ELSE Append(all, p)
Deduplicated(listed) ==
    LET upTo[i \in 0..Len(listed)] ==
            IF i = 0 THEN <<>> ELSE AddUnseen(upTo[i - 1], listed[i])
    IN upTo[Len(listed)]

\* parse_hit_counts: by zone pair and name, a later node's count over an earlier's;
\* a policy without a count has none, not zero.
HitCount(hits, key) ==
    LET Counted == {i \in DOMAIN hits : hits[i].key = key}
    IN IF Counted = {} THEN {} ELSE {hits[Max(Counted)].hits}

\* parse_policy_information: a policy with a child, a state or an action the
\* parser does not know, or without its name, is refused.
parse_policy_information(p) == IF p.known THEN [tag |-> "ok"] ELSE Err("parse")

\* offset and limit as indices into the list, and whether more is left.
Page(total, offset, limit) ==
    LET start == IF offset < total THEN offset ELSE total
        end == IF start + limit < total THEN start + limit ELSE total
    IN [start |-> start, end |-> end, truncated |-> end < total]

\* parse: any node's rpc-error, and any refused policy, refuses the whole list.
ParsePolicies(nodes, hits, offset, limit) ==
    IF \E i \in DOMAIN nodes : nodes[i].tag = "rpc_error" THEN Err("rpc")
    ELSE IF \E p \in ToSet(OfEveryNode(nodes)) : parse_policy_information(p).tag = "error" THEN Err("parse")
    ELSE LET all == Deduplicated(OfEveryNode(nodes))
             page == Page(Len(all), offset, limit)
         IN [tag |-> "active", truncated |-> page.truncated, total_count |-> Len(all),
             policies |-> [i \in 1..(page.end - page.start) |->
                [key |-> all[page.start + i].key, hits |-> HitCount(hits, all[page.start + i].key)]]]

\* One call: the policy RPC, then the hit counts, whose failure costs only the counts.
ListPolicies ==
    /\ query.tool = "list_policies" /\ step = "start"
    /\ \E hits \in {<<>>, OfEveryNode(device)} :
        LET reply == ParsePolicies(device, hits, Len(partial), query.limit)
        IN /\ answer' = reply
           /\ IF reply.tag = "active"
              THEN /\ partial' = partial \o reply.policies
                   /\ step' = IF reply.truncated THEN "start" ELSE "done"
              ELSE step' = "done" /\ UNCHANGED partial
    /\ UNCHANGED <<query, device, moved>>

\* (external) another operator's commit between two pages.
CommitBetweenPages ==
    /\ query.tool = "list_policies" /\ step = "start" /\ partial # <<>> /\ ~moved
    /\ device' \in PolicyLists \ {device}
    /\ moved' = TRUE
    /\ UNCHANGED <<query, step, partial, answer>>

-----------------------------------------------------------------------------
(* Names and sets of names: a book maps a name to a leaf or to a set.      *)

\* What the walk has so far, its first error and the leaves it met, and a visit:
\* the name, the sets it is on its way through and what was walked before.
WalkError == {"none", "depth", "cycle", "name_not_found"}
Walked == [err : WalkError, out : Seq(STRING)]
Visit == [name : STRING, path : SUBSET STRING, acc : Walked]

\* A set's members in their order, each visited by `below`.
VisitMembers(members, below, v) ==
    LET upTo[k \in 0..Len(members)] ==
            IF k = 0 THEN v.acc
            ELSE below[[name |-> members[k], path |-> v.path \cup {v.name}, acc |-> upTo[k - 1]]]
    IN upTo[Len(members)]

\* One visit, `left` levels before the nesting is refused: the depth first, then
\* the cycle, then the name; a leaf is taken once. Nothing is visited after an error.
VisitOne(nodes, left, below, v) ==
    CASE v.acc.err # "none" -> v.acc
      [] v.acc.err = "none" /\ left = 0 -> [v.acc EXCEPT !.err = "depth"]
      [] v.acc.err = "none" /\ left # 0 /\ v.name \in v.path -> [v.acc EXCEPT !.err = "cycle"]
      [] OTHER ->
           IF v.name \notin DOMAIN nodes THEN [v.acc EXCEPT !.err = "name_not_found"]
           ELSE IF nodes[v.name].kind = "leaf"
                THEN [v.acc EXCEPT !.out = IF v.name \in ToSet(@) THEN @ ELSE Append(@, v.name)]
                ELSE VisitMembers(nodes[v.name].members, below, v)

\* The depth-first walk, by the number of levels left.
walk(nodes) ==
    LET visit[left \in 0..(MAX_RESOLUTION_DEPTH + 1)] ==
            [v \in Visit |-> VisitOne(nodes, left, IF left = 0 THEN <<>> ELSE visit[left - 1], v)]
    IN visit

\* resolve: the leaves of `root`, cut to the cap after the whole walk.
resolve(nodes, root) ==
    LET w == walk(nodes)[MAX_RESOLUTION_DEPTH + 1]
                [[name |-> root, path |-> {}, acc |-> [err |-> "none", out |-> <<>>]]]
        truncated == Len(w.out) > MEMBER_CAP
    IN [err |-> w.err, truncated |-> truncated,
        out |-> IF truncated THEN SubSeq(w.out, 1, MEMBER_CAP) ELSE w.out]

\* One book of several: a later definition of a name replaces an earlier one.
Merged(books) ==
    LET Defining(n) == {i \in DOMAIN books : n \in DOMAIN books[i]}
    IN [n \in UNION {DOMAIN books[i] : i \in DOMAIN books} |-> books[Max(Defining(n))][n]]

\* parse_address_book: every entry of a book is parsed, whatever is looked up.
parse_address_book(book) == IF Unreadable \in {book[n] : n \in DOMAIN book} THEN Err("parse") ELSE [tag |-> "ok"]

\* One entry of one book, or a security zone without its name, fails every lookup.
BooksAreUnreadable(config) ==
    \/ config.unnamed
    \/ \E i \in DOMAIN config.top : parse_address_book(config.top[i].book).tag = "error"
    \/ \E z \in DOMAIN config.zones : parse_address_book(config.zones[z]).tag = "error"

\* parse_address_books: the books of a configuration by scope. A top-level book
\* is [name, book, attach], attach being the zones it names; the last book to
\* name a zone is the one attached to it.
parse_address_books(config) ==
    LET top == config.top
        Common == {i \in DOMAIN top : top[i].name \in {"none", "global"}}
        Named == DOMAIN top \ Common
    IN [global |-> Merged([i \in Common |-> top[i].book]),
        inline |-> config.zones,
        named |-> Merged([i \in Named |-> [n \in {top[i].name} |-> top[i].book]]),
        attach |-> Merged([i \in Named |-> [z \in top[i].attach |-> top[i].name]])]

\* AddressBooks.resolve_zone: the zone's inline book, else the book attached to
\* it, else a global book that is not empty.
resolve_zone(books, zone) ==
    IF zone \in DOMAIN books.inline THEN books.inline[zone]
    ELSE IF zone \in DOMAIN books.attach /\ books.attach[zone] \in DOMAIN books.named
         THEN books.named[books.attach[zone]]
    ELSE books.global

\* The book a name is resolved in: a name the zone's book lacks is looked up in
\* the global one.
BookFor(books, zone, name) ==
    IF zone = "none" THEN books.global
    ELSE LET book == resolve_zone(books, zone)
         IN IF name \notin DOMAIN book /\ name \in DOMAIN books.global THEN books.global ELSE book

\* parse of srx_resolve_address.
ParseAddress(nodes, config, zone, name) ==
    LET first == FirstNode(nodes)
        books == parse_address_books(config)
        book == BookFor(books, zone, name)
        found == resolve(book, name)
        noBook == IF zone = "none" THEN DOMAIN books.global = {}
                  ELSE /\ zone \notin DOMAIN books.inline
                       /\ zone \in DOMAIN books.attach => books.attach[zone] \notin DOMAIN books.named
                       /\ DOMAIN books.global = {}
    IN CASE first = "not_configured" -> NotConfigured
         [] first = "rpc_error" -> Err("rpc")
         [] first = "config" /\ BooksAreUnreadable(config) -> Err("parse")
         [] first = "config" /\ ~BooksAreUnreadable(config) /\ noBook -> NotConfigured
         [] OTHER -> IF found.err # "none" THEN Err(found.err)
                     ELSE [tag |-> "active", members |-> found.out, truncated |-> found.truncated]

ResolveAddress ==
    /\ query.tool = "resolve_address" /\ step = "start"
    /\ answer' = ParseAddress(device.nodes, device.config, query.zone, query.name)
    /\ step' = "done"
    /\ UNCHANGED <<query, device, partial, moved>>

\* collect_applications: every <applications> of the document in order, then
\* those of the junos-defaults group once more; the compiled-in table is under
\* all of them.
collect_applications(containers, static_junos_defaults) ==
    LET Defaults == {i \in DOMAIN containers : containers[i].group = "junos-defaults"}
    IN Merged(<<static_junos_defaults,
                Merged([i \in DOMAIN containers |-> containers[i].book]),
                Merged([i \in Defaults |-> containers[i].book])>>)

\* Mutant: every definition is parsed, reached or not.
ParseReached_Eager(map, leaves, unknown) ==
    IF unknown \cap DOMAIN map # {} THEN Err("parse")
    ELSE [tag |-> "active", members |-> leaves.out, truncated |-> leaves.truncated]

\* parse_application_node: an application with a child the parser does not know
\* is refused. Only the ones the walk returned are parsed.
ParseReached(map, leaves, unknown) ==
    IF unknown \cap ToSet(leaves.out) # {} THEN Err("parse")
    ELSE [tag |-> "active", members |-> leaves.out, truncated |-> leaves.truncated]

\* parse of srx_resolve_application.
ParseApplication(nodes, d, name) ==
    LET first == FirstNode(nodes)
        map == collect_applications(d.containers, d.static)
        found == resolve(map, name)
    IN CASE first = "not_configured" -> NotConfigured
         [] first = "rpc_error" -> Err("rpc")
         [] OTHER -> IF found.err # "none" THEN Err(found.err)
                     ELSE ParseReached(map, found, d.unknown)

ResolveApplication ==
    /\ query.tool = "resolve_application" /\ step = "start"
    /\ answer' = ParseApplication(device.nodes, device, query.name)
    /\ step' = "done"
    /\ UNCHANGED <<query, device, partial, moved>>

-----------------------------------------------------------------------------
(* validate_chassis_cluster_health: sequential captures, seven checks. A   *)
(* capture is "ok", "error" (the RPC failed) or "garbled" (its reply does  *)
(* not parse). `ill` is what is wrong with the cluster.                    *)

FailIll == {"red_led", "disabled", "fabric_down", "link_transition", "major_alarm", "train_skew"}
WarnIll == {"minor_alarm", "reboot", "maintenance_skew"}

\* The findings of one check over one capture.
CheckOver(got, ills, ill) ==
    CASE got = "error" -> {"warn"}
      [] got = "garbled" -> {}
      [] got = "ok" -> {IF i \in FailIll THEN "fail" ELSE "warn" : i \in ills \cap ill}

check_red_led(info, ill) == CheckOver(info, {"red_led"}, ill)

check_disabled_secondary(status, ill) == CheckOver(status, {"disabled"}, ill)

\* A fabric child down (interfaces) or a past link failure (information): the
\* data gap is noted only when both captures failed.
check_control_link_failure(interfaces, info, ill) ==
    IF interfaces = "error" /\ info = "error" THEN {"warn"}
    ELSE (IF interfaces = "ok" /\ "fabric_down" \in ill THEN {"fail"} ELSE {})
         \cup (IF info = "ok" /\ "link_transition" \in ill THEN {"fail"} ELSE {})

\* Major and minor alarms share one capture; one warning notes its loss.
iter_alarms(alarms, ill) == CheckOver(alarms, {"major_alarm", "minor_alarm"}, ill)

check_recent_reboot(uptime, ill) == CheckOver(uptime, {"reboot"}, ill)

\* Another train fails, another maintenance release warns.
check_version_skew(software, ill) == CheckOver(software, {"train_skew", "maintenance_skew"}, ill)

\* fail over warn over pass.
roll_up(findings) ==
    IF "fail" \in findings THEN "fail" ELSE IF "warn" \in findings THEN "warn" ELSE "pass"

\* run: a status reply that does not parse is the one capture that ends the call.
ClusterHealth ==
    /\ query.tool = "cluster_health" /\ step = "start"
    /\ LET got == device.got
           ill == device.ill
           findings == check_red_led(got.info, ill)
               \cup check_disabled_secondary(got.status, ill)
               \cup check_control_link_failure(got.interfaces, got.info, ill)
               \cup iter_alarms(got.alarms, ill)
               \cup check_recent_reboot(got.uptime, ill)
               \cup check_version_skew(got.software, ill)
       IN answer' = CASE got.status = "garbled" -> Err("parse")
                      [] got.status = "standalone" -> NotConfigured
                      [] OTHER -> [tag |-> "active", verdict |-> roll_up(findings)]
    /\ step' = "done"
    /\ UNCHANGED <<query, device, partial, moved>>

-----------------------------------------------------------------------------

QueryInit ==
    /\ query \in Queries
    /\ device = query.device
    /\ step = "start"
    /\ partial = <<>>
    /\ answer = NoAnswer
    /\ moved = FALSE

QueryNext ==
    \/ RefuseQuery
    \/ MatchZonePolicies
    \/ MatchGlobalPolicies
    \/ CommitPolicies
    \/ ListPolicies
    \/ CommitBetweenPages
    \/ ResolveAddress
    \/ ResolveApplication
    \/ ClusterHealth

-----------------------------------------------------------------------------
(* Properties.                                                             *)

\* What Junos does with the traffic: the first tier with a matching policy.
Evaluate(d) ==
    IF d.zone # "none" THEN [verdict |-> d.zone, is_global |-> FALSE]
    ELSE IF d.global # "none" THEN [verdict |-> d.global, is_global |-> TRUE]
    ELSE [verdict |-> "no_match", is_global |-> FALSE]

\* srx_policy_match answers with the verdict of the device's three tiers, with
\* the default's direction when none matches, whichever node replied; a failed
\* global query is an error and never the zone pair's default. Holds for a call
\* no commit ran into.
VerdictIsTheDevices ==
    (query.tool = "policy_match" /\ answer.tag = "active" /\ ~moved) =>
        /\ answer.verdict = Evaluate(device).verdict
        /\ answer.is_global = Evaluate(device).is_global
        /\ answer.default_action = IF answer.verdict = "no_match" THEN device.default ELSE "none"

\* Pages taken one after another until one is not truncated give every policy
\* of every node exactly once, each with its own zone pair's count or none, when
\* no commit came between two of them.
PagesTile ==
    (query.tool = "list_policies" /\ step = "done" /\ answer.tag = "active" /\ ~moved) =>
        LET Listed == UNION {ToSet(device[i].policies) : i \in {j \in DOMAIN device : device[j].tag = "ok"}}
            Keys == {p.key : p \in Listed}
            Counts(k) == {{}} \cup {{p.hits} : p \in {q \in Listed : q.key = k}}
        IN /\ {partial[i].key : i \in DOMAIN partial} = Keys
           /\ Len(partial) = Cardinality(Keys)
           /\ answer.total_count = Cardinality(Keys)
           /\ \A i \in DOMAIN partial : partial[i].hits \in Counts(partial[i].key)

\* The book a lookup sees: the zone's own, the one last attached to it, the
\* global one, the first of them that defines the name.
View ==
    IF query.tool = "resolve_address"
    THEN LET top == device.config.top
             Named == {i \in DOMAIN top : top[i].name \notin {"none", "global"}}
             Attached == {i \in Named : query.zone \in top[i].attach}
             Same == {i \in Named : top[i].name = top[Max(Attached)].name}
             own == IF query.zone \in DOMAIN device.config.zones THEN device.config.zones[query.zone]
                    ELSE IF Attached = {} THEN [n \in {} |-> Leaf]
                    ELSE top[Max(Same)].book
         IN IF query.name \in DOMAIN own THEN own
            ELSE parse_address_books(device.config).global
    ELSE collect_applications(device.containers, device.static)

\* The names a lookup depends on: the least set closed under membership.
Reached(nodes, root) ==
    LET All == {root} \cup DOMAIN nodes \cup UNION {ToSet(nodes[n].members) : n \in DOMAIN nodes}
        Closed == {S \in SUBSET All : root \in S /\ \A n \in S \cap DOMAIN nodes : ToSet(nodes[n].members) \subseteq S}
    IN {n \in All : \A S \in Closed : n \in S}

\* A chain of memberships from `root`, of the given length.
HasChain(nodes, root, length) ==
    \E chain \in [1..length -> Reached(nodes, root)] :
        /\ chain[1] = root
        /\ \A i \in 1..(length - 1) : chain[i] \in DOMAIN nodes /\ chain[i + 1] \in ToSet(nodes[chain[i]].members)

\* The entries no lookup of an address gets past, in any book of the document.
UnreadableIn(book) == {n \in DOMAIN book : book[n] = Unreadable}
AddressBooksOf(config) ==
    {config.top[i].book : i \in DOMAIN config.top} \cup {config.zones[z] : z \in DOMAIN config.zones}
UnreadableEntries(config) ==
    {n \in {"security-zone"} : config.unnamed} \cup UNION {UnreadableIn(book) : book \in AddressBooksOf(config)}

\* A lookup answers with exactly the leaves its name stands for, each once, or
\* the cap's worth of them and `truncated`; it refuses exactly when a name it
\* depends on is undefined, in a cycle or nested too deep, when an application
\* it depends on is of a form the parser does not know, and when any address of
\* any book, depended on or not, does not parse (parse_address_book reads them
\* all; parse_application_node only the ones reached); a name of the global book
\* is found from every zone.
ResolutionIsTheClosure ==
    (query.tool \in {"resolve_address", "resolve_application"} /\ step = "done"
        /\ answer.tag # "not_configured" /\ FirstNode(device.nodes) = "config") =>
        LET reached == Reached(View, query.name)
            leaves == {n \in reached \cap DOMAIN View : View[n].kind = "leaf"}
            cyclic == \E n \in reached \cap DOMAIN View :
                        \E m \in ToSet(View[n].members) : n \in Reached(View, m)
            deep == HasChain(View, query.name, MAX_RESOLUTION_DEPTH + 2)
            undefined == ~(reached \subseteq DOMAIN View)
            unknown == IF query.tool = "resolve_application" THEN device.unknown \cap leaves
                       ELSE UnreadableEntries(device.config)
        IN IF answer.tag = "active"
           THEN /\ ~cyclic /\ ~deep /\ ~undefined
                /\ unknown \cap ToSet(answer.members) = {}
                /\ query.tool = "resolve_address" => unknown = {}
                /\ ToSet(answer.members) \subseteq leaves
                /\ Len(answer.members) = Cardinality(ToSet(answer.members))
                /\ answer.truncated = (Cardinality(leaves) > MEMBER_CAP)
                /\ Cardinality(ToSet(answer.members)) =
                        IF answer.truncated THEN MEMBER_CAP ELSE Cardinality(leaves)
           ELSE /\ answer.kind = "cycle" => cyclic
                /\ answer.kind = "depth" => deep
                /\ answer.kind = "name_not_found" => undefined
                /\ answer.kind = "parse" => unknown # {}
                /\ answer.kind # "rpc"

\* "Pass: All checks passed": a pass is given only to a cluster with nothing wrong.
PassMeansHealthy ==
    (query.tool = "cluster_health" /\ answer.tag = "active") =>
        (answer.verdict = "pass" => device.ill = {})
=============================================================================
