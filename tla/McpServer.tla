----------------------------- MODULE McpServer -----------------------------
(***************************************************************************)
(* The MCP server around the tools: bearer authentication, the HTTP scope  *)
(* preflight, the tool router with the `execute` facade, the checks each    *)
(* handler makes before its body, the audit record of every call, and the   *)
(* redaction of every response.  The body of a handler is one step here;    *)
(* the modules of the workflows model it.                                  *)
(*                                                                         *)
(* A check is the reason it denies for, or Passed.  A handler is the        *)
(* sequence of its checks in the order the code makes them.                *)
(***************************************************************************)
EXTENDS Naturals, Sequences

CONSTANTS
    Clients,      \* connections, one request at a time each
    Devices,      \* router names a request may select
    Tokens,       \* bearer secrets clients hold
    Grants,       \* what a token may do: [all, tools, devices]; all is the wildcard tool scope
    Configs,      \* command lines: [auth, preflight, direct, readonly]
    MaxReloads    \* bound: SIGHUPs of a behaviour

ASSUME ReloadsAssumption == MaxReloads \in Nat

VARIABLES
    conf,     \* the command line of this behaviour; never changes
    file,     \* the tokens file on disk
    store,    \* the token store in memory: token -> grant, or Revoked
    reloads,  \* SIGHUPs so far
    slot,     \* one request per client
    reply     \* the last response, with the audit records of its call, until a request follows

serverVars == <<conf, file, store, reloads, slot, reply>>

Passed == "passed"
Revoked == [revoked |-> TRUE]
NoCtx == [stdio |-> TRUE]       \* stdio and --allow-no-auth carry no caller context

\* A caller context and its absence are different variants of an Option, and so are a
\* token's entry and the lack of one.
ASSUME GrantsAssumption == NoCtx \notin Grants /\ Revoked \notin Grants

JUNOS_TOOLS == {
    "add_device", "apply_junos_change_set", "approve_junos_change_set",
    "cancel_junos_change_set", "commit_check_config", "confirm_commit",
    "confirm_junos_change_set", "create_junos_change_set", "discard_candidate",
    "execute_junos_command", "execute_junos_command_batch", "execute_junos_pfe_command",
    "fetch_file", "gather_device_facts", "get_device_list",
    "get_junos_candidate_fingerprint", "get_junos_change_set_status", "get_junos_config",
    "get_router_list", "junos_config_diff", "list_junos_change_sets", "list_staged_files",
    "load_and_commit_config", "reload_devices", "render_and_apply_j2_template",
    "rollback_config", "transfer_file", "upgrade_junos"}
SRX_TOOLS == {
    "check_srx_feature_license", "collect_jtac_support_bundle", "get_chassis_cluster_status",
    "get_srx_security_services_status", "manage_appid_signature_package",
    "manage_idp_security_package", "srx_flow_sessions", "srx_list_nat_rules",
    "srx_list_policies", "srx_policy_match", "srx_resolve_address",
    "srx_resolve_application", "srxmcp_status", "validate_chassis_cluster_health",
    "vpn_lifecycle_report"}
KNOWN_TOOLS == JUNOS_TOOLS \cup SRX_TOOLS \cup {"execute"}
\* Mutant: the list misses tools added later.
WRITE_TOOLS_Stale == {
    "add_device", "apply_junos_change_set", "approve_junos_change_set",
    "confirm_junos_change_set", "create_junos_change_set", "discard_candidate", "execute",
    "load_and_commit_config", "manage_appid_signature_package",
    "manage_idp_security_package", "reload_devices", "render_and_apply_j2_template",
    "rollback_config", "transfer_file", "upgrade_junos"}

WRITE_TOOLS == {
    "add_device", "apply_junos_change_set", "approve_junos_change_set", "confirm_commit",
    "confirm_junos_change_set", "create_junos_change_set", "discard_candidate", "execute",
    "load_and_commit_config", "manage_appid_signature_package",
    "manage_idp_security_package", "reload_devices", "render_and_apply_j2_template",
    "rollback_config", "transfer_file", "upgrade_junos"}

\* What clients ask for.  `via` says whether the tool is named inside an `execute`
\* call; `act` is the commit / apply_config-and-not-dry_run / confirm argument; args
\* is the shape of the tool's arguments:
\*   "ok"         an object its handler can read
\*   "both"       device_name and device_names together
\*   "empty"      a list of devices with nothing in it
\*   "bad"        an object with a field missing or unknown
\*   "odd"        a device selector that is neither a string nor a list of them
\*   "null"       a device selector that is null, which an optional field reads as absent
\*   "absent"     no arguments
\*   "malformed"  arguments that are no object: null in a direct call (any other is no
\*                tools/call for the MCP library), anything inside the facade
NoObject == {"absent", "malformed"}
DeviceLists == {"execute_junos_command_batch", "render_and_apply_j2_template"}
ActTools == {"rollback_config", "render_and_apply_j2_template", "upgrade_junos"}
Unscoped == {"get_device_list", "get_router_list", "reload_devices", "srxmcp_status"}
Selections(tool) ==
    CASE tool = "render_and_apply_j2_template" -> SUBSET Devices
      [] tool = "execute_junos_command_batch" -> SUBSET Devices \ {{}}
      [] tool \in {"list_staged_files", "list_junos_change_sets"} -> {{}} \cup {{d} : d \in Devices}
      [] tool \in Unscoped -> {{}}
      [] OTHER -> {{d} : d \in Devices}
Requests ==
    {r \in [tool : (KNOWN_TOOLS \cup {"no such tool"}) \ {"execute"}, via : BOOLEAN,
            devs : SUBSET Devices, act : BOOLEAN,
            args : {"ok", "both", "empty", "bad", "odd", "null"} \cup NoObject] :
        /\ r.act => r.tool \in ActTools /\ r.args \in {"ok", "both", "empty"}
        /\ CASE r.args = "both" -> r.tool = "render_and_apply_j2_template" /\ r.devs = Devices
             [] r.args = "empty" -> r.tool \in DeviceLists /\ r.devs = {}
             [] r.args \in {"odd", "null"} -> r.tool \notin Unscoped /\ r.devs = {}
             [] r.args \in NoObject -> r.devs = {}
             [] OTHER -> r.devs \in Selections(r.tool)}

\* The handlers whose device selector is an Option, and those all of whose arguments are.
OptionalDevice == {"add_device", "list_staged_files", "list_junos_change_sets",
                   "render_and_apply_j2_template"}
NothingRequired == Unscoped \cup {"add_device", "list_staged_files", "list_junos_change_sets"}

\* Whether a handler's Parameters can be read from the arguments; a direct call whose
\* arguments are missing or null is given an empty object.
Deserialises(r) ==
    \/ r.args \in {"ok", "both", "empty"}
    \/ r.args = "null" /\ r.tool \in OptionalDevice
    \/ r.args \in NoObject /\ ~r.via /\ r.tool \in NothingRequired
-----------------------------------------------------------------------------
(* Scopes *)

allows_tool(ctx, tool) ==
    tool \in ctx.tools \/ (ctx.all /\ tool \notin WRITE_TOOLS)
allows_device(ctx, d) == d \in ctx.devices

check_tool_scope(ctx, tool) ==
    IF ctx = NoCtx \/ allows_tool(ctx, tool) THEN Passed ELSE "tool_scope"

\* classify_router_access only chooses what is logged: a name that is absent from the
\* inventory passes or fails by the scope alone.
check_router_scope(ctx, devs) ==
    IF ctx = NoCtx \/ \A d \in devs : allows_device(ctx, d) THEN Passed ELSE "router_scope"

direct_commit(committing) ==
    IF committing /\ ~conf.direct THEN "direct_commit" ELSE Passed
needs_caller(ctx) == IF ctx = NoCtx THEN "no_auth" ELSE Passed

\* SRX handlers: the missing caller context first, then the same two checks.
check_srx_tool_scope(ctx, tool) ==
    IF ctx # NoCtx /\ ~allows_tool(ctx, tool) THEN "tool_scope" ELSE Passed
check_srx_router_scope(ctx, devs) ==
    IF ctx # NoCtx /\ \E d \in devs : ~allows_device(ctx, d) THEN "router_scope" ELSE Passed
authorize_call(ctx, tool, devs) ==
    <<IF conf.auth /\ ctx = NoCtx THEN "missing_caller_context" ELSE Passed,
      check_srx_tool_scope(ctx, tool), check_srx_router_scope(ctx, devs)>>

\* The checks most Junos handlers make.
Scoped(ctx, tool, devs) == <<check_tool_scope(ctx, tool), check_router_scope(ctx, devs)>>
-----------------------------------------------------------------------------
(* Junos handlers: the checks before the body *)

get_device_list(ctx, r) == <<check_tool_scope(ctx, "get_device_list")>>
get_router_list(ctx, r) == <<check_tool_scope(ctx, "get_router_list")>>
gather_device_facts(ctx, r) == Scoped(ctx, "gather_device_facts", r.devs)
execute_junos_command(ctx, r) == Scoped(ctx, "execute_junos_command", r.devs)
get_junos_config(ctx, r) == Scoped(ctx, "get_junos_config", r.devs)
junos_config_diff(ctx, r) == Scoped(ctx, "junos_config_diff", r.devs)
load_and_commit_config(ctx, r) ==
    Scoped(ctx, "load_and_commit_config", r.devs) \o <<direct_commit(TRUE)>>
commit_check_config(ctx, r) == Scoped(ctx, "commit_check_config", r.devs)
discard_candidate(ctx, r) == Scoped(ctx, "discard_candidate", r.devs)
rollback_config(ctx, r) ==
    Scoped(ctx, "rollback_config", r.devs) \o <<direct_commit(r.act)>>
confirm_commit(ctx, r) ==
    Scoped(ctx, "confirm_commit", r.devs) \o <<direct_commit(TRUE)>>
execute_junos_pfe_command(ctx, r) == Scoped(ctx, "execute_junos_pfe_command", r.devs)
execute_junos_command_batch(ctx, r) == Scoped(ctx, "execute_junos_command_batch", r.devs)

\* Mutant: the commit gate is applied to the dry run.
render_and_apply_j2_template_Dry(ctx, r) ==
    Scoped(ctx, "render_and_apply_j2_template", IF r.args = "both" THEN {} ELSE r.devs)
        \o <<direct_commit(~r.act)>>

\* Both selectors at once resolve to no router: nothing is checked, and the body refuses.
render_and_apply_j2_template(ctx, r) ==
    Scoped(ctx, "render_and_apply_j2_template", IF r.args = "both" THEN {} ELSE r.devs)
        \o <<direct_commit(r.act)>>
add_device(ctx, r) == <<check_tool_scope(ctx, "add_device")>>
reload_devices(ctx, r) == <<check_tool_scope(ctx, "reload_devices")>>
transfer_file(ctx, r) == Scoped(ctx, "transfer_file", r.devs)
fetch_file(ctx, r) == Scoped(ctx, "fetch_file", r.devs)
upgrade_junos(ctx, r) == Scoped(ctx, "upgrade_junos", r.devs) \o <<direct_commit(r.act)>>
list_staged_files(ctx, r) == Scoped(ctx, "list_staged_files", r.devs)
create_junos_change_set(ctx, r) ==
    Scoped(ctx, "create_junos_change_set", r.devs) \o <<needs_caller(ctx)>>
approve_junos_change_set(ctx, r) ==
    Scoped(ctx, "approve_junos_change_set", r.devs) \o <<needs_caller(ctx)>>
cancel_junos_change_set(ctx, r) ==
    Scoped(ctx, "cancel_junos_change_set", r.devs) \o <<needs_caller(ctx)>>
apply_junos_change_set(ctx, r) ==
    Scoped(ctx, "apply_junos_change_set", r.devs) \o <<needs_caller(ctx)>>
confirm_junos_change_set(ctx, r) ==
    Scoped(ctx, "confirm_junos_change_set", r.devs) \o <<needs_caller(ctx)>>
get_junos_candidate_fingerprint(ctx, r) ==
    Scoped(ctx, "get_junos_candidate_fingerprint", r.devs)
get_junos_change_set_status(ctx, r) == Scoped(ctx, "get_junos_change_set_status", r.devs)
list_junos_change_sets(ctx, r) == <<check_tool_scope(ctx, "list_junos_change_sets")>>
-----------------------------------------------------------------------------
(* SRX handlers *)

srxmcp_status(ctx, r) == authorize_call(ctx, "srxmcp_status", {})
get_chassis_cluster_status(ctx, r) == authorize_call(ctx, "get_chassis_cluster_status", r.devs)
get_srx_security_services_status(ctx, r) ==
    authorize_call(ctx, "get_srx_security_services_status", r.devs)
check_srx_feature_license(ctx, r) == authorize_call(ctx, "check_srx_feature_license", r.devs)
vpn_lifecycle_report(ctx, r) == authorize_call(ctx, "vpn_lifecycle_report", r.devs)
srx_list_policies(ctx, r) == authorize_call(ctx, "srx_list_policies", r.devs)
srx_resolve_address(ctx, r) == authorize_call(ctx, "srx_resolve_address", r.devs)
srx_resolve_application(ctx, r) == authorize_call(ctx, "srx_resolve_application", r.devs)
srx_list_nat_rules(ctx, r) == authorize_call(ctx, "srx_list_nat_rules", r.devs)
manage_idp_security_package(ctx, r) ==
    authorize_call(ctx, "manage_idp_security_package", r.devs)
manage_appid_signature_package(ctx, r) ==
    authorize_call(ctx, "manage_appid_signature_package", r.devs)
validate_chassis_cluster_health(ctx, r) ==
    authorize_call(ctx, "validate_chassis_cluster_health", r.devs)
collect_jtac_support_bundle(ctx, r) ==
    authorize_call(ctx, "collect_jtac_support_bundle", r.devs)
srx_flow_sessions(ctx, r) == authorize_call(ctx, "srx_flow_sessions", r.devs)
srx_policy_match(ctx, r) == authorize_call(ctx, "srx_policy_match", r.devs)
-----------------------------------------------------------------------------
(* The tool router *)

Handler(ctx, r) ==
    CASE r.tool = "get_device_list" -> get_device_list(ctx, r)
      [] r.tool = "get_router_list" -> get_router_list(ctx, r)
      [] r.tool = "gather_device_facts" -> gather_device_facts(ctx, r)
      [] r.tool = "execute_junos_command" -> execute_junos_command(ctx, r)
      [] r.tool = "get_junos_config" -> get_junos_config(ctx, r)
      [] r.tool = "junos_config_diff" -> junos_config_diff(ctx, r)
      [] r.tool = "load_and_commit_config" -> load_and_commit_config(ctx, r)
      [] r.tool = "commit_check_config" -> commit_check_config(ctx, r)
      [] r.tool = "discard_candidate" -> discard_candidate(ctx, r)
      [] r.tool = "rollback_config" -> rollback_config(ctx, r)
      [] r.tool = "confirm_commit" -> confirm_commit(ctx, r)
      [] r.tool = "execute_junos_pfe_command" -> execute_junos_pfe_command(ctx, r)
      [] r.tool = "execute_junos_command_batch" -> execute_junos_command_batch(ctx, r)
      [] r.tool = "render_and_apply_j2_template" -> render_and_apply_j2_template(ctx, r)
      [] r.tool = "add_device" -> add_device(ctx, r)
      [] r.tool = "reload_devices" -> reload_devices(ctx, r)
      [] r.tool = "transfer_file" -> transfer_file(ctx, r)
      [] r.tool = "fetch_file" -> fetch_file(ctx, r)
      [] r.tool = "upgrade_junos" -> upgrade_junos(ctx, r)
      [] r.tool = "list_staged_files" -> list_staged_files(ctx, r)
      [] r.tool = "create_junos_change_set" -> create_junos_change_set(ctx, r)
      [] r.tool = "approve_junos_change_set" -> approve_junos_change_set(ctx, r)
      [] r.tool = "cancel_junos_change_set" -> cancel_junos_change_set(ctx, r)
      [] r.tool = "apply_junos_change_set" -> apply_junos_change_set(ctx, r)
      [] r.tool = "confirm_junos_change_set" -> confirm_junos_change_set(ctx, r)
      [] r.tool = "get_junos_candidate_fingerprint" -> get_junos_candidate_fingerprint(ctx, r)
      [] r.tool = "get_junos_change_set_status" -> get_junos_change_set_status(ctx, r)
      [] r.tool = "list_junos_change_sets" -> list_junos_change_sets(ctx, r)
      [] r.tool = "srxmcp_status" -> srxmcp_status(ctx, r)
      [] r.tool = "get_chassis_cluster_status" -> get_chassis_cluster_status(ctx, r)
      [] r.tool = "get_srx_security_services_status" -> get_srx_security_services_status(ctx, r)
      [] r.tool = "check_srx_feature_license" -> check_srx_feature_license(ctx, r)
      [] r.tool = "vpn_lifecycle_report" -> vpn_lifecycle_report(ctx, r)
      [] r.tool = "srx_list_policies" -> srx_list_policies(ctx, r)
      [] r.tool = "srx_resolve_address" -> srx_resolve_address(ctx, r)
      [] r.tool = "srx_resolve_application" -> srx_resolve_application(ctx, r)
      [] r.tool = "srx_list_nat_rules" -> srx_list_nat_rules(ctx, r)
      [] r.tool = "manage_idp_security_package" -> manage_idp_security_package(ctx, r)
      [] r.tool = "manage_appid_signature_package" -> manage_appid_signature_package(ctx, r)
      [] r.tool = "validate_chassis_cluster_health" -> validate_chassis_cluster_health(ctx, r)
      [] r.tool = "collect_jtac_support_bundle" -> collect_jtac_support_bundle(ctx, r)
      [] r.tool = "srx_flow_sessions" -> srx_flow_sessions(ctx, r)
      [] r.tool = "srx_policy_match" -> srx_policy_match(ctx, r)

\* The first check that denies, or Passed.
FirstDenial(checks) ==
    LET denied == {i \in DOMAIN checks : checks[i] # Passed}
    IN IF denied = {} THEN Passed
       ELSE checks[CHOOSE i \in denied : \A j \in denied : i <= j]

\* What becomes of a request once it is dispatched: it is worked on, a handler denies it
\* (and has written the record itself), or the router rejects it before any handler ran.
\* The facade checks its own scope, parses, matches the operation exactly and calls the
\* concrete route, whose handler checks the scopes again.
Rejected == "dispatch_rejected"
CallConcrete(ctx, r) == IF Deserialises(r) THEN FirstDenial(Handler(ctx, r)) ELSE Rejected
route(ctx, r) ==
    CASE check_tool_scope(ctx, "execute") # Passed -> "tool_scope"
      [] check_tool_scope(ctx, "execute") = Passed /\ r.args \in NoObject -> Rejected
      [] OTHER -> IF r.tool \in KNOWN_TOOLS THEN CallConcrete(ctx, r) ELSE "unknown_operation"
Outcome(ctx, r) ==
    IF r.via THEN route(ctx, r)
    ELSE IF r.tool \notin KNOWN_TOOLS THEN Rejected ELSE CallConcrete(ctx, r)

\* The tool an audit record names: the concrete operation of a well-formed facade call.
concrete_operation(r) == IF r.tool \in KNOWN_TOOLS THEN r.tool ELSE "execute"
static_tool_name(t) == IF t \in KNOWN_TOOLS THEN t ELSE "unknown_tool"
effective_tool_name(r) ==
    IF ~r.via THEN static_tool_name(r.tool)
    ELSE IF r.args \in NoObject THEN "execute" ELSE concrete_operation(r)

filter_tools_for_scope(ctx) ==
    {t \in KNOWN_TOOLS : ctx = NoCtx \/ allows_tool(ctx, t)}
-----------------------------------------------------------------------------
(* The HTTP preflight: reads the request before it is deserialised *)

\* Mutant: one router of a list in scope lets the whole list through.
device_value_in_scope_Any(ctx, r) ==
    /\ r.args \notin {"odd", "null", "empty"}
    /\ r.devs = {} \/ \E d \in r.devs : allows_device(ctx, d)

\* Every selector given: a string, or a list that is not empty, of routers in scope;
\* any other shape is refused.
device_value_in_scope(ctx, r) ==
    /\ r.args \notin {"odd", "null", "empty"}
    /\ \A d \in r.devs : allows_device(ctx, d)

\* Missing arguments are let through, malformed ones are not.
arguments_exceed_device_scope(ctx, r) ==
    IF r.args \in NoObject THEN r.args = "malformed" ELSE ~device_value_in_scope(ctx, r)

\* Inside the facade, malformed arguments are left to the handler: none selects a route.
facade_call_exceeds_scope(ctx, r) ==
    /\ r.tool \in KNOWN_TOOLS
    /\ \/ ~allows_tool(ctx, r.tool)
       \/ r.args \notin NoObject /\ arguments_exceed_device_scope(ctx, r)
tool_call_exceeds_scope(ctx, r) ==
    IF r.via
    THEN ~allows_tool(ctx, "execute") \/ facade_call_exceeds_scope(ctx, r)
    ELSE ~allows_tool(ctx, r.tool) \/ arguments_exceed_device_scope(ctx, r)

\* Mutant: the preflight does not look inside the facade.
request_exceeds_scope_Direct(ctx, r) ==
    conf.preflight /\ ~r.via /\ tool_call_exceeds_scope(ctx, r)

request_exceeds_scope(ctx, r) == conf.preflight /\ tool_call_exceeds_scope(ctx, r)
-----------------------------------------------------------------------------
(* Redaction.  A response is a set of fields [path, val]: the kinds of the keys  *)
(* from the root to a leaf, and whether the leaf is a secret.  An exempt key is   *)
(* one of sessions, session_id, ..._cookie, whose names match the denylist.       *)

Redacted == "[REDACTED]"
redact_json_value(path, val) ==
    IF val = "secret" \/ \E i \in DOMAIN path : path[i] # "plain" THEN Redacted ELSE val

\* Mutant: the original value is pasted back.
restore_exempt_fields_Verbatim(path, val) ==
    IF \E i \in DOMAIN path : path[i] = "exempt" /\ \A k \in 1..i-1 : path[k] = "plain"
    THEN val ELSE redact_json_value(path, val)

\* The value under an exempt key is redacted again under a neutral key, never pasted back.
restore_exempt_fields(path, val) ==
    LET n == Len(path)
        below[i \in 1..n+1] ==
          LET exempt == {j \in i..n : path[j] = "exempt" /\ \A k \in i..j-1 : path[k] = "plain"}
          IN IF exempt = {} THEN redact_json_value(SubSeq(path, i, n), val)
             ELSE below[1 + CHOOSE j \in exempt : TRUE]
    IN below[1]
redact_json_preserving_server_fields(fields) ==
    {[f EXCEPT !.val = restore_exempt_fields(f.path, f.val)] : f \in fields}

\* Unstructured text: the line pass takes the secrets and whatever follows a denylisted word.
redact_text(fields) ==
    {[f EXCEPT !.val = redact_json_value(f.path, f.val)] : f \in fields}
redact_body(form, fields) ==
    IF form = "json" THEN redact_json_preserving_server_fields(fields) ELSE redact_text(fields)

\* A minted token is lifted out of the plan before the structural pass and put back;
\* the message is tagged, so the last mile does not redact the token after all.
PlanToken == [path |-> <<"token">>, val |-> "minted"]
signature_error_to_rmcp(fields) ==
    redact_json_preserving_server_fields(fields \ {PlanToken}) \cup (fields \cap {PlanToken})
redact_last_mile(form, fields) ==
    IF form = "plan" THEN fields ELSE redact_body(form, fields)

\* What bodies carry: a flow table, a password inside it, a password, a plan with its token.
Bodies(tool, result) ==
    LET table == [path |-> <<"exempt", "plain">>, val |-> "plain"]
        nested == [path |-> <<"exempt", "deny">>, val |-> "plain"]
        secret == [path |-> <<"plain">>, val |-> "secret"]
    IN IF result = "failed" /\ tool \in {"manage_idp_security_package",
                                         "manage_appid_signature_package"}
       THEN {[form |-> "plan", fields |-> {PlanToken, secret}]}
       ELSE {[form |-> "json", fields |-> {table, nested, secret}],
             [form |-> "text", fields |-> {secret}]}
to_call_result(tool, b) ==
    CASE b.form = "plan" -> signature_error_to_rmcp(b.fields)
      [] b.form # "plan" /\ tool \in JUNOS_TOOLS -> redact_body(b.form, b.fields)
      [] OTHER -> b.fields
-----------------------------------------------------------------------------
(* Requests *)

Idle == [pc |-> "idle"]
NoReply == [kind |-> "none"]

Init ==
    /\ conf \in Configs
    /\ file \in [Tokens -> Grants]
    /\ store = file /\ reloads = 0
    /\ slot = [c \in Clients |-> Idle]
    /\ reply = NoReply

\* The response of a request that no handler and no router saw.
Refuse(c, status) ==
    /\ slot' = [slot EXCEPT ![c] = Idle]
    /\ reply' = [kind |-> "http", status |-> status]
    /\ UNCHANGED <<conf, file, store, reloads>>

\* The end of a dispatched call: its audit records, and the fields that leave the server.
Answer(c, records, fields) ==
    /\ slot' = [slot EXCEPT ![c] = Idle]
    /\ reply' = [kind |-> "call", tool |-> effective_tool_name(slot[c].req),
                 records |-> records, fields |-> fields]
    /\ UNCHANGED <<conf, file, store, reloads>>

Begin(c, pc, ctx, r) ==
    /\ slot' = [slot EXCEPT ![c] = [pc |-> pc, ctx |-> ctx, req |-> r]]
    /\ reply' = NoReply
    /\ UNCHANGED <<conf, file, store, reloads>>
Proceed(c, pc) ==
    /\ slot' = [slot EXCEPT ![c].pc = pc]
    /\ UNCHANGED <<conf, file, store, reloads, reply>>

\* A request arrives.  The authenticator reads one snapshot of the token store; the grant
\* travels with the request while its body is still being received.
authenticator(c, t, r) ==
    /\ slot[c].pc = "idle" /\ conf.auth
    /\ IF store[t] = Revoked
       THEN Refuse(c, 401)
       ELSE Begin(c, "body", store[t], r)
NoAuth(c, r) ==
    /\ slot[c].pc = "idle" /\ ~conf.auth
    /\ Begin(c, "dispatch", NoCtx, r)

\* The body is complete: too large, beyond the scope, or handed to the MCP service.
ReceiveBody(c) ==
    /\ slot[c].pc = "body"
    /\ \/ Refuse(c, 413)
       \/ IF request_exceeds_scope(slot[c].ctx, slot[c].req)
          THEN Refuse(c, 403)
          ELSE Proceed(c, "dispatch")

\* Mutant: a refused call through the facade is not recorded.
record_rejected_call_Facade(c) == IF slot[c].req.via THEN <<>> ELSE <<Rejected>>

\* Record a call the router refused before any handler ran.
record_rejected_call(c) == <<Rejected>>

\* Dispatch: the checks of the handler run before its first await.
call_tool(c) ==
    /\ slot[c].pc = "dispatch"
    /\ LET outcome == Outcome(slot[c].ctx, slot[c].req)
       IN IF outcome = Passed THEN Proceed(c, "work")
          ELSE Answer(c, IF outcome = Rejected THEN record_rejected_call(c) ELSE <<outcome>>, {})

\* The routers the body of a call works on or answers about.  The list of change sets has
\* the records of every router of the server's inventory, or of the one asked for, whoever
\* asks; a list of names has those of the caller's scope.
list_change_sets(r) == IF r.devs = {} THEN Devices ELSE r.devs
filter_device_names(ctx) == {d \in Devices : ctx = NoCtx \/ allows_device(ctx, d)}
Reach(ctx, r) ==
    CASE r.tool = "list_junos_change_sets" -> list_change_sets(r)
      [] r.tool \in {"get_device_list", "get_router_list"} -> filter_device_names(ctx)
      [] r.tool = "reload_devices" -> Devices
      [] r.args = "both" -> {}
      [] OTHER -> r.devs

\* The body ends.  A Junos tool turns its error into a result; an SRX tool returns it, and
\* the dispatcher takes a returned error for a call that no handler saw.
Settle(c, result) ==
    CASE result = "ok" -> <<"ok">>
      [] result # "ok" /\ slot[c].req.tool \in {"add_device", "reload_devices"} /\ conf.readonly ->
           <<"inventory_readonly">>
      [] result # "ok" /\ slot[c].req.tool \in SRX_TOOLS ->
           <<"failed">> \o record_rejected_call(c)
      [] OTHER -> <<"failed">>
Results(r) ==
    IF \/ r.args \in {"both", "empty"}
       \/ r.tool = "add_device" /\ r.args # "ok"
       \/ conf.readonly /\ r.tool \in {"add_device", "reload_devices"}
    THEN {"failed"}
    ELSE IF r.tool = "srxmcp_status" THEN {"ok"} ELSE {"ok", "failed"}
FinishTool(c) ==
    /\ slot[c].pc = "work"
    /\ \E result \in Results(slot[c].req) : \E b \in Bodies(slot[c].req.tool, result) :
         Answer(c, Settle(c, result),
                redact_last_mile(b.form, to_call_result(slot[c].req.tool, b)))

\* The client goes away: the future is dropped, and with it the handler's AuditScope.
Disconnect(c) ==
    /\ slot[c].pc = "work"
    /\ Answer(c, <<"unsettled">>, {})

list_tools(c, ctx) ==
    /\ slot[c].pc = "idle"
    /\ reply' = [kind |-> "list", ctx |-> ctx, tools |-> filter_tools_for_scope(ctx)]
    /\ UNCHANGED <<conf, file, store, reloads, slot>>
ListTools(c) ==
    IF conf.auth
    THEN \E t \in Tokens : store[t] # Revoked /\ list_tools(c, store[t])
    ELSE list_tools(c, NoCtx)

\* `token` subcommands and editors rewrite the file; SIGHUP reads it, or keeps the store
\* when it does not parse.
EditTokens(t) ==
    /\ reloads < MaxReloads
    /\ \E g \in Grants \cup {Revoked} : g # file[t] /\ file' = [file EXCEPT ![t] = g]
    /\ UNCHANGED <<conf, store, reloads, slot, reply>>
Sighup ==
    /\ reloads < MaxReloads /\ conf.auth
    /\ store' \in {store, file}
    /\ reloads' = reloads + 1
    /\ UNCHANGED <<conf, file, slot, reply>>

Next ==
    \/ \E c \in Clients :
         \/ \E r \in Requests : NoAuth(c, r) \/ \E t \in Tokens : authenticator(c, t, r)
         \/ ReceiveBody(c) \/ call_tool(c) \/ FinishTool(c) \/ Disconnect(c) \/ ListTools(c)
    \/ \E t \in Tokens : EditTokens(t)
    \/ Sighup

Spec == Init /\ [][Next]_serverVars
-----------------------------------------------------------------------------
(* Properties *)

Ctxs == Grants \cup {NoCtx}
Denials == {"tool_scope", "router_scope", "direct_commit", "no_auth", "missing_caller_context",
            "unknown_operation", "inventory_readonly", "ok", "failed", "unsettled", Rejected}

\* Types: requests carry a grant some token had, and a reply names a known tool and a
\* record the audit log knows.
TypeOK ==
    /\ conf \in Configs /\ reloads \in 0..MaxReloads
    /\ file \in [Tokens -> Grants \cup {Revoked}]
    /\ store \in [Tokens -> Grants \cup {Revoked}]
    /\ \A c \in Clients :
         \/ slot[c] = Idle
         \/ /\ slot[c].pc \in {"body", "dispatch", "work"}
            /\ slot[c].ctx \in Ctxs /\ slot[c].req \in Requests
            /\ slot[c].ctx = NoCtx <=> ~conf.auth
    /\ CASE reply.kind = "http" -> reply.status \in {401, 403, 413}
         [] reply.kind = "call" -> /\ reply.tool \in KNOWN_TOOLS \cup {"unknown_tool"}
                                   /\ \A i \in DOMAIN reply.records : reply.records[i] \in Denials
         [] reply.kind = "list" -> reply.tools \subseteq KNOWN_TOOLS
         [] OTHER -> reply = NoReply

\* Tools whose body changes a device, its packages or files, or the inventory.
Mutating ==
    {"add_device", "reload_devices", "apply_junos_change_set", "confirm_junos_change_set",
     "confirm_commit", "discard_candidate", "load_and_commit_config", "rollback_config",
     "render_and_apply_j2_template", "transfer_file", "upgrade_junos",
     "manage_appid_signature_package", "manage_idp_security_package"}
Working(c) == slot[c].pc = "work"

\* "A wildcard tool scope does NOT confer" write authority (rust-junosmcp-auth lib.rs): an
\* authenticated caller reaches the body of a mutating tool, directly or through the
\* facade, only when its grant names that tool.
WritesNeedANamedGrant ==
    \A c \in Clients :
        Working(c) /\ slot[c].ctx # NoCtx /\ slot[c].req.tool \in Mutating
            => slot[c].req.tool \in slot[c].ctx.tools

\* "Handler-level checks remain the final authority" (http_transport.rs): with or without the
\* preflight, a body reaches routers of its caller's scope only. Three tools are checked for
\* their tool scope alone and do reach others: add_device and reload_devices, which change the
\* inventory, and list_junos_change_sets, which filters by the server's inventory. The
\* preflight keeps what even these three may name inside the scope.
WorkStaysInScope ==
    \A c \in Clients :
        Working(c) /\ slot[c].ctx # NoCtx =>
            /\ slot[c].req.tool \in {"add_device", "reload_devices", "list_junos_change_sets"}
                 \/ Reach(slot[c].ctx, slot[c].req) \subseteq slot[c].ctx.devices
            /\ conf.preflight => slot[c].req.devs \subseteq slot[c].ctx.devices

\* "No out-of-scope device name is ever returned" (list_change_sets, changeset.rs).
ListingsStayInScope ==
    \A c \in Clients :
        Working(c) /\ slot[c].ctx # NoCtx /\ slot[c].req.tool = "list_junos_change_sets"
        => Reach(slot[c].ctx, slot[c].req) \subseteq slot[c].ctx.devices

\* Without --allow-direct-commit nothing commits but an approved change set, and change sets
\* need two authenticated principals: no transport and no route bypasses the gate.
NoUngatedCommit ==
    \A c \in Clients :
        Working(c) =>
            /\ slot[c].req.tool \in {"load_and_commit_config", "confirm_commit"}
                 \/ (slot[c].req.tool \in ActTools /\ slot[c].req.act)
               => conf.direct
            /\ slot[c].req.tool \in {"approve_junos_change_set", "apply_junos_change_set"}
               => slot[c].ctx # NoCtx

\* The refusals for a scope, and what the preflight may refuse and a handler take: a tool
\* that checks no router, and arguments whose shape the preflight does not vouch for.
ScopeDenials == {"tool_scope", "router_scope"}
FailsClosed(r) ==
    \/ r.tool \in {"add_device", "list_junos_change_sets"}
    \/ r.args \in {"both", "empty", "null", "malformed"}

\* The preflight reads the raw request and the handler its typed arguments, yet the first is
\* never weaker: what it lets through, directly or through the facade, no handler refuses for
\* a scope. It is stricter only where it means to be: what it refuses, the handler refuses
\* too or cannot read, except for the two tools with no router check and for arguments whose
\* shape it will not vouch for. And tools/list shows exactly the tools whose tool scope passes.
RoutesAgree ==
    /\ \A c \in Clients : slot[c].pc = "body" =>
         LET outcome == Outcome(slot[c].ctx, slot[c].req)
         IN IF tool_call_exceeds_scope(slot[c].ctx, slot[c].req)
            THEN outcome \in ScopeDenials \cup {Rejected} \/ FailsClosed(slot[c].req)
            ELSE outcome \notin ScopeDenials
    /\ reply.kind = "list" =>
         \A r \in Requests : r.tool \in KNOWN_TOOLS /\ r.args = "ok" /\ ~r.via =>
           (r.tool \in reply.tools <=> Outcome(reply.ctx, r) # "tool_scope")

\* Every dispatched call leaves an audit record, whichever way it ends: denied, rejected by the
\* router, failed, or abandoned by its client; a Junos call leaves exactly one.
JunosCallsLeaveOneRecord ==
    reply.kind = "call" =>
        /\ Len(reply.records) >= 1
        /\ reply.tool \notin SRX_TOOLS => Len(reply.records) = 1

\* "An accepted call must still produce exactly one record" (rejected_call_audit.rs).
EveryCallLeavesOneRecord == reply.kind = "call" => Len(reply.records) = 1

\* No secret leaves the server, not even inside a table whose key is exempt, while the rows of
\* the table and the minted confirmation token, which the caller must send back, survive.
ResponsesAreRedacted ==
    reply.kind = "call" =>
        \A f \in reply.fields :
            /\ f.val # "secret" /\ ("deny" \in {f.path[i] : i \in DOMAIN f.path} => f.val = Redacted)
            /\ f.path = <<"exempt", "plain">> => f.val = "plain"
            /\ f.path = <<"token">> => f.val = "minted"
=============================================================================
