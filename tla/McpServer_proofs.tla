-------------------------- MODULE McpServer_proofs --------------------------
(***************************************************************************)
(* Proofs about the MCP server, for any number of clients, tokens, routers *)
(* and grants and any command line: a body runs only after every check of  *)
(* its handler passed, and the three statements about authority follow.    *)
(***************************************************************************)
EXTENDS McpServer, TLAPS

-----------------------------------------------------------------------------
(* The checks of a handler *)

\* FirstDenial returns Passed exactly when every check passes, and otherwise the first check
\* that does not.  Handlers make one, two or three checks.
LEMMA FirstDenialIsFirst ==
  ASSUME NEW s, DOMAIN s \in {{1}, {1, 2}, {1, 2, 3}}
  PROVE  \/ /\ \A i \in DOMAIN s : s[i] = Passed
            /\ FirstDenial(s) = Passed
         \/ \E i \in DOMAIN s :
              /\ s[i] # Passed /\ FirstDenial(s) = s[i]
              /\ \A j \in DOMAIN s : j < i => s[j] = Passed
<1> DEFINE D == {i \in DOMAIN s : s[i] # Passed}
           m == CHOOSE i \in D : \A j \in D : i <= j
<1>1. CASE D = {}
  BY <1>1 DEF FirstDenial
<1>2. CASE D # {}
  <2>1. FirstDenial(s) = s[m]
    BY <1>2, Zenon DEF FirstDenial
  <2>2. \E i \in D : \A j \in D : i <= j
    BY <1>2
  <2>3. m \in D /\ \A j \in D : m <= j
    BY <2>2
  <2>4. \A j \in DOMAIN s : j < m => s[j] = Passed
    BY <2>3
  <2> QED
    BY <2>1, <2>3, <2>4
<1> QED
  BY <1>1, <1>2

ToolOnly == {"add_device", "get_device_list", "get_router_list", "list_junos_change_sets",
             "reload_devices"}
Committing == {"load_and_commit_config", "confirm_commit"} \cup ActTools
CallerNeeded == {"apply_junos_change_set", "approve_junos_change_set",
                 "cancel_junos_change_set", "confirm_junos_change_set",
                 "create_junos_change_set"}

\* The routers the checks of a handler see: none when both selectors are given.
Seen(r) ==
    IF r.tool = "render_and_apply_j2_template" /\ r.args = "both" THEN {} ELSE r.devs

\* A handler that checks nothing but its tool scope.
LEMMA ToolOnlyHandlers ==
  ASSUME NEW ctx, NEW r, r.tool \in ToolOnly
  PROVE  Handler(ctx, r) = <<check_tool_scope(ctx, r.tool)>>
BY DEF Handler, ToolOnly, add_device, reload_devices, get_device_list, get_router_list,
       list_junos_change_sets

\* The Junos handlers that check the tool and the routers, and nothing else.
LEMMA ScopedHandlers ==
  ASSUME NEW ctx, NEW r, r.tool \in JUNOS_TOOLS \ (ToolOnly \cup Committing \cup CallerNeeded)
  PROVE  Handler(ctx, r) = Scoped(ctx, r.tool, r.devs)
<1>1. r.tool \in {"commit_check_config", "discard_candidate", "execute_junos_command",
        "execute_junos_command_batch", "execute_junos_pfe_command", "fetch_file",
        "gather_device_facts", "get_junos_candidate_fingerprint",
        "get_junos_change_set_status", "get_junos_config", "junos_config_diff",
        "list_staged_files", "transfer_file"}
  BY DEF JUNOS_TOOLS, ToolOnly, Committing, CallerNeeded, ActTools
<1> QED
  BY <1>1
  DEF Handler, commit_check_config, discard_candidate, execute_junos_command,
      execute_junos_command_batch, execute_junos_pfe_command, fetch_file, gather_device_facts,
      get_junos_candidate_fingerprint, get_junos_change_set_status, get_junos_config,
      junos_config_diff, list_staged_files, transfer_file

\* The handlers that may commit ask for --allow-direct-commit after the scopes; rollback,
\* template and upgrade only when the call really commits.
LEMMA CommittingHandlers ==
  ASSUME NEW ctx, NEW r, r.tool \in Committing
  PROVE  Handler(ctx, r) = Scoped(ctx, r.tool, Seen(r))
             \o <<direct_commit(IF r.tool \in ActTools THEN r.act ELSE TRUE)>>
<1>1. CASE r.tool = "load_and_commit_config"
  BY <1>1 DEF Handler, load_and_commit_config, Seen, ActTools
<1>2. CASE r.tool = "confirm_commit"
  BY <1>2 DEF Handler, confirm_commit, Seen, ActTools
<1>3. CASE r.tool = "rollback_config"
  BY <1>3 DEF Handler, rollback_config, Seen, ActTools
<1>4. CASE r.tool = "upgrade_junos"
  BY <1>4 DEF Handler, upgrade_junos, Seen, ActTools
<1>5. CASE r.tool = "render_and_apply_j2_template"
  BY <1>5 DEF Handler, render_and_apply_j2_template, Seen, ActTools
<1> QED
  BY <1>1, <1>2, <1>3, <1>4, <1>5 DEF Committing, ActTools

\* The handlers of change sets need an authenticated caller.
LEMMA CallerNeededHandlers ==
  ASSUME NEW ctx, NEW r, r.tool \in CallerNeeded
  PROVE  Handler(ctx, r) = Scoped(ctx, r.tool, r.devs) \o <<needs_caller(ctx)>>
BY DEF Handler, CallerNeeded, apply_junos_change_set, approve_junos_change_set,
       cancel_junos_change_set, confirm_junos_change_set, create_junos_change_set

\* The SRX handlers all make the checks of authorize_call.
LEMMA SrxHandlers ==
  ASSUME NEW ctx, NEW r, r.tool \in SRX_TOOLS
  PROVE  Handler(ctx, r) =
           authorize_call(ctx, r.tool, IF r.tool = "srxmcp_status" THEN {} ELSE r.devs)
<1>1. CASE r.tool = "srxmcp_status"
  BY <1>1 DEF Handler, srxmcp_status
<1>2. CASE r.tool # "srxmcp_status"
  <2>1. Handler(ctx, r) = authorize_call(ctx, r.tool, r.devs)
    BY <1>2
    DEF Handler, SRX_TOOLS, get_chassis_cluster_status, get_srx_security_services_status,
        check_srx_feature_license, vpn_lifecycle_report, srx_list_policies,
        srx_resolve_address, srx_resolve_application, srx_list_nat_rules,
        manage_idp_security_package, manage_appid_signature_package,
        validate_chassis_cluster_health, collect_jtac_support_bundle, srx_flow_sessions,
        srx_policy_match
  <2> QED
    BY <1>2, <2>1
<1> QED
  BY <1>1, <1>2

\* What the checks of a Junos handler are, in their order.
LEMMA JunosChecks ==
  ASSUME NEW ctx, NEW r, r.tool \in JUNOS_TOOLS
  PROVE  LET s == Handler(ctx, r)
         IN /\ DOMAIN s \in {{1}, {1, 2}, {1, 2, 3}}
            /\ s[1] = check_tool_scope(ctx, r.tool)
            /\ r.tool \notin ToolOnly =>
                 2 \in DOMAIN s /\ s[2] = check_router_scope(ctx, Seen(r))
            /\ r.tool \in Committing =>
                 /\ 3 \in DOMAIN s
                 /\ s[3] = direct_commit(IF r.tool \in ActTools THEN r.act ELSE TRUE)
            /\ r.tool \in CallerNeeded => 3 \in DOMAIN s /\ s[3] = needs_caller(ctx)
<1>0. /\ ToolOnly \cap Committing = {} /\ ToolOnly \cap CallerNeeded = {}
      /\ Committing \cap CallerNeeded = {}
  BY DEF ToolOnly, Committing, CallerNeeded, ActTools
<1>1. CASE r.tool \in ToolOnly
  <2>1. Handler(ctx, r) = <<check_tool_scope(ctx, r.tool)>>
    BY <1>1, ToolOnlyHandlers
  <2>2. r.tool \notin Committing /\ r.tool \notin CallerNeeded
    BY <1>0, <1>1
  <2> QED
    BY <1>1, <2>1, <2>2
<1>2. r.tool \notin Committing => Seen(r) = r.devs
  BY DEF Seen, Committing, ActTools
<1>3. ASSUME NEW x, Handler(ctx, r) = Scoped(ctx, r.tool, Seen(r)) \o <<x>>
      PROVE  LET s == Handler(ctx, r)
             IN /\ DOMAIN s = {1, 2, 3} /\ s[1] = check_tool_scope(ctx, r.tool)
                /\ s[2] = check_router_scope(ctx, Seen(r)) /\ s[3] = x
  <2> DEFINE a == check_tool_scope(ctx, r.tool)
             b == check_router_scope(ctx, Seen(r))
  <2>1. Handler(ctx, r) = <<a, b>> \o <<x>>
    BY <1>3 DEF Scoped
  <2> HIDE DEF a, b
  <2>2. LET s == <<a, b>> \o <<x>>
        IN DOMAIN s = {1, 2, 3} /\ s[1] = a /\ s[2] = b /\ s[3] = x
    OBVIOUS
  <2> QED
    BY <2>1, <2>2 DEF a, b
<1>4. CASE r.tool \in Committing
  <2> DEFINE x == direct_commit(IF r.tool \in ActTools THEN r.act ELSE TRUE)
  <2>1. Handler(ctx, r) = Scoped(ctx, r.tool, Seen(r)) \o <<x>>
    BY <1>4, CommittingHandlers
  <2>2. r.tool \notin ToolOnly /\ r.tool \notin CallerNeeded
    BY <1>0, <1>4
  <2> HIDE DEF x
  <2>3. LET s == Handler(ctx, r)
        IN /\ DOMAIN s = {1, 2, 3} /\ s[1] = check_tool_scope(ctx, r.tool)
           /\ s[2] = check_router_scope(ctx, Seen(r)) /\ s[3] = x
    BY <2>1, <1>3
  <2> QED
    BY <1>4, <2>2, <2>3 DEF x
<1>5. CASE r.tool \in CallerNeeded
  <2>1. r.tool \notin ToolOnly /\ r.tool \notin Committing
    BY <1>0, <1>5
  <2>2. Handler(ctx, r) = Scoped(ctx, r.tool, Seen(r)) \o <<needs_caller(ctx)>>
    BY <1>2, <1>5, <2>1, CallerNeededHandlers
  <2>3. LET s == Handler(ctx, r)
        IN /\ DOMAIN s = {1, 2, 3} /\ s[1] = check_tool_scope(ctx, r.tool)
           /\ s[2] = check_router_scope(ctx, Seen(r)) /\ s[3] = needs_caller(ctx)
    BY <2>2, <1>3
  <2> QED
    BY <2>1, <2>3
<1>6. CASE r.tool \notin ToolOnly \cup Committing \cup CallerNeeded
  <2>1. Handler(ctx, r) = <<check_tool_scope(ctx, r.tool), check_router_scope(ctx, Seen(r))>>
    BY <1>2, <1>6, ScopedHandlers DEF Scoped
  <2> QED
    BY <1>6, <2>1
<1> QED
  BY <1>1, <1>4, <1>5, <1>6

\* A request of a tool that takes no router names none, whatever the shape of its arguments.
LEMMA UnscopedHasNoDevice ==
  ASSUME NEW r \in Requests, r.tool \in Unscoped
  PROVE  r.devs = {}
<1>1. r.tool # "render_and_apply_j2_template" /\ r.tool \notin DeviceLists
      /\ r.tool \notin {"list_staged_files", "list_junos_change_sets"}
  BY DEF Unscoped, DeviceLists
<1>2. Selections(r.tool) = {{}}
  BY <1>1 DEF Selections, Unscoped, DeviceLists
<1> QED
  BY <1>1, <1>2 DEF Requests

\* Arguments that are no object name no router.
LEMMA NoObjectHasNoDevice ==
  ASSUME NEW r \in Requests, r.args \in NoObject
  PROVE  r.devs = {}
BY DEF Requests, NoObject

\* What a request has to be before its body may run.
Cleared(ctx, r) ==
    /\ ctx # NoCtx => allows_tool(ctx, r.tool)
    /\ ctx # NoCtx /\ r.tool \notin ToolOnly => \A d \in Seen(r) : d \in ctx.devices
    /\ r.tool \in Committing /\ (r.tool \in ActTools => r.act) => conf.direct
    /\ r.tool \in CallerNeeded => ctx # NoCtx
    /\ r.tool \in KNOWN_TOOLS /\ (r.via => r.args \notin NoObject)

\* A dispatched request that every check lets through is cleared.
LEMMA PassedIsCleared ==
  ASSUME NEW ctx, NEW r \in Requests, Outcome(ctx, r) = Passed
  PROVE  Cleared(ctx, r)
<1>1. r.tool \in JUNOS_TOOLS \cup SRX_TOOLS
  <2>1. r.tool \in KNOWN_TOOLS
    BY DEF Outcome, route, Passed, Rejected
  <2> QED
    BY <2>1 DEF Requests, KNOWN_TOOLS
<1>2. FirstDenial(Handler(ctx, r)) = Passed
  BY DEF Outcome, route, CallConcrete, Passed, Rejected
<1>5. r.tool \in KNOWN_TOOLS /\ (r.via => r.args \notin NoObject)
  BY DEF Outcome, route, Passed, Rejected
<1>3. CASE r.tool \in JUNOS_TOOLS
  <2> DEFINE s == Handler(ctx, r)
  <2>0. DOMAIN s \in {{1}, {1, 2}, {1, 2, 3}}
    BY <1>3, JunosChecks
  <2>1. \A i \in DOMAIN s : s[i] = Passed
    BY <1>2, <2>0, FirstDenialIsFirst
  <2>2. check_tool_scope(ctx, r.tool) = Passed
    BY <1>3, <2>1, JunosChecks
  <2>3. r.tool \notin ToolOnly => check_router_scope(ctx, Seen(r)) = Passed
    BY <1>3, <2>1, JunosChecks
  <2>4. r.tool \in Committing =>
          direct_commit(IF r.tool \in ActTools THEN r.act ELSE TRUE) = Passed
    BY <1>3, <2>1, JunosChecks
  <2>5. r.tool \in CallerNeeded => needs_caller(ctx) = Passed
    BY <1>3, <2>1, JunosChecks
  <2> QED
    BY <1>5, <2>2, <2>3, <2>4, <2>5
    DEF Cleared, check_tool_scope, check_router_scope, direct_commit, needs_caller,
        allows_device, Passed
<1>4. CASE r.tool \in SRX_TOOLS
  <2> DEFINE ds == IF r.tool = "srxmcp_status" THEN {} ELSE r.devs
             s == authorize_call(ctx, r.tool, ds)
  <2>1. DOMAIN s = {1, 2, 3} /\ s[2] = check_srx_tool_scope(ctx, r.tool)
                             /\ s[3] = check_srx_router_scope(ctx, ds)
    BY DEF authorize_call
  <2>2. s[2] = Passed /\ s[3] = Passed
    BY <1>2, <1>4, <2>1, SrxHandlers, FirstDenialIsFirst
  <2>3. Seen(r) = ds
    <3>1. r.tool # "render_and_apply_j2_template"
      BY <1>4 DEF SRX_TOOLS
    <3>2. r.tool = "srxmcp_status" => r.devs = {}
      BY <3>1, UnscopedHasNoDevice DEF Unscoped
    <3> QED
      BY <3>1, <3>2 DEF Seen
  <2>4. r.tool \notin Committing \cup CallerNeeded
    BY <1>4 DEF SRX_TOOLS, Committing, CallerNeeded, ActTools
  <2> QED
    BY <1>5, <2>1, <2>2, <2>3, <2>4
    DEF Cleared, check_srx_tool_scope, check_srx_router_scope, allows_device, Passed
<1> QED
  BY <1>1, <1>3, <1>4
-----------------------------------------------------------------------------
(* Types *)

BusySlots == [pc : {"body", "dispatch", "work"}, ctx : Ctxs, req : Requests]

\* Every request in flight carries what it was admitted with, and the mode of the server says
\* whether that is a grant.
SlotsOK ==
    /\ slot \in [Clients -> {Idle} \cup BusySlots]
    /\ \A c \in Clients : slot[c] \in BusySlots => (slot[c].ctx = NoCtx <=> ~conf.auth)

\* The parts of TypeOK a step of a request does not touch.
StoreOK ==
    /\ conf \in Configs /\ reloads \in 0..MaxReloads
    /\ file \in [Tokens -> Grants \cup {Revoked}]
    /\ store \in [Tokens -> Grants \cup {Revoked}]

\* The part of TypeOK about the last response.
ReplyOK ==
    CASE reply.kind = "http" -> reply.status \in {401, 403, 413}
      [] reply.kind = "call" -> /\ reply.tool \in KNOWN_TOOLS \cup {"unknown_tool"}
                                /\ \A i \in DOMAIN reply.records : reply.records[i] \in Denials
      [] reply.kind = "list" -> reply.tools \subseteq KNOWN_TOOLS
      [] OTHER -> reply = NoReply

\* The conjunction of the three gives the type invariant.
LEMMA PartsGiveType == StoreOK /\ SlotsOK /\ ReplyOK => TypeOK
<1> SUFFICES ASSUME StoreOK, SlotsOK, ReplyOK PROVE TypeOK
  OBVIOUS
<1>1. ASSUME NEW c \in Clients
      PROVE  \/ slot[c] = Idle
             \/ /\ slot[c].pc \in {"body", "dispatch", "work"}
                /\ slot[c].ctx \in Ctxs /\ slot[c].req \in Requests
                /\ slot[c].ctx = NoCtx <=> ~conf.auth
  BY DEF SlotsOK, BusySlots
<1> QED
  BY <1>1 DEF TypeOK, StoreOK, ReplyOK

\* Idle slots are told from busy ones by their program counter.
LEMMA BusyByPc ==
  ASSUME SlotsOK, NEW c \in Clients
  PROVE  /\ slot[c].pc = "idle" <=> slot[c] = Idle
         /\ slot[c].pc # "idle" => slot[c] \in BusySlots
BY DEF SlotsOK, BusySlots, Idle

\* A slot is never both.
LEMMA IdleIsNotBusy == Idle \notin BusySlots
BY DEF Idle, BusySlots

\* What Outcome can be.
LEMMA OutcomeIsKnown ==
  ASSUME NEW ctx, NEW r \in Requests
  PROVE  Outcome(ctx, r) \in Denials \cup {Passed}
<1> DEFINE s == Handler(ctx, r)
           Known == {"tool_scope", "router_scope", "direct_commit", "no_auth",
                     "missing_caller_context", Passed}
<1>1. CASE r.tool \in JUNOS_TOOLS
  <2>1. \A i \in DOMAIN s : s[i] \in Known
    <3>1. CASE r.tool \in ToolOnly
      BY <3>1, ToolOnlyHandlers DEF check_tool_scope
    <3>2. CASE r.tool \notin ToolOnly
      <4>1. s[1] \in Known /\ s[2] \in Known
        BY <1>1, <3>2, JunosChecks DEF check_tool_scope, check_router_scope
      <4>2. r.tool \in Committing => s[3] \in Known
        BY <1>1, JunosChecks DEF direct_commit
      <4>3. r.tool \in CallerNeeded => s[3] \in Known
        BY <1>1, JunosChecks DEF needs_caller
      <4>4. r.tool \notin Committing \cup CallerNeeded => DOMAIN s = {1, 2}
        BY <1>1, <3>2, ScopedHandlers DEF Scoped
      <4>5. DOMAIN s \in {{1}, {1, 2}, {1, 2, 3}}
        BY <1>1, JunosChecks
      <4> HIDE DEF s, Known
      <4> QED
        BY <4>1, <4>2, <4>3, <4>4, <4>5
    <3> QED
      BY <3>1, <3>2
  <2>2. DOMAIN s \in {{1}, {1, 2}, {1, 2, 3}}
    BY <1>1, JunosChecks
  <2>3. FirstDenial(s) \in Known
    BY <2>1, <2>2, FirstDenialIsFirst
  <2> QED
    BY <1>1, <2>3
    DEF Outcome, route, CallConcrete, Denials, check_tool_scope, Rejected
<1>2. CASE r.tool \in SRX_TOOLS
  <2> DEFINE q == authorize_call(ctx, r.tool, IF r.tool = "srxmcp_status" THEN {} ELSE r.devs)
  <2>1. DOMAIN q = {1, 2, 3} /\ q[1] \in Known /\ q[2] \in Known /\ q[3] \in Known
    BY DEF authorize_call, check_srx_tool_scope, check_srx_router_scope
  <2>2. FirstDenial(q) \in Known
    BY <2>1, FirstDenialIsFirst
  <2>3. FirstDenial(s) \in Known
    BY <1>2, <2>2, SrxHandlers
  <2> QED
    BY <1>2, <2>3
    DEF Outcome, route, CallConcrete, Denials, check_tool_scope, Rejected
<1>3. CASE r.tool \notin KNOWN_TOOLS
  BY <1>3 DEF Outcome, route, Denials, check_tool_scope, Rejected
<1> QED
  BY <1>1, <1>2, <1>3 DEF Requests, KNOWN_TOOLS

\* The end of a call writes one reply of the right shape and frees the slot.
LEMMA AnswerTypes ==
  ASSUME StoreOK, SlotsOK, NEW c \in Clients, slot[c] \in BusySlots,
         NEW records, \A i \in DOMAIN records : records[i] \in Denials,
         NEW fields, Answer(c, records, fields)
  PROVE  StoreOK' /\ SlotsOK' /\ ReplyOK'
<1>1. StoreOK' /\ SlotsOK'
  BY IdleIsNotBusy DEF StoreOK, SlotsOK, Answer
<1>2. effective_tool_name(slot[c].req) \in KNOWN_TOOLS \cup {"unknown_tool"}
  BY DEF effective_tool_name, concrete_operation, static_tool_name, KNOWN_TOOLS
<1>3. /\ reply'.kind = "call" /\ reply'.tool = effective_tool_name(slot[c].req)
      /\ reply'.records = records
  BY DEF Answer
<1> QED
  BY <1>1, <1>2, <1>3 DEF ReplyOK

\* A refusal by the transport.
LEMMA RefuseTypes ==
  ASSUME StoreOK, SlotsOK, NEW c \in Clients, NEW status \in {401, 403, 413},
         Refuse(c, status)
  PROVE  StoreOK' /\ SlotsOK' /\ ReplyOK'
<1>1. StoreOK' /\ SlotsOK'
  BY IdleIsNotBusy DEF StoreOK, SlotsOK, Refuse
<1>2. reply'.kind = "http" /\ reply'.status = status
  BY DEF Refuse
<1> QED
  BY <1>1, <1>2 DEF ReplyOK

\* A request that begins carries a context that fits the server's mode.
LEMMA BeginTypes ==
  ASSUME StoreOK, SlotsOK, NEW c \in Clients, NEW p \in {"body", "dispatch"},
         NEW ctx \in Ctxs, ctx = NoCtx <=> ~conf.auth, NEW r \in Requests,
         Begin(c, p, ctx, r)
  PROVE  StoreOK' /\ SlotsOK' /\ ReplyOK'
<1>1. StoreOK' /\ SlotsOK'
  BY DEF StoreOK, SlotsOK, Begin, BusySlots
<1>2. reply' = NoReply /\ reply'.kind = "none"
  BY DEF Begin, NoReply
<1> QED
  BY <1>1, <1>2 DEF ReplyOK

\* A request that proceeds keeps its context and its arguments.
LEMMA ProceedTypes ==
  ASSUME StoreOK, SlotsOK, ReplyOK, NEW c \in Clients, NEW p \in {"dispatch", "work"},
         slot[c] \in BusySlots, Proceed(c, p)
  PROVE  StoreOK' /\ SlotsOK' /\ ReplyOK'
<1>1. StoreOK' /\ ReplyOK'
  BY DEF StoreOK, ReplyOK, Proceed
<1>2. slot' = [slot EXCEPT ![c] = [pc |-> p, ctx |-> slot[c].ctx, req |-> slot[c].req]]
  <2>1. [slot[c] EXCEPT !.pc = p] = [pc |-> p, ctx |-> slot[c].ctx, req |-> slot[c].req]
    BY DEF BusySlots
  <2>2. slot' = [slot EXCEPT ![c] = [slot[c] EXCEPT !.pc = p]]
    BY DEF Proceed, SlotsOK
  <2> QED
    BY <2>1, <2>2
<1>3. SlotsOK'
  BY <1>2 DEF SlotsOK, BusySlots, Proceed
<1> QED
  BY <1>1, <1>3

\* The records a finished body leaves.
LEMMA SettleRecords ==
  ASSUME NEW c \in Clients, NEW result
  PROVE  /\ \A i \in DOMAIN Settle(c, result) : Settle(c, result)[i] \in Denials
         /\ Len(Settle(c, result)) >= 1
         /\ slot[c].req.tool \notin SRX_TOOLS => Len(Settle(c, result)) = 1
<1>1. LET two == <<"failed">> \o <<Rejected>>
      IN Len(two) = 2 /\ DOMAIN two = {1, 2} /\ two[1] = "failed" /\ two[2] = Rejected
  OBVIOUS
<1>2. CASE Settle(c, result) = <<"failed">> \o <<Rejected>> /\ slot[c].req.tool \in SRX_TOOLS
  BY <1>1, <1>2 DEF Denials
<1>3. CASE \E x \in {"ok", "failed", "inventory_readonly"} : Settle(c, result) = <<x>>
  BY <1>3 DEF Denials
<1> QED
  BY <1>2, <1>3 DEF Settle, record_rejected_call

\* Every step keeps the types.
LEMMA StepTypes ==
  ASSUME StoreOK, SlotsOK, ReplyOK, [Next]_serverVars
  PROVE  StoreOK' /\ SlotsOK' /\ ReplyOK'
<1>1. ASSUME NEW c \in Clients, NEW r \in Requests, NoAuth(c, r)
      PROVE  StoreOK' /\ SlotsOK' /\ ReplyOK'
  BY <1>1, BeginTypes DEF NoAuth, Ctxs
<1>2. ASSUME NEW c \in Clients, NEW r \in Requests, NEW t \in Tokens, authenticator(c, t, r)
      PROVE  StoreOK' /\ SlotsOK' /\ ReplyOK'
  <2>1. CASE store[t] = Revoked
    BY <1>2, <2>1, RefuseTypes DEF authenticator
  <2>2. CASE store[t] # Revoked
    <3>1. store[t] \in Ctxs /\ store[t] # NoCtx /\ conf.auth
      BY <1>2, <2>2, GrantsAssumption DEF StoreOK, Ctxs, authenticator
    <3>2. Begin(c, "body", store[t], r)
      BY <1>2, <2>2 DEF authenticator
    <3> QED
      BY <3>1, <3>2, BeginTypes
  <2> QED
    BY <2>1, <2>2
<1>3. ASSUME NEW c \in Clients, ReceiveBody(c)
      PROVE  StoreOK' /\ SlotsOK' /\ ReplyOK'
  <2>1. slot[c] \in BusySlots
    BY <1>3, BusyByPc DEF ReceiveBody
  <2>2. Refuse(c, 413) \/ Refuse(c, 403) \/ Proceed(c, "dispatch")
    BY <1>3 DEF ReceiveBody
  <2> QED
    BY <2>1, <2>2, RefuseTypes, ProceedTypes
<1>4. ASSUME NEW c \in Clients, call_tool(c)
      PROVE  StoreOK' /\ SlotsOK' /\ ReplyOK'
  <2> DEFINE out == Outcome(slot[c].ctx, slot[c].req)
             records == IF out = Rejected THEN record_rejected_call(c) ELSE <<out>>
  <2>1. slot[c] \in BusySlots
    BY <1>4, BusyByPc DEF call_tool
  <2>2. CASE out = Passed
    BY <1>4, <2>1, <2>2, ProceedTypes DEF call_tool
  <2>3. CASE out # Passed
    <3>1. out \in Denials
      BY <2>1, <2>3, OutcomeIsKnown DEF BusySlots
    <3>2. \A i \in DOMAIN records : records[i] \in Denials
      BY <3>1 DEF record_rejected_call
    <3>3. Answer(c, records, {})
      BY <1>4, <2>3 DEF call_tool
    <3> HIDE DEF records
    <3> QED
      BY <2>1, <3>2, <3>3, AnswerTypes
  <2> QED
    BY <2>2, <2>3
<1>5. ASSUME NEW c \in Clients, FinishTool(c)
      PROVE  StoreOK' /\ SlotsOK' /\ ReplyOK'
  <2>1. slot[c] \in BusySlots
    BY <1>5, BusyByPc DEF FinishTool
  <2>2. \E result, fields : Answer(c, Settle(c, result), fields)
    BY <1>5 DEF FinishTool
  <2> QED
    BY <2>1, <2>2, SettleRecords, AnswerTypes
<1>6. ASSUME NEW c \in Clients, Disconnect(c)
      PROVE  StoreOK' /\ SlotsOK' /\ ReplyOK'
  <2>1. slot[c] \in BusySlots
    BY <1>6, BusyByPc DEF Disconnect
  <2>2. \A i \in DOMAIN <<"unsettled">> : <<"unsettled">>[i] \in Denials
    BY DEF Denials
  <2> QED
    BY <1>6, <2>1, <2>2, AnswerTypes DEF Disconnect
<1>7. ASSUME NEW c \in Clients, ListTools(c)
      PROVE  StoreOK' /\ SlotsOK' /\ ReplyOK'
  <2>1. PICK ctx : list_tools(c, ctx)
    BY <1>7 DEF ListTools
  <2>2. reply'.kind = "list" /\ reply'.tools \subseteq KNOWN_TOOLS
    BY <2>1 DEF list_tools, filter_tools_for_scope
  <2>3. StoreOK' /\ SlotsOK'
    BY <2>1 DEF list_tools, StoreOK, SlotsOK
  <2> QED
    BY <2>2, <2>3 DEF ReplyOK
<1>8. ASSUME NEW t \in Tokens, EditTokens(t)
      PROVE  StoreOK' /\ SlotsOK' /\ ReplyOK'
  BY <1>8 DEF EditTokens, StoreOK, SlotsOK, ReplyOK
<1>9. CASE Sighup
  BY <1>9, ReloadsAssumption DEF Sighup, StoreOK, SlotsOK, ReplyOK
<1>10. CASE UNCHANGED serverVars
  BY <1>10 DEF serverVars, StoreOK, SlotsOK, ReplyOK
<1> QED
  BY <1>1, <1>2, <1>3, <1>4, <1>5, <1>6, <1>7, <1>8, <1>9, <1>10 DEF Next

\* The initial states have the types.
LEMMA InitTypes == ASSUME Init PROVE StoreOK /\ SlotsOK /\ ReplyOK
<1>1. StoreOK
  BY ReloadsAssumption DEF Init, StoreOK
<1>2. SlotsOK
  BY IdleIsNotBusy DEF Init, SlotsOK
<1>3. ReplyOK
  <2>1. reply = NoReply /\ reply.kind = "none"
    BY DEF Init, NoReply
  <2> QED
    BY <2>1 DEF ReplyOK
<1> QED
  BY <1>1, <1>2, <1>3

\* Type correctness of the server (TypeOK): a request in flight carries a grant some token had,
\* exactly when the server authenticates, and a reply names tools and records that exist.
THEOREM TypeCorrect == Spec => []TypeOK
<1>1. Init => StoreOK /\ SlotsOK /\ ReplyOK
  BY InitTypes
<1>2. StoreOK /\ SlotsOK /\ ReplyOK /\ [Next]_serverVars => (StoreOK /\ SlotsOK /\ ReplyOK)'
  BY StepTypes
<1> QED
  BY <1>1, <1>2, PartsGiveType, PTL DEF Spec
-----------------------------------------------------------------------------
(* Authority *)

\* The checks of the handler held when the body of a request started.  They still hold: the
\* grant travels with the request, and the command line never changes.
WorkIsCleared ==
    \A c \in Clients : Working(c) => Cleared(slot[c].ctx, slot[c].req)

TypeInv == StoreOK /\ SlotsOK /\ ReplyOK

\* What a step does to one request: it ends, begins, passes the preflight or passes its checks,
\* and keeps its grant and its arguments.
LEMMA SlotSteps ==
  ASSUME TypeInv, [Next]_serverVars, NEW d \in Clients
  PROVE  /\ conf' = conf
         /\ \/ slot'[d] = slot[d]
            \/ slot'[d] = Idle
            \/ slot'[d].pc = "body" /\ slot'[d].ctx # NoCtx
            \/ slot'[d].pc = "dispatch" /\ slot'[d].ctx = NoCtx
            \/ /\ slot[d].pc = "body" /\ slot'[d].pc = "dispatch"
               /\ ~request_exceeds_scope(slot[d].ctx, slot[d].req)
               /\ slot'[d].ctx = slot[d].ctx /\ slot'[d].req = slot[d].req
            \/ /\ slot[d].pc = "dispatch" /\ slot'[d].pc = "work"
               /\ Outcome(slot[d].ctx, slot[d].req) = Passed
               /\ slot'[d].ctx = slot[d].ctx /\ slot'[d].req = slot[d].req
<1>0. conf' = conf
  BY DEF Next, NoAuth, authenticator, ReceiveBody, call_tool, FinishTool, Disconnect, ListTools,
         list_tools, EditTokens, Sighup, Begin, Refuse, Proceed, Answer, serverVars
<1>1. CASE slot' = slot
  BY <1>0, <1>1
<1>2. ASSUME NEW c \in Clients, slot' = [slot EXCEPT ![c] = Idle]
      PROVE  slot'[d] = slot[d] \/ slot'[d] = Idle
  BY <1>2 DEF TypeInv, SlotsOK
<1>3. ASSUME NEW c \in Clients, NEW p, Proceed(c, p), slot[c] \in BusySlots
      PROVE  \/ c # d /\ slot'[d] = slot[d]
             \/ /\ c = d /\ slot'[d].pc = p
                /\ slot'[d].ctx = slot[d].ctx /\ slot'[d].req = slot[d].req
  BY <1>3 DEF Proceed, TypeInv, SlotsOK, BusySlots
<1>4. ASSUME NEW c \in Clients, NEW p, NEW x, NEW r, Begin(c, p, x, r)
      PROVE  slot'[d] = slot[d] \/ (slot'[d].pc = p /\ slot'[d].ctx = x)
  BY <1>4 DEF Begin, TypeInv, SlotsOK
<1>5. ASSUME NEW c \in Clients, NEW r \in Requests, NEW t \in Tokens, authenticator(c, t, r)
      PROVE  \/ slot'[d] = slot[d] \/ slot'[d] = Idle
             \/ slot'[d].pc = "body" /\ slot'[d].ctx # NoCtx
  <2>1. CASE store[t] = Revoked
    BY <1>2, <1>5, <2>1 DEF authenticator, Refuse
  <2>2. CASE store[t] # Revoked
    <3>1. store[t] # NoCtx
      BY <2>2, GrantsAssumption DEF TypeInv, StoreOK
    <3>2. Begin(c, "body", store[t], r)
      BY <1>5, <2>2 DEF authenticator
    <3> QED
      BY <1>4, <3>1, <3>2
  <2> QED
    BY <2>1, <2>2
<1>6. ASSUME NEW c \in Clients, NEW r \in Requests, NoAuth(c, r)
      PROVE  slot'[d] = slot[d] \/ (slot'[d].pc = "dispatch" /\ slot'[d].ctx = NoCtx)
  BY <1>4, <1>6 DEF NoAuth
<1>7. ASSUME NEW c \in Clients, ReceiveBody(c)
      PROVE  \/ slot'[d] = slot[d] \/ slot'[d] = Idle
             \/ /\ slot[d].pc = "body" /\ slot'[d].pc = "dispatch"
                /\ ~request_exceeds_scope(slot[d].ctx, slot[d].req)
                /\ slot'[d].ctx = slot[d].ctx /\ slot'[d].req = slot[d].req
  <2>1. slot[c] \in BusySlots
    BY <1>7, BusyByPc DEF ReceiveBody, TypeInv
  <2>2. \/ slot' = [slot EXCEPT ![c] = Idle]
        \/ Proceed(c, "dispatch") /\ ~request_exceeds_scope(slot[c].ctx, slot[c].req)
    BY <1>7 DEF ReceiveBody, Refuse
  <2> QED
    BY <1>2, <1>3, <1>7, <2>1, <2>2 DEF ReceiveBody
<1>8. ASSUME NEW c \in Clients, call_tool(c)
      PROVE  \/ slot'[d] = slot[d] \/ slot'[d] = Idle
             \/ /\ slot[d].pc = "dispatch" /\ slot'[d].pc = "work"
                /\ Outcome(slot[d].ctx, slot[d].req) = Passed
                /\ slot'[d].ctx = slot[d].ctx /\ slot'[d].req = slot[d].req
  <2>1. slot[c] \in BusySlots
    BY <1>8, BusyByPc DEF call_tool, TypeInv
  <2>2. \/ slot' = [slot EXCEPT ![c] = Idle]
        \/ Proceed(c, "work") /\ Outcome(slot[c].ctx, slot[c].req) = Passed
    BY <1>8 DEF call_tool, Answer
  <2> QED
    BY <1>2, <1>3, <1>8, <2>1, <2>2 DEF call_tool
<1>9. ASSUME NEW c \in Clients, FinishTool(c) \/ Disconnect(c)
      PROVE  slot'[d] = slot[d] \/ slot'[d] = Idle
  BY <1>2, <1>9 DEF FinishTool, Disconnect, Answer
<1>10. ASSUME NEW c \in Clients, ListTools(c) PROVE slot' = slot
  BY <1>10 DEF ListTools, list_tools
<1>11. ASSUME Sighup \/ UNCHANGED serverVars \/ \E t \in Tokens : EditTokens(t)
       PROVE  slot' = slot
  BY <1>11 DEF Sighup, serverVars, EditTokens
<1> QED
  BY <1>0, <1>1, <1>5, <1>6, <1>7, <1>8, <1>9, <1>10, <1>11 DEF Next

\* Only call_tool starts a body, and only when Outcome passed.
LEMMA StepIsCleared ==
  ASSUME TypeInv, WorkIsCleared, [Next]_serverVars
  PROVE  WorkIsCleared'
<1> SUFFICES ASSUME NEW d \in Clients, Working(d)'
             PROVE  Cleared(slot[d].ctx, slot[d].req)'
  BY DEF WorkIsCleared
<1>1. conf' = conf
  BY SlotSteps
<1>2. CASE slot'[d] = slot[d]
  BY <1>1, <1>2 DEF WorkIsCleared, Working, Cleared, allows_tool, Seen
<1>3. CASE slot'[d] # slot[d]
  <2>1. /\ slot[d].pc = "dispatch" /\ Outcome(slot[d].ctx, slot[d].req) = Passed
        /\ slot'[d].ctx = slot[d].ctx /\ slot'[d].req = slot[d].req
    BY <1>3, SlotSteps DEF Working, Idle
  <2>2. slot[d].req \in Requests
    BY <2>1, BusyByPc DEF TypeInv, BusySlots
  <2>3. Cleared(slot[d].ctx, slot[d].req)
    BY <2>1, <2>2, PassedIsCleared
  <2> QED
    BY <1>1, <2>1, <2>3 DEF Cleared, allows_tool, Seen
<1> QED
  BY <1>2, <1>3

\* A request whose body is still being received has a grant, and one that went past the
\* preflight did not exceed it.
PreflightHeld ==
    \A c \in Clients :
        /\ slot[c].pc = "body" => slot[c].ctx # NoCtx
        /\ slot[c].pc \in {"dispatch", "work"} /\ slot[c].ctx # NoCtx
             => ~request_exceeds_scope(slot[c].ctx, slot[c].req)

\* The preflight is decided once: neither the grant nor the request changes afterwards.
LEMMA StepPreflight ==
  ASSUME TypeInv, PreflightHeld, [Next]_serverVars
  PROVE  PreflightHeld'
<1>1. conf' = conf
  <2>1. ASSUME NEW d \in Clients PROVE conf' = conf
    BY SlotSteps
  <2> QED
    BY <2>1 DEF Next, EditTokens, Sighup, serverVars
<1>2. ASSUME NEW d \in Clients, slot'[d].pc = "body" PROVE slot'[d].ctx # NoCtx
  BY <1>2, SlotSteps DEF PreflightHeld, Idle
<1>3. ASSUME NEW d \in Clients, slot'[d].pc \in {"dispatch", "work"}, slot'[d].ctx # NoCtx
      PROVE  ~request_exceeds_scope(slot'[d].ctx, slot'[d].req)
  BY <1>3, SlotSteps DEF PreflightHeld, Idle
<1>4. ASSUME NEW ctx, NEW r
      PROVE  request_exceeds_scope(ctx, r)' <=> request_exceeds_scope(ctx', r')
  BY <1>1 DEF request_exceeds_scope
<1> QED
  BY <1>1, <1>2, <1>3 DEF PreflightHeld, request_exceeds_scope

\* No body runs uncleared, and none that the preflight refused.
THEOREM BodiesAreCleared == Spec => [](TypeInv /\ WorkIsCleared /\ PreflightHeld)
<1>1. Init => TypeInv /\ WorkIsCleared /\ PreflightHeld
  <2>1. Init => WorkIsCleared /\ PreflightHeld
    BY DEF Init, WorkIsCleared, PreflightHeld, Working, Idle
  <2> QED
    BY <2>1, InitTypes DEF TypeInv
<1>2. TypeInv /\ WorkIsCleared /\ PreflightHeld /\ [Next]_serverVars
        => (TypeInv /\ WorkIsCleared /\ PreflightHeld)'
  BY StepTypes, StepIsCleared, StepPreflight DEF TypeInv
<1> QED
  BY <1>1, <1>2, PTL DEF Spec

\* WritesNeedANamedGrant: the wildcard never confers write authority, by either route and
\* whatever reloads of the token store happen while the request is in flight.
THEOREM WritesAreNamed == Spec => []WritesNeedANamedGrant
<1>1. TypeInv /\ WorkIsCleared => WritesNeedANamedGrant
  <2>1. Mutating \subseteq WRITE_TOOLS
    BY DEF Mutating, WRITE_TOOLS
  <2> QED
    BY <2>1 DEF WritesNeedANamedGrant, WorkIsCleared, Cleared, allows_tool
<1> QED
  BY <1>1, BodiesAreCleared, PTL

\* WorkStaysInScope: the handler's own checks, and the filter of the name lists, keep a body
\* within the routers of its grant, the two inventory tools and the list of change sets apart;
\* the preflight, when it is on, keeps the routers those may name within it too.
THEOREM WorkIsInScope == Spec => []WorkStaysInScope
<1>1. TypeInv /\ WorkIsCleared /\ PreflightHeld => WorkStaysInScope
  <2> SUFFICES ASSUME TypeInv, WorkIsCleared, PreflightHeld, NEW c \in Clients, Working(c),
                      slot[c].ctx # NoCtx
               PROVE  /\ \/ slot[c].req.tool \in {"add_device", "reload_devices",
                                                  "list_junos_change_sets"}
                         \/ Reach(slot[c].ctx, slot[c].req) \subseteq slot[c].ctx.devices
                      /\ conf.preflight => slot[c].req.devs \subseteq slot[c].ctx.devices
    BY DEF WorkStaysInScope
  <2> DEFINE r == slot[c].req
             ctx == slot[c].ctx
  <2>1. r \in Requests /\ Cleared(ctx, r) /\ ~request_exceeds_scope(ctx, r)
    BY BusyByPc DEF TypeInv, BusySlots, Working, WorkIsCleared, PreflightHeld
  <2> HIDE DEF r, ctx
  <2>2. ASSUME r.tool \in {"get_device_list", "get_router_list"}
        PROVE  Reach(ctx, r) \subseteq ctx.devices
    <3>1. r.args # "both"
      BY <2>1, <2>2 DEF Requests, NoObject
    <3>2. Reach(ctx, r) = filter_device_names(ctx)
      BY <2>2, <3>1 DEF Reach
    <3>3. \A d \in filter_device_names(ctx) : d \in ctx.devices
      BY DEF filter_device_names, allows_device, ctx
    <3> QED
      BY <3>2, <3>3
  <2>3. ASSUME r.tool \notin ToolOnly PROVE Reach(ctx, r) \subseteq ctx.devices
    <3>1. r.tool \notin {"get_device_list", "get_router_list", "reload_devices",
                         "list_junos_change_sets"}
      BY <2>3 DEF ToolOnly
    <3>2. Reach(ctx, r) = IF r.args = "both" THEN {} ELSE r.devs
      BY <3>1 DEF Reach
    <3>3. r.args # "both" => Seen(r) = r.devs
      BY DEF Seen
    <3>4. \A d \in Seen(r) : d \in ctx.devices
      BY <2>1, <2>3 DEF Cleared, ctx
    <3> QED
      BY <3>2, <3>3, <3>4
  <2>4. ASSUME conf.preflight PROVE r.devs \subseteq ctx.devices
    <3>1. ~tool_call_exceeds_scope(ctx, r)
      BY <2>1, <2>4 DEF request_exceeds_scope
    <3>2. CASE r.args \in NoObject
      BY <2>1, <3>2, NoObjectHasNoDevice
    <3>3. CASE r.args \notin NoObject
      <4>1. ~arguments_exceed_device_scope(ctx, r)
        BY <2>1, <3>1, <3>3 DEF tool_call_exceeds_scope, facade_call_exceeds_scope, Cleared
      <4> QED
        BY <3>3, <4>1
        DEF arguments_exceed_device_scope, device_value_in_scope, allows_device
    <3> QED
      BY <3>2, <3>3
  <2> QED
    BY <2>2, <2>3, <2>4 DEF ToolOnly, r, ctx
<1> QED
  BY <1>1, BodiesAreCleared, PTL

\* NoUngatedCommit: without --allow-direct-commit only approved change sets commit, and those
\* need an authenticated caller.
THEOREM CommitsAreGated == Spec => []NoUngatedCommit
<1>1. TypeInv /\ WorkIsCleared => NoUngatedCommit
  BY DEF NoUngatedCommit, WorkIsCleared, Cleared, Committing, CallerNeeded, ActTools
<1> QED
  BY <1>1, BodiesAreCleared, PTL
-----------------------------------------------------------------------------
(* The routes to a tool *)

\* A tool list was made for a context that fits the server's mode.
ListsOK ==
    reply.kind = "list" =>
        /\ reply.ctx \in Ctxs /\ (reply.ctx = NoCtx <=> ~conf.auth)
        /\ reply.tools = filter_tools_for_scope(reply.ctx)

\* The kinds of replies a step may leave.
LEMMA ReplyKinds ==
  ASSUME TypeInv, [Next]_serverVars
  PROVE  /\ conf' = conf
         /\ \/ reply' = reply
            \/ reply'.kind \in {"none", "http"}
            \/ \E c \in Clients : ListTools(c)
            \/ \E c \in Clients : call_tool(c) \/ FinishTool(c) \/ Disconnect(c)
<1>1. ASSUME NEW c \in Clients, NEW p, NEW x, NEW r, Begin(c, p, x, r)
      PROVE  conf' = conf /\ reply'.kind = "none"
  BY <1>1 DEF Begin, NoReply
<1>2. ASSUME NEW c \in Clients, NEW status, Refuse(c, status)
      PROVE  conf' = conf /\ reply'.kind = "http"
  BY <1>2 DEF Refuse
<1>3. ASSUME NEW c \in Clients, NEW p, Proceed(c, p)
      PROVE  conf' = conf /\ reply' = reply
  BY <1>3 DEF Proceed
<1>4. ASSUME NEW c \in Clients, call_tool(c) \/ FinishTool(c) \/ Disconnect(c) \/ ListTools(c)
      PROVE  conf' = conf
  BY <1>4 DEF call_tool, FinishTool, Disconnect, ListTools, list_tools, Answer, Proceed
<1>5. ASSUME Sighup \/ UNCHANGED serverVars \/ \E t \in Tokens : EditTokens(t)
      PROVE  conf' = conf /\ reply' = reply
  BY <1>5 DEF Sighup, serverVars, EditTokens
<1>6. ASSUME NEW c \in Clients, NEW r \in Requests, NoAuth(c, r)
      PROVE  conf' = conf /\ reply'.kind = "none"
  BY <1>1, <1>6 DEF NoAuth
<1>7. ASSUME NEW c \in Clients, NEW r \in Requests, NEW t \in Tokens, authenticator(c, t, r)
      PROVE  conf' = conf /\ reply'.kind \in {"none", "http"}
  BY <1>1, <1>2, <1>7 DEF authenticator
<1>8. ASSUME NEW c \in Clients, ReceiveBody(c)
      PROVE  conf' = conf /\ (reply' = reply \/ reply'.kind = "http")
  BY <1>2, <1>3, <1>8 DEF ReceiveBody
<1> QED
  BY <1>4, <1>5, <1>6, <1>7, <1>8 DEF Next

\* Every step keeps the lists right.
LEMMA StepLists ==
  ASSUME TypeInv, ListsOK, [Next]_serverVars
  PROVE  ListsOK'
<1>1. CASE reply' = reply
  BY <1>1, ReplyKinds DEF ListsOK, filter_tools_for_scope, allows_tool
<1>2. CASE reply'.kind \in {"none", "http"}
  BY <1>2 DEF ListsOK
<1>3. ASSUME NEW c \in Clients, ListTools(c) PROVE ListsOK'
  <2>1. conf' = conf
    BY ReplyKinds
  <2>2. PICK ctx : list_tools(c, ctx) /\ ctx \in Ctxs /\ (ctx = NoCtx <=> ~conf.auth)
    BY <1>3, GrantsAssumption DEF ListTools, TypeInv, StoreOK, Ctxs
  <2>3. reply'.ctx = ctx /\ reply'.tools = filter_tools_for_scope(ctx)
    BY <2>2 DEF list_tools
  <2> QED
    BY <2>1, <2>2, <2>3 DEF ListsOK, filter_tools_for_scope, allows_tool
<1>4. ASSUME NEW c \in Clients, call_tool(c) \/ FinishTool(c) \/ Disconnect(c)
      PROVE  ListsOK'
  <2>1. reply' = reply \/ reply'.kind = "call"
    BY <1>4 DEF call_tool, FinishTool, Disconnect, Proceed, Answer
  <2> QED
    BY <1>1, <2>1 DEF ListsOK
<1> QED
  BY <1>1, <1>2, <1>3, <1>4, ReplyKinds

\* A direct call is refused for its tool scope exactly when the tool is not listed.
LEMMA ListedMeansCallable ==
  ASSUME NEW ctx \in Ctxs, ctx = NoCtx <=> ~conf.auth, NEW r \in Requests,
         r.tool \in KNOWN_TOOLS, r.args = "ok", ~r.via
  PROVE  r.tool \in filter_tools_for_scope(ctx) <=> Outcome(ctx, r) # "tool_scope"
<1> DEFINE s == Handler(ctx, r)
           listed == ctx = NoCtx \/ allows_tool(ctx, r.tool)
<1>1. r.tool \in filter_tools_for_scope(ctx) <=> listed
  BY DEF filter_tools_for_scope
<1>2. Outcome(ctx, r) = FirstDenial(s)
  BY DEF Outcome, CallConcrete, Deserialises
<1>3. CASE r.tool \in JUNOS_TOOLS
  <2>1. 1 \in DOMAIN s /\ DOMAIN s \in {{1}, {1, 2}, {1, 2, 3}}
    BY <1>3, JunosChecks
  <2>2. s[1] = IF listed THEN Passed ELSE "tool_scope"
    BY <1>3, JunosChecks DEF check_tool_scope
  <2>3. \A i \in DOMAIN s : i # 1 => s[i] # "tool_scope"
    <3>1. CASE r.tool \in ToolOnly
      BY <3>1, ToolOnlyHandlers
    <3>2. CASE r.tool \notin ToolOnly
      <4>1. s[2] # "tool_scope"
        BY <1>3, <3>2, JunosChecks DEF check_router_scope, Passed
      <4>2. r.tool \in Committing => s[3] # "tool_scope"
        BY <1>3, JunosChecks DEF direct_commit, Passed
      <4>3. r.tool \in CallerNeeded => s[3] # "tool_scope"
        BY <1>3, JunosChecks DEF needs_caller, Passed
      <4>4. r.tool \notin Committing \cup CallerNeeded => DOMAIN s = {1, 2}
        BY <1>3, <3>2, ScopedHandlers DEF Scoped
      <4> HIDE DEF s
      <4> QED
        BY <2>1, <4>1, <4>2, <4>3, <4>4
    <3> QED
      BY <3>1, <3>2
  <2>4. "tool_scope" # Passed
    BY DEF Passed
  <2> HIDE DEF s, listed
  <2>5. CASE listed
    BY <2>1, <2>2, <2>3, <2>4, <2>5, <1>1, <1>2, FirstDenialIsFirst
  <2>6. CASE ~listed
    BY <2>1, <2>2, <2>3, <2>4, <2>6, <1>1, <1>2, FirstDenialIsFirst
  <2> QED
    BY <2>5, <2>6
<1>4. CASE r.tool \in SRX_TOOLS
  <2> DEFINE ds == IF r.tool = "srxmcp_status" THEN {} ELSE r.devs
             q == authorize_call(ctx, r.tool, ds)
  <2>1. /\ DOMAIN q = {1, 2, 3} /\ q[1] = Passed
        /\ q[2] = IF listed THEN Passed ELSE "tool_scope"
        /\ q[3] # "tool_scope"
    BY DEF authorize_call, check_srx_tool_scope, check_srx_router_scope, Passed
  <2>2. s = q
    BY <1>4, SrxHandlers
  <2>3. "tool_scope" # Passed
    BY DEF Passed
  <2> HIDE DEF s, q, listed
  <2> QED
    BY <1>1, <1>2, <2>1, <2>2, <2>3, FirstDenialIsFirst
<1> QED
  BY <1>3, <1>4 DEF KNOWN_TOOLS, Requests

\* What a handler answers an authenticated caller, as far as scopes go: it denies for one
\* exactly when the tool, or a router its checks see, is not in the grant.
LEMMA HandlersDenyForScope ==
  ASSUME NEW ctx, ctx # NoCtx, NEW r \in Requests, r.tool \in JUNOS_TOOLS \cup SRX_TOOLS
  PROVE  LET out == FirstDenial(Handler(ctx, r))
             inScope == \A d \in Seen(r) : allows_device(ctx, d)
         IN /\ ~allows_tool(ctx, r.tool) => out \in ScopeDenials
            /\ r.tool \notin ToolOnly /\ ~inScope => out \in ScopeDenials
            /\ allows_tool(ctx, r.tool) /\ (r.tool \in ToolOnly \/ inScope)
                 => out \notin ScopeDenials
<1> DEFINE s == Handler(ctx, r)
           out == FirstDenial(s)
           inScope == \A d \in Seen(r) : allows_device(ctx, d)
           first == IF allows_tool(ctx, r.tool) THEN Passed ELSE "tool_scope"
           second == IF inScope THEN Passed ELSE "router_scope"
           Goal == /\ ~allows_tool(ctx, r.tool) => out \in ScopeDenials
                   /\ r.tool \notin ToolOnly /\ ~inScope => out \in ScopeDenials
                   /\ allows_tool(ctx, r.tool) /\ (r.tool \in ToolOnly \/ inScope)
                        => out \notin ScopeDenials
<1>0. Passed \notin ScopeDenials /\ {"tool_scope", "router_scope"} = ScopeDenials
  BY DEF Passed, ScopeDenials
<1>1. ASSUME r.tool \in JUNOS_TOOLS PROVE Goal
  <2>1. DOMAIN s \in {{1}, {1, 2}, {1, 2, 3}} /\ s[1] = first
    BY <1>1, JunosChecks DEF check_tool_scope
  <2>2. ASSUME r.tool \in ToolOnly PROVE Goal
    <3>1. DOMAIN s = {1}
      BY <2>2, ToolOnlyHandlers
    <3> HIDE DEF s, inScope
    <3> QED
      BY <1>0, <2>1, <2>2, <3>1, FirstDenialIsFirst
  <2>3. ASSUME r.tool \notin ToolOnly PROVE Goal
    <3>1. 2 \in DOMAIN s /\ s[2] = second
      BY <1>1, <2>3, JunosChecks DEF check_router_scope
    <3>2. 3 \in DOMAIN s => s[3] \notin ScopeDenials
      <4>1. r.tool \in Committing => s[3] \notin ScopeDenials
        BY <1>1, JunosChecks DEF direct_commit, Passed, ScopeDenials
      <4>2. r.tool \in CallerNeeded => s[3] \notin ScopeDenials
        BY <1>1, JunosChecks DEF needs_caller, Passed, ScopeDenials
      <4>3. r.tool \notin Committing \cup CallerNeeded => DOMAIN s = {1, 2}
        BY <1>1, <2>3, ScopedHandlers DEF Scoped
      <4> HIDE DEF s
      <4> QED
        BY <4>1, <4>2, <4>3
    <3> HIDE DEF s, inScope
    <3> QED
      BY <1>0, <2>1, <2>3, <3>1, <3>2, FirstDenialIsFirst
  <2> QED
    BY <2>2, <2>3
<1>2. ASSUME r.tool \in SRX_TOOLS PROVE Goal
  <2> DEFINE ds == IF r.tool = "srxmcp_status" THEN {} ELSE r.devs
             q == authorize_call(ctx, r.tool, ds)
  <2>1. Seen(r) = ds
    <3>1. r.tool # "render_and_apply_j2_template"
      BY <1>2 DEF SRX_TOOLS
    <3>2. r.tool = "srxmcp_status" => r.devs = {}
      BY UnscopedHasNoDevice DEF Unscoped
    <3> QED
      BY <3>1, <3>2 DEF Seen
  <2>2. DOMAIN q = {1, 2, 3} /\ q[1] = Passed /\ q[2] = first /\ q[3] = second
    BY <2>1 DEF authorize_call, check_srx_tool_scope, check_srx_router_scope
  <2>3. s = q
    BY <1>2, SrxHandlers
  <2>4. r.tool \notin ToolOnly
    BY <1>2 DEF SRX_TOOLS, ToolOnly
  <2> HIDE DEF s, q, inScope
  <2> QED
    BY <1>0, <2>2, <2>3, <2>4, FirstDenialIsFirst
<1> QED
  BY <1>1, <1>2

\* The preflight of a known tool against the handler, once the facade is out of the way.
LEMMA PreflightAgreesWithHandler ==
  ASSUME NEW ctx, ctx # NoCtx, NEW r \in Requests, r.tool \in KNOWN_TOOLS
  PROVE  LET out == CallConcrete(ctx, r)
         IN IF ~allows_tool(ctx, r.tool) \/ arguments_exceed_device_scope(ctx, r)
            THEN out \in ScopeDenials \cup {Rejected} \/ FailsClosed(r)
            ELSE out \notin ScopeDenials
<1> DEFINE inScope == \A d \in Seen(r) : allows_device(ctx, d)
<1>0. r.tool \in JUNOS_TOOLS \cup SRX_TOOLS
  BY DEF Requests, KNOWN_TOOLS
<1>1. CASE ~Deserialises(r)
  BY <1>1 DEF CallConcrete, ScopeDenials, Rejected
<1>2. CASE Deserialises(r)
  <2>1. CallConcrete(ctx, r) = FirstDenial(Handler(ctx, r))
    BY <1>2 DEF CallConcrete
  <2>2. CASE ~allows_tool(ctx, r.tool)
    BY <1>0, <2>1, <2>2, HandlersDenyForScope
  <2>3. CASE allows_tool(ctx, r.tool) /\ arguments_exceed_device_scope(ctx, r)
    <3>1. CASE FailsClosed(r)
      BY <2>3, <3>1
    <3>2. CASE ~FailsClosed(r)
      <4>1. r.args \notin {"both", "empty", "null", "malformed"}
            /\ r.tool \notin {"add_device", "list_junos_change_sets"}
        BY <3>2 DEF FailsClosed
      <4>2. r.args # "odd" /\ r.args \notin NoObject
        BY <1>2, <2>3, <4>1
        DEF Deserialises, arguments_exceed_device_scope, NoObject
      <4>3. PICK d \in r.devs : ~allows_device(ctx, d)
        BY <2>3, <4>1, <4>2 DEF arguments_exceed_device_scope, device_value_in_scope
      <4>4. r.tool \notin Unscoped
        BY <4>3, UnscopedHasNoDevice
      <4>5. r.tool \notin ToolOnly /\ Seen(r) = r.devs
        BY <4>1, <4>4 DEF ToolOnly, Unscoped, Seen
      <4> QED
        BY <1>0, <2>1, <2>3, <4>3, <4>5, HandlersDenyForScope
    <3> QED
      BY <3>1, <3>2
  <2>4. CASE allows_tool(ctx, r.tool) /\ ~arguments_exceed_device_scope(ctx, r)
    <3>1. \A d \in r.devs : allows_device(ctx, d)
      BY <2>4, NoObjectHasNoDevice DEF arguments_exceed_device_scope, device_value_in_scope
    <3>2. inScope
      BY <3>1 DEF Seen
    <3> QED
      BY <1>0, <2>1, <2>4, <3>2, HandlersDenyForScope
  <2> QED
    BY <2>2, <2>3, <2>4
<1> QED
  BY <1>1, <1>2

\* The preflight against what becomes of the request, by either route.
LEMMA PreflightAgrees ==
  ASSUME NEW ctx, ctx # NoCtx, NEW r \in Requests
  PROVE  IF tool_call_exceeds_scope(ctx, r)
         THEN Outcome(ctx, r) \in ScopeDenials \cup {Rejected} \/ FailsClosed(r)
         ELSE Outcome(ctx, r) \notin ScopeDenials
<1>0. Passed \notin ScopeDenials /\ Rejected \notin ScopeDenials
      /\ "unknown_operation" \notin ScopeDenials /\ "tool_scope" \in ScopeDenials
      /\ "tool_scope" # Passed
  BY DEF Passed, Rejected, ScopeDenials
<1>1. CASE ~r.via
  <2>1. CASE r.tool \notin KNOWN_TOOLS
    BY <1>0, <1>1, <2>1 DEF Outcome
  <2>2. CASE r.tool \in KNOWN_TOOLS
    BY <1>1, <2>2, PreflightAgreesWithHandler DEF Outcome, tool_call_exceeds_scope
  <2> QED
    BY <2>1, <2>2
<1>2. CASE r.via /\ ~allows_tool(ctx, "execute")
  <2>1. tool_call_exceeds_scope(ctx, r)
    BY <1>2 DEF tool_call_exceeds_scope
  <2>2. check_tool_scope(ctx, "execute") = "tool_scope"
    BY <1>2 DEF check_tool_scope
  <2>3. Outcome(ctx, r) = "tool_scope"
    BY <1>0, <1>2, <2>2 DEF Outcome, route
  <2> QED
    BY <1>0, <2>1, <2>3
<1>3. CASE r.via /\ allows_tool(ctx, "execute")
  <2>1. check_tool_scope(ctx, "execute") = Passed
    BY <1>3 DEF check_tool_scope
  <2>2. CASE r.args \in NoObject
    <3>1. Outcome(ctx, r) = Rejected
      BY <1>3, <2>1, <2>2 DEF Outcome, route
    <3> QED
      BY <1>0, <3>1
  <2>3. CASE r.args \notin NoObject /\ r.tool \notin KNOWN_TOOLS
    <3>1. Outcome(ctx, r) = "unknown_operation"
      BY <1>3, <2>1, <2>3 DEF Outcome, route
    <3>2. ~tool_call_exceeds_scope(ctx, r)
      BY <1>3, <2>3 DEF tool_call_exceeds_scope, facade_call_exceeds_scope
    <3> QED
      BY <1>0, <3>1, <3>2
  <2>4. CASE r.args \notin NoObject /\ r.tool \in KNOWN_TOOLS
    <3>1. Outcome(ctx, r) = CallConcrete(ctx, r)
      BY <1>3, <2>1, <2>4 DEF Outcome, route
    <3>2. tool_call_exceeds_scope(ctx, r)
            <=> ~allows_tool(ctx, r.tool) \/ arguments_exceed_device_scope(ctx, r)
      BY <1>3, <2>4 DEF tool_call_exceeds_scope, facade_call_exceeds_scope
    <3> QED
      BY <2>4, <3>1, <3>2, PreflightAgreesWithHandler
  <2> QED
    BY <2>2, <2>3, <2>4
<1> QED
  BY <1>1, <1>2, <1>3

\* RoutesAgree: for every grant, tool and shape of arguments, by either route, the preflight
\* never lets through what the handler refuses for a scope, and refuses more than the handler
\* only where it fails closed; tools/list shows exactly the tools whose tool scope passes.
THEOREM RoutesDecideAlike == Spec => []RoutesAgree
<1>1. Init => TypeInv /\ ListsOK
  <2>1. Init => ListsOK
    BY DEF Init, ListsOK, NoReply
  <2> QED
    BY <2>1, InitTypes DEF TypeInv
<1>2. TypeInv /\ ListsOK /\ [Next]_serverVars => (TypeInv /\ ListsOK)'
  BY StepTypes, StepLists DEF TypeInv
<1>3. TypeInv /\ ListsOK /\ PreflightHeld => RoutesAgree
  <2> SUFFICES ASSUME TypeInv, ListsOK, PreflightHeld PROVE RoutesAgree
    OBVIOUS
  <2>1. ASSUME reply.kind = "list", NEW r \in Requests, r.tool \in KNOWN_TOOLS,
               r.args = "ok", ~r.via
        PROVE  r.tool \in reply.tools <=> Outcome(reply.ctx, r) # "tool_scope"
    BY <2>1, ListedMeansCallable DEF ListsOK
  <2>2. ASSUME NEW c \in Clients, slot[c].pc = "body"
        PROVE  LET outcome == Outcome(slot[c].ctx, slot[c].req)
               IN IF tool_call_exceeds_scope(slot[c].ctx, slot[c].req)
                  THEN outcome \in ScopeDenials \cup {Rejected} \/ FailsClosed(slot[c].req)
                  ELSE outcome \notin ScopeDenials
    <3>1. slot[c].req \in Requests /\ slot[c].ctx # NoCtx
      BY <2>2, BusyByPc DEF TypeInv, BusySlots, PreflightHeld
    <3> QED
      BY <3>1, PreflightAgrees
  <2> QED
    BY <2>1, <2>2 DEF RoutesAgree
<1> QED
  BY <1>1, <1>2, <1>3, BodiesAreCleared, PTL DEF Spec
-----------------------------------------------------------------------------
(* Audit records *)

\* A step that ends a call leaves the records its end asks for.
LEMMA StepRecords ==
  ASSUME TypeInv, WorkIsCleared, JunosCallsLeaveOneRecord, [Next]_serverVars
  PROVE  JunosCallsLeaveOneRecord'
<1>1. CASE reply' = reply
  BY <1>1 DEF JunosCallsLeaveOneRecord
<1>2. ASSUME NEW c \in Clients, NEW records, NEW fields, Answer(c, records, fields),
             Len(records) >= 1,
             slot[c].req.tool \notin SRX_TOOLS \/ (slot[c].req.via /\ slot[c].req.args \in NoObject)
               => Len(records) = 1
      PROVE  JunosCallsLeaveOneRecord'
  <2>1. slot[c].req.tool \in SRX_TOOLS /\ ~(slot[c].req.via /\ slot[c].req.args \in NoObject)
          => effective_tool_name(slot[c].req) \in SRX_TOOLS
    BY DEF effective_tool_name, concrete_operation, static_tool_name, KNOWN_TOOLS
  <2>2. reply'.records = records /\ reply'.tool = effective_tool_name(slot[c].req)
    BY <1>2 DEF Answer
  <2>3. Len(reply'.records) >= 1
    BY <1>2, <2>2
  <2>4. reply'.tool \notin SRX_TOOLS => Len(reply'.records) = 1
    BY <1>2, <2>1, <2>2
  <2> QED
    BY <2>3, <2>4 DEF JunosCallsLeaveOneRecord
<1>3. ASSUME NEW c \in Clients, call_tool(c) PROVE JunosCallsLeaveOneRecord'
  <2> DEFINE out == Outcome(slot[c].ctx, slot[c].req)
             records == IF out = Rejected THEN record_rejected_call(c) ELSE <<out>>
  <2>1. Len(records) = 1
    BY DEF record_rejected_call
  <2>2. Answer(c, records, {}) \/ Proceed(c, "work")
    BY <1>3 DEF call_tool
  <2> HIDE DEF records
  <2> QED
    BY <1>1, <1>2, <2>1, <2>2 DEF Proceed
<1>4. ASSUME NEW c \in Clients, FinishTool(c) PROVE JunosCallsLeaveOneRecord'
  <2>1. PICK result, fields : Answer(c, Settle(c, result), fields)
    BY <1>4 DEF FinishTool
  <2> DEFINE records == Settle(c, result)
  <2>2. Len(records) >= 1 /\ (slot[c].req.tool \notin SRX_TOOLS => Len(records) = 1)
    BY SettleRecords
  <2> HIDE DEF records
  <2>3. Answer(c, records, fields)
    BY <2>1 DEF records
  <2>4. ~(slot[c].req.via /\ slot[c].req.args \in NoObject)
    BY <1>4 DEF WorkIsCleared, Cleared, Working, FinishTool
  <2> QED
    BY <1>2, <2>2, <2>3, <2>4
<1>5. ASSUME NEW c \in Clients, Disconnect(c) PROVE JunosCallsLeaveOneRecord'
  BY <1>2, <1>5 DEF Disconnect
<1>6. ASSUME NEW c \in Clients, ListTools(c) PROVE JunosCallsLeaveOneRecord'
  BY <1>6 DEF ListTools, list_tools, JunosCallsLeaveOneRecord
<1>7. CASE reply'.kind \in {"none", "http"}
  BY <1>7 DEF JunosCallsLeaveOneRecord
<1> QED
  BY <1>1, <1>3, <1>4, <1>5, <1>6, <1>7, ReplyKinds

\* JunosCallsLeaveOneRecord: a dispatched call leaves at least one audit record however it ends,
\* and a call of a Junos tool exactly one.
THEOREM CallsAreRecorded == Spec => []JunosCallsLeaveOneRecord
<1>1. Init => JunosCallsLeaveOneRecord
  BY DEF Init, JunosCallsLeaveOneRecord, NoReply
<1>2. TypeInv /\ WorkIsCleared /\ JunosCallsLeaveOneRecord /\ [Next]_serverVars
        => JunosCallsLeaveOneRecord'
  BY StepRecords
<1> QED
  BY <1>1, <1>2, BodiesAreCleared, PTL DEF Spec
-----------------------------------------------------------------------------
(* Redaction *)

\* restore_exempt_fields is recursive.  Its recursion equation has a solution on the paths the
\* bodies carry, so the function the code computes satisfies it.
ExemptFrom(path, i) ==
    {j \in i..Len(path) : path[j] = "exempt" /\ \A k \in i..j-1 : path[k] = "plain"}
Below(path, val, g) ==
    [i \in 1..Len(path)+1 |->
        IF ExemptFrom(path, i) = {} THEN redact_json_value(SubSeq(path, i, Len(path)), val)
        ELSE g[1 + CHOOSE j \in ExemptFrom(path, i) : TRUE]]

\* restore_exempt_fields is the first value of a solution of the recursion equation, if there
\* is one.
LEMMA RestoreUnfolds ==
  ASSUME NEW path, NEW val, NEW h, h = Below(path, val, h)
  PROVE  \E f : f = Below(path, val, f) /\ restore_exempt_fields(path, val) = f[1]
<1>1. restore_exempt_fields(path, val) = (CHOOSE g : g = Below(path, val, g))[1]
  BY Zenon DEF restore_exempt_fields, Below, ExemptFrom
<1>2. (CHOOSE g : g = Below(path, val, g)) = Below(path, val, CHOOSE g : g = Below(path, val, g))
  OBVIOUS
<1> QED
  BY <1>1, <1>2

\* Under an exempt key the value is redacted again, under the keys that follow.
LEMMA UnderAnExemptKey ==
  ASSUME NEW key \in {"plain", "deny"}, NEW val
  PROVE  restore_exempt_fields(<<"exempt", key>>, val) =
           IF key = "deny" \/ val = "secret" THEN Redacted ELSE val
<1> DEFINE path == <<"exempt", key>>
           r2 == redact_json_value(SubSeq(path, 2, 2), val)
           r3 == redact_json_value(SubSeq(path, 3, 2), val)
           h == [i \in 1..3 |-> IF i = 3 THEN r3 ELSE r2]
<1>1. Len(path) = 2 /\ path[1] = "exempt" /\ path[2] = key
  OBVIOUS
<1>2. DOMAIN SubSeq(path, 2, 2) = {1} /\ SubSeq(path, 2, 2)[1] = key
  OBVIOUS
<1>3. r2 = IF key = "deny" \/ val = "secret" THEN Redacted ELSE val
  BY <1>2 DEF redact_json_value
<1> HIDE DEF path
<1>4. ExemptFrom(path, 1) = {1} /\ ExemptFrom(path, 2) = {} /\ ExemptFrom(path, 3) = {}
  BY <1>1 DEF ExemptFrom
<1>5. h = Below(path, val, h)
  BY <1>1, <1>4 DEF Below
<1> HIDE DEF h
<1>6. PICK f : f = Below(path, val, f) /\ restore_exempt_fields(path, val) = f[1]
  BY <1>5, RestoreUnfolds
<1>7. f[1] = f[2] /\ f[2] = r2
  BY <1>1, <1>4, <1>6 DEF Below
<1> QED
  BY <1>3, <1>6, <1>7 DEF path

\* Without one, the structural pass decides.
LEMMA WithoutAnExemptKey ==
  ASSUME NEW key \in {"plain", "token"}, NEW val
  PROVE  restore_exempt_fields(<<key>>, val) =
           IF key # "plain" \/ val = "secret" THEN Redacted ELSE val
<1> DEFINE path == <<key>>
           r1 == redact_json_value(SubSeq(path, 1, 1), val)
           r2 == redact_json_value(SubSeq(path, 2, 1), val)
           h == [i \in 1..2 |-> IF i = 1 THEN r1 ELSE r2]
<1>1. Len(path) = 1 /\ path[1] = key
  OBVIOUS
<1>2. DOMAIN SubSeq(path, 1, 1) = {1} /\ SubSeq(path, 1, 1)[1] = key
  OBVIOUS
<1>3. r1 = IF key # "plain" \/ val = "secret" THEN Redacted ELSE val
  BY <1>2 DEF redact_json_value
<1> HIDE DEF path
<1>4. ExemptFrom(path, 1) = {} /\ ExemptFrom(path, 2) = {}
  BY <1>1 DEF ExemptFrom
<1>5. h = Below(path, val, h)
  BY <1>1, <1>4 DEF Below
<1> HIDE DEF h
<1>6. PICK f : f = Below(path, val, f) /\ restore_exempt_fields(path, val) = f[1]
  BY <1>5, RestoreUnfolds
<1>7. f[1] = r1
  BY <1>1, <1>4, <1>6 DEF Below
<1> QED
  BY <1>3, <1>6, <1>7 DEF path

\* What may leave the server in a field.
Clean(f) ==
    /\ f.val # "secret" /\ ("deny" \in {f.path[i] : i \in DOMAIN f.path} => f.val = Redacted)
    /\ f.path = <<"exempt", "plain">> => f.val = "plain"
    /\ f.path = <<"token">> => f.val = "minted"

Field(path, val) == [path |-> path, val |-> val]

\* The fields of the bodies, after any number of passes, are clean.
LEMMA BodiesAreRedacted ==
  ASSUME NEW tool, NEW result, NEW b \in Bodies(tool, result),
         NEW f \in redact_last_mile(b.form, to_call_result(tool, b))
  PROVE  Clean(f)
<1> DEFINE table == Field(<<"exempt", "plain">>, "plain")
           nested == Field(<<"exempt", "deny">>, "plain")
           secret == Field(<<"plain">>, "secret")
           hidden == Field(<<"exempt", "deny">>, Redacted)
           masked == Field(<<"plain">>, Redacted)
           J(g) == [g EXCEPT !.val = restore_exempt_fields(g.path, g.val)]
           T(g) == [g EXCEPT !.val = redact_json_value(g.path, g.val)]
<1>0. Redacted \notin {"secret", "plain"}
  BY DEF Redacted
<1>1. J(table) = table
  BY UnderAnExemptKey DEF Field
<1>2. J(nested) = hidden /\ J(hidden) = hidden
  BY UnderAnExemptKey DEF Field
<1>3. J(secret) = masked
  BY WithoutAnExemptKey DEF Field
<1>4. J(masked) = masked
  BY <1>0, WithoutAnExemptKey DEF Field
<1>5. T(secret) = masked
  BY DEF Field, redact_json_value
<1>6. T(masked) = masked
  BY <1>0 DEF Field, redact_json_value
<1>7. PlanToken \notin {secret}
  BY DEF PlanToken, Field
<1>8. Clean(table) /\ Clean(hidden) /\ Clean(masked) /\ Clean(PlanToken)
  <2>1. ASSUME NEW k1, NEW k2, NEW v, "deny" \in {<<k1, k2>>[i] : i \in DOMAIN <<k1, k2>>}
        PROVE  k1 = "deny" \/ k2 = "deny"
    BY <2>1
  <2>2. Clean(table)
    BY <2>1 DEF Clean, Field
  <2>3. Clean(hidden)
    BY <1>0 DEF Clean, Field
  <2>4. Clean(masked)
    BY <1>0 DEF Clean, Field
  <2>5. Clean(PlanToken)
    BY DEF Clean, PlanToken
  <2> QED
    BY <2>2, <2>3, <2>4, <2>5
<1>9. \/ b = [form |-> "plan", fields |-> {PlanToken, secret}]
      \/ b = [form |-> "json", fields |-> {table, nested, secret}]
      \/ b = [form |-> "text", fields |-> {secret}]
  BY DEF Bodies, Field
<1>10. ASSUME NEW F PROVE redact_json_preserving_server_fields(F) = {J(g) : g \in F}
  BY DEF redact_json_preserving_server_fields
<1>11. ASSUME NEW F PROVE redact_text(F) = {T(g) : g \in F}
  BY DEF redact_text
<1> HIDE DEF table, nested, secret, hidden, masked, J, T
<1>12. CASE b = [form |-> "plan", fields |-> {PlanToken, secret}]
  <2>1. f \in signature_error_to_rmcp({PlanToken, secret})
    BY <1>12 DEF redact_last_mile, to_call_result
  <2>2. f = PlanToken \/ f = J(secret)
    BY <1>7, <1>10, <2>1 DEF signature_error_to_rmcp
  <2> QED
    BY <1>3, <1>8, <2>2
<1>13. CASE b = [form |-> "json", fields |-> {table, nested, secret}]
  <2>1. \/ to_call_result(tool, b) = {table, nested, secret}
        \/ to_call_result(tool, b) = {J(g) : g \in {table, nested, secret}}
    BY <1>10, <1>13 DEF to_call_result, redact_body
  <2>2. {J(g) : g \in {table, nested, secret}} = {table, hidden, masked}
    BY <1>1, <1>2, <1>3
  <2>3. {J(g) : g \in {table, hidden, masked}} = {table, hidden, masked}
    BY <1>1, <1>2, <1>4
  <2>4. redact_last_mile(b.form, to_call_result(tool, b)) = {table, hidden, masked}
    BY <1>10, <1>13, <2>1, <2>2, <2>3 DEF redact_last_mile, redact_body
  <2> QED
    BY <1>8, <2>4
<1>14. CASE b = [form |-> "text", fields |-> {secret}]
  <2>1. to_call_result(tool, b) = {secret} \/ to_call_result(tool, b) = {masked}
    BY <1>5, <1>11, <1>14 DEF to_call_result, redact_body
  <2>2. redact_last_mile(b.form, to_call_result(tool, b)) = {masked}
    BY <1>5, <1>6, <1>11, <1>14, <2>1 DEF redact_last_mile, redact_body
  <2> QED
    BY <1>8, <2>2
<1> QED
  BY <1>9, <1>12, <1>13, <1>14

\* ResponsesAreRedacted: no response carries a secret, and the rows of a flow table and the
\* minted confirmation token survive.
THEOREM RepliesAreRedacted == Spec => []ResponsesAreRedacted
<1>1. Init => TypeInv /\ ResponsesAreRedacted
  <2>1. Init => ResponsesAreRedacted
    BY DEF Init, ResponsesAreRedacted, NoReply
  <2> QED
    BY <2>1, InitTypes DEF TypeInv
<1>2. ASSUME TypeInv, ResponsesAreRedacted, [Next]_serverVars
      PROVE  ResponsesAreRedacted'
  <2>1. CASE reply' = reply
    BY <1>2, <2>1 DEF ResponsesAreRedacted
  <2>2. CASE reply'.kind \in {"none", "http"}
    BY <2>2 DEF ResponsesAreRedacted
  <2>3. ASSUME NEW c \in Clients, ListTools(c) PROVE ResponsesAreRedacted'
    BY <2>3 DEF ListTools, list_tools, ResponsesAreRedacted
  <2>4. ASSUME NEW c \in Clients, NEW records, Answer(c, records, {})
        PROVE  ResponsesAreRedacted'
    <3>1. reply'.fields = {}
      BY <2>4 DEF Answer
    <3> QED
      BY <3>1 DEF ResponsesAreRedacted
  <2>5. ASSUME NEW c \in Clients, call_tool(c) PROVE ResponsesAreRedacted'
    BY <2>1, <2>4, <2>5 DEF call_tool, Proceed
  <2>6. ASSUME NEW c \in Clients, Disconnect(c) PROVE ResponsesAreRedacted'
    BY <2>4, <2>6 DEF Disconnect
  <2>7. ASSUME NEW c \in Clients, FinishTool(c) PROVE ResponsesAreRedacted'
    <3>1. PICK result \in Results(slot[c].req) : \E b \in Bodies(slot[c].req.tool, result) :
            Answer(c, Settle(c, result),
                   redact_last_mile(b.form, to_call_result(slot[c].req.tool, b)))
      BY <2>7 DEF FinishTool
    <3>2. PICK b \in Bodies(slot[c].req.tool, result) :
            reply'.fields = redact_last_mile(b.form, to_call_result(slot[c].req.tool, b))
      BY <3>1 DEF Answer
    <3>3. \A f \in reply'.fields : Clean(f)
      BY <3>2, BodiesAreRedacted
    <3> QED
      BY <3>3 DEF ResponsesAreRedacted, Clean
  <2> QED
    BY <1>2, <2>1, <2>2, <2>3, <2>5, <2>6, <2>7, ReplyKinds
<1>3. TypeInv /\ ResponsesAreRedacted /\ [Next]_serverVars => (TypeInv /\ ResponsesAreRedacted)'
  BY <1>2, StepTypes DEF TypeInv
<1> QED
  BY <1>1, <1>3, PTL DEF Spec
=============================================================================
