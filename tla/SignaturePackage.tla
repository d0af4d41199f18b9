------------------------- MODULE SignaturePackage -------------------------
(***************************************************************************)
(* The IDP and AppID signature-package workflows: the two-call protocol    *)
(* (a preview issues a one-time token for a plan, a second call spends it), *)
(* the in-memory ConfirmationStore, the kernel-backed device lease, and     *)
(* the download / install / roll back / uninstall pipelines that poll an    *)
(* asynchronous device.                                                    *)
(*                                                                         *)
(* One device is modelled.  A version text is [lead, tail]: the number and *)
(* whether a "(Minor, ...)" suffix follows it.  A status text is the set of *)
(* the terminal words found in it.  Poll deadlines are a nondeterministic   *)
(* choice at every probe, token expiry an action of its own.               *)
(***************************************************************************)
EXTENDS Naturals, FiniteSets, Sequences

CONSTANTS
    Calls,        \* requests the server handles at a time; a slot is reused
    Callers,      \* authenticated token names
    Scenarios,    \* what the clients of a behaviour ask for (asks), the version published
                  \* at the start (latest), the nodes a version reply may list (told) and
                  \* those of them it gives no version for (unsaid), and two bounds: the
                  \* tokens issued and the reloads that re-identify the device
    NodeCount,    \* members of the chassis cluster (1 for standalone)
    MaxVersion,   \* package versions are 1..MaxVersion
    Capacity      \* ConfirmationStore capacity

NoCall == "no call"

ASSUME SignatureAssumption ==
    /\ NoCall \notin Calls
    /\ NodeCount \in Nat \ {0} /\ MaxVersion \in Nat \ {0}
    /\ Capacity \in Nat
    /\ \A s \in Scenarios :
         /\ \A r \in s.replies :
              r.told \subseteq 1..NodeCount /\ r.told # {} /\ r.unsaid \subseteq r.told
         /\ s.tokens \in Nat /\ s.reloads \in {0, 1} /\ s.latest \in 1..MaxVersion
         /\ s.asks \subseteq
              ([svc : {"idp"}, verb : {"check", "install", "rollback"},
                pin : 0..MaxVersion, caller : Callers]
               \cup [svc : {"appid"}, verb : {"check", "install", "uninstall"},
                     pin : 0..MaxVersion, caller : Callers])

VARIABLES
    pending,    \* ConfirmationStore: token -> [caller, ident, plan, expired]
    reply,      \* the last response sent, with the last audit line of its call and, for
                \* a verdict, the nodes told and unsaid in the reply it rests on
    lease,      \* the call that holds the device lease, or NoCall
    call,       \* one record per call in progress
    dev,        \* per service: installed and rollback text of each node, staged version, status texts
    jobs,       \* work the device has accepted and not finished
    latest,     \* the version the signature server publishes
    scenario,   \* the scenario of this behaviour; never changes
    ident,      \* what device_identity returns now
    issued,     \* history: every preview [token, caller, ident, plan]
    runs        \* history: every destructive run [call, token, caller, ident, plan]

sigVars == <<pending, reply, lease, call, dev, jobs, latest, ident, issued, runs, scenario>>

NoToken == 0
Nodes == 1..NodeCount
Services == {"idp", "appid"}
Version == [lead : 0..MaxVersion, tail : BOOLEAN]
NotAvailable == [lead |-> 0, tail |-> TRUE]    \* "N/A" or "N/A(N/A)": never installed
Zero == [lead |-> 0, tail |-> FALSE]           \* "0": what AppID reports after an uninstall
-----------------------------------------------------------------------------
(* Parsers *)

\* Both services turn the text of an absent package into None; AppID reports
\* an emptied package as "0", which only its own normaliser knows about.
None == [absent |-> TRUE]
normalize_version_text(raw) == IF raw = NotAvailable THEN None ELSE raw
appid_normalize_version_text(raw) == IF raw \in {NotAvailable, Zero} THEN None ELSE raw
Normalize(svc, raw) ==
    IF svc = "idp" THEN normalize_version_text(raw) ELSE appid_normalize_version_text(raw)

\* "3910(Minor, ...)" and "3910" name the same package.
leading_version_number(v) == v.lead

\* "Failed;" beats "Done;": the device also answers "Done;...Failed;...".
parse_async_status_detail(detail) ==
    IF "failed" \in detail THEN "failed" ELSE IF "done" \in detail THEN "done" ELSE "pending"
appid_parse_async_status_detail(detail) ==
    CASE "failed" \in detail -> "failed"
      [] "failed" \notin detail /\ "done" \in detail -> "done"
      [] OTHER -> "pending"
AsyncStatus(svc, detail) ==
    IF svc = "idp" THEN parse_async_status_detail(detail) ELSE appid_parse_async_status_detail(detail)

\* One entry per routing engine the reply lists, whichever those are: installed version
\* and preserved rollback version.  An element that is absent reads as "N/A" does; a reply
\* that lists no engine is an error, one of those that end the call.
Element(said, n, texts) == IF n \in said.unsaid THEN NotAvailable ELSE texts[n]
parse_package_information(d, said) ==
    [n \in said.told |-> [cur  |-> Normalize("idp", Element(said, n, d.pkg)),
                          back |-> Normalize("idp", Element(said, n, d.back))]]
parse_package_version(d, said) ==
    [n \in said.told |-> [cur |-> Normalize("appid", Element(said, n, d.pkg)), back |-> None]]
NodesOf(svc, said) ==
    IF svc = "idp" THEN parse_package_information(dev["idp"], said)
    ELSE parse_package_version(dev["appid"], said)

\* The first node that reports a value, as find_map does.
FirstOf(texts) ==
    LET has == {n \in DOMAIN texts : texts[n] # None}
    IN  IF has = {} THEN None ELSE texts[CHOOSE n \in has : \A m \in has : n <= m]
Current(nodes) == FirstOf([n \in DOMAIN nodes |-> nodes[n].cur])
Preserved(nodes) == FirstOf([n \in DOMAIN nodes |-> nodes[n].back])

check_server(svc, said) ==
    [nodes |-> NodesOf(svc, said), latest |-> [lead |-> latest, tail |-> FALSE]]
update_available(snap) ==
    \E n \in DOMAIN snap.nodes :
        \/ snap.nodes[n].cur = None
        \/ leading_version_number(snap.nodes[n].cur) # leading_version_number(snap.latest)
-----------------------------------------------------------------------------
(* Plans *)

\* A pinned version wins over the server's latest.
Target(snap, pin) == IF pin # 0 THEN [lead |-> pin, tail |-> FALSE] ELSE snap.latest

AllAtTarget(snap, target) ==
    \A n \in DOMAIN snap.nodes :
        /\ snap.nodes[n].cur # None
        /\ leading_version_number(snap.nodes[n].cur) = leading_version_number(target)

AtTarget == [kind |-> "already_at_target"]
NoPlan(why) == [kind |-> "error", why |-> why]

build_plan(svc, snap, pin) ==
    LET target == Target(snap, pin)
    IN  IF AllAtTarget(snap, target) THEN AtTarget
        ELSE [kind |-> "plan", svc |-> svc, verb |-> "install",
              nodes |-> [n \in DOMAIN snap.nodes |-> snap.nodes[n].cur], target |-> target,
              latest |-> IF pin # 0 THEN snap.latest ELSE None]

build_rollback_plan(snap) ==
    LET target == Preserved(snap.nodes)
    IN  IF target = None THEN NoPlan("no_rollback_target")
        ELSE [kind |-> "plan", svc |-> "idp", verb |-> "rollback",
              current |-> Current(snap.nodes), target |-> target]

build_uninstall_plan(snap) ==
    LET current == Current(snap.nodes)
    IN  IF current = None THEN NoPlan("no_uninstall_target")
        ELSE [kind |-> "plan", svc |-> "appid", verb |-> "uninstall",
              current |-> current, target |-> NotAvailable]

\* The RPC a confirmed plan starts with.
FirstKind(verb) == IF verb = "install" THEN "download" ELSE verb

PlanFor(req, said) ==
    CASE req.verb = "install"   -> build_plan(req.svc, check_server(req.svc, said), req.pin)
      [] req.verb = "rollback"  -> build_rollback_plan([nodes |-> NodesOf("idp", said)])
      [] req.verb = "uninstall" -> build_uninstall_plan([nodes |-> NodesOf("appid", said)])
-----------------------------------------------------------------------------
(* ConfirmationStore *)

Binding(c) == [caller |-> call[c].req.caller, ident |-> call[c].ident]
BoundTo(p, b) == p.caller = b.caller /\ p.ident = b.ident

\* What validate_binding answers for this token and binding, and the entries it leaves.
validate_binding(token, b) ==
    CASE token \notin DOMAIN pending                               -> "invalid"
      [] token \in DOMAIN pending /\ pending[token].expired        -> "expired"
      [] token \in DOMAIN pending /\ ~pending[token].expired
           /\ ~BoundTo(pending[token], b)                          -> "binding_mismatch"
      [] OTHER                                                     -> "ok"

\* consume repeats those checks and compares the recomputed plan.
consume(token, b, plan) ==
    IF validate_binding(token, b) # "ok" THEN validate_binding(token, b)
    ELSE IF pending[token].plan # plan THEN "plan_drift" ELSE "ok"

Without(token) == [t \in DOMAIN pending \ {token} |-> pending[t]]
\* Entries left after an answer: an expired, drifted or spent token is removed.
AfterCheck(token, answer) == IF answer = "expired" THEN Without(token) ELSE pending
\* Mutant: consume does not remove the token it accepts.
AfterConsume_Reusable(token, answer) ==
    IF answer \in {"expired", "plan_drift"} THEN Without(token) ELSE pending
AfterConsume(token, answer) ==
    IF answer \in {"expired", "plan_drift", "ok"} THEN Without(token) ELSE pending

\* issue first drops expired entries, then refuses at capacity.
Live == {t \in DOMAIN pending : ~pending[t].expired}
NewToken == Cardinality(issued) + 1
issue(c, plan) ==
    LET kept == [t \in Live |-> pending[t]]
    IN  IF Cardinality(Live) >= Capacity
        THEN [ok |-> FALSE, entries |-> kept]
        ELSE [ok |-> TRUE,
              entries |-> [t \in Live \cup {NewToken} |->
                             IF t = NewToken THEN [caller |-> call[c].req.caller, ident |-> call[c].ident,
                                            plan |-> plan, expired |-> FALSE]
                             ELSE kept[t]]]
-----------------------------------------------------------------------------
(* The tool handlers: authorised request, confirmation parameters, first    *)
(* look at the token, then the device session.                              *)

NoRequest == [svc |-> "idp", verb |-> "check", pin |-> 0, caller |-> NoCall]
Idle == [pc |-> "idle", req |-> NoRequest, ident |-> 0, token |-> NoToken,
         plan |-> None, kind |-> "-", audit |-> "-"]

\* A call returns: its slot is free and the caller has a response.  Errors are
\* told apart by what they say of the device: "refused" (no destructive RPC
\* was sent), "failed" (one was, or may have been) and "verification_failed".
Nothing == [told |-> {}, unsaid |-> {}]
NoReply == [res |-> "-", audit |-> "-", said |-> Nothing]
Respond(c, result, audit, said) ==
    /\ call' = [call EXCEPT ![c] = Idle]
    /\ reply' = [res |-> result, audit |-> audit, said |-> said]
Finish(c, result) == Respond(c, result, call[c].audit, Nothing)
Goto(c, pc) == [call EXCEPT ![c].pc = pc]

\* What validate_confirmation_request answers before a session is opened.
validate_confirmation_request(confirm, token, b) ==
    CASE ~confirm /\ token = NoToken -> "ok"
      [] ~confirm /\ token # NoToken -> "invalid_input"
      [] confirm /\ token = NoToken  -> "token_required"
      [] OTHER                       -> validate_binding(token, b)

Request(c, svc) ==
    /\ call[c].pc = "idle"
    /\ \E r \in {q \in scenario.asks : q.svc = svc}, confirm \in BOOLEAN,
          token \in {NoToken} \cup {i.token : i \in issued} :
         LET answer == validate_confirmation_request(confirm, token, [caller |-> r.caller, ident |-> ident])
         IN  IF r.verb = "check"
             THEN /\ call' = [call EXCEPT ![c] = [Idle EXCEPT !.pc = "open", !.req = r]]
                  /\ UNCHANGED <<pending, reply>>
             ELSE /\ IF answer = "ok"
                     THEN /\ call' = [call EXCEPT ![c] = [Idle EXCEPT !.pc = "open", !.req = r,
                                        !.ident = ident, !.token = token]]
                          /\ UNCHANGED reply
                     ELSE Finish(c, "refused")
                  /\ pending' = AfterCheck(token, answer)
    /\ UNCHANGED <<lease, dev, jobs, latest, ident, issued, runs>>

manage_idp_security_package(c) == Request(c, "idp")
manage_appid_signature_package(c) == Request(c, "appid")
-----------------------------------------------------------------------------
(* The workflow: a session, then for call 2 a second look at the token and  *)
(* the lease, then the pre-flight and the plan.                             *)

Free(c) == lease' = IF lease = c THEN NoCall ELSE lease

\* Call 2 validates the binding again and takes the lease before it looks at
\* the device; a busy lease refuses the call.
\* Mutant: a busy lease is not noticed.
acquire_lease_Shared(c) ==
    LET answer == validate_binding(call[c].token, Binding(c))
    IN  /\ pending' = AfterCheck(call[c].token, answer)
        /\ \/ answer = "ok" /\ call' = Goto(c, "preflight") /\ lease' = c /\ UNCHANGED reply
           \/ answer # "ok" /\ Finish(c, "refused") /\ UNCHANGED lease
acquire_lease(c) ==
    LET answer == validate_binding(call[c].token, Binding(c))
    IN  /\ pending' = AfterCheck(call[c].token, answer)
        /\ \/ answer = "ok" /\ lease = NoCall /\ call' = Goto(c, "preflight") /\ lease' = c /\ UNCHANGED reply
           \/ (answer # "ok" \/ lease # NoCall) /\ Finish(c, "refused") /\ UNCHANGED lease

OpenDevice(c) ==
    /\ call[c].pc = "open"
    /\ \/ Finish(c, "refused") /\ UNCHANGED <<pending, lease>>
       \/ call[c].token = NoToken /\ call' = Goto(c, "preflight") /\ UNCHANGED <<pending, lease, reply>>
       \/ call[c].token # NoToken /\ acquire_lease(c)
    /\ UNCHANGED <<dev, jobs, latest, ident, issued, runs>>

\* License, cluster state, transport or (install and check) the signature server
\* may end the call; the pre-flights of the local verbs read only the device.
\* Mutant: an error path that keeps the lease.
PreflightFails_KeepsLease(c) ==
    /\ Finish(c, "refused")
    /\ UNCHANGED <<lease, pending, issued, runs>>
PreflightFails(c) ==
    /\ Finish(c, "refused") /\ Free(c)
    /\ UNCHANGED <<pending, issued, runs>>

CheckServer(c, said) ==
    /\ Finish(c, IF update_available(check_server(call[c].req.svc, said))
                         THEN "update_available" ELSE "up_to_date")
    /\ UNCHANGED <<pending, lease, issued, runs>>

\* Call 1: show the plan and issue a token for it.
Preview(c, said) ==
    LET plan == PlanFor(call[c].req, said)
        out  == issue(c, plan)
    IN  /\ UNCHANGED <<lease, runs>>
        /\ CASE plan.kind = "already_at_target" ->
                  Finish(c, "already_at_target") /\ UNCHANGED <<pending, issued>>
             [] plan.kind = "error" ->
                  Finish(c, "refused") /\ UNCHANGED <<pending, issued>>
             [] OTHER ->
                  /\ out.ok => Cardinality(issued) < scenario.tokens
                  /\ pending' = out.entries
                  /\ Finish(c, IF out.ok THEN "confirmation_required" ELSE "refused")
                  /\ issued' = IF out.ok
                               THEN issued \cup {[token |-> NewToken, caller |-> call[c].req.caller,
                                                 ident |-> call[c].ident, plan |-> plan]}
                               ELSE issued

\* Call 2, under the lease: rebuild the plan and spend the token on it.  A plan
\* that can no longer be built leaves the token in the store.
Confirm(c, said) ==
    LET plan   == PlanFor(call[c].req, said)
        answer == IF plan.kind = "plan" THEN consume(call[c].token, Binding(c), plan) ELSE plan.kind
    IN  /\ pending' = AfterConsume(call[c].token, answer)
        /\ UNCHANGED issued
        /\ \/ answer # "ok" /\ Finish(c, "refused") /\ Free(c) /\ UNCHANGED runs
           \/ /\ answer = "ok"
              /\ call' = [Goto(c, "start") EXCEPT ![c].plan = plan, ![c].kind = FirstKind(plan.verb),
                                                  ![c].audit = "preflight_passed"]
              /\ runs' = runs \cup {[call |-> c, token |-> call[c].token, caller |-> call[c].req.caller,
                                     ident |-> call[c].ident, plan |-> plan]}
              /\ UNCHANGED <<lease, reply>>

\* The last reply of the pre-flight and what the code does with it, up to the
\* next RPC.
Preflight(c, svc, verbs) ==
    /\ call[c].pc = "preflight" /\ call[c].req.svc = svc /\ call[c].req.verb \in verbs
    /\ \/ PreflightFails(c)
       \/ \E said \in scenario.replies :
            \/ call[c].req.verb = "check" /\ CheckServer(c, said)
            \/ call[c].req.verb # "check" /\ call[c].token = NoToken /\ Preview(c, said)
            \/ call[c].req.verb # "check" /\ call[c].token # NoToken /\ Confirm(c, said)
    /\ UNCHANGED <<dev, jobs, latest, ident>>
preflight(c) == Preflight(c, "idp", {"check", "install"})
appid_preflight(c) == Preflight(c, "appid", {"check", "install"})
preflight_rollback(c) == Preflight(c, "idp", {"rollback"})
preflight_uninstall(c) == Preflight(c, "appid", {"uninstall"})
-----------------------------------------------------------------------------
(* The device: it answers an RPC at once and does the work later.  Work     *)
(* that was accepted goes on whatever becomes of the call that asked for it. *)

SetStatus(svc, kind, text) == [dev EXCEPT ![svc].status[kind] = text]

\* No version is sent with the download: the device fetches what is published.
DeviceAccepts(c, svc, kind) ==
    /\ dev' = SetStatus(svc, kind, {})
    /\ jobs' = jobs \cup {[svc |-> svc, kind |-> kind, token |-> call[c].token, version |-> latest]}

\* What a job that succeeds leaves: a cluster may take a package on one node only.
Installed(d, nodes, texts) ==
    [d EXCEPT !.pkg  = [n \in Nodes |-> IF n \in nodes THEN texts[n] ELSE d.pkg[n]],
              !.back = [n \in Nodes |-> IF n \in nodes THEN d.pkg[n] ELSE d.back[n]]]
DoneBy(j, d, nodes) ==
    CASE j.kind = "download"  -> [d EXCEPT !.staged = j.version]
      [] j.kind = "install"   ->
           Installed(d, nodes, [n \in Nodes |-> [lead |-> d.staged, tail |-> j.svc = "idp"]])
      [] j.kind = "rollback"  -> Installed(d, nodes, d.back)
      [] j.kind = "uninstall" -> Installed(d, nodes, [n \in Nodes |-> Zero])

DeviceEnds(j) ==
    /\ j \in jobs
    /\ jobs' = jobs \ {j}
    /\ \/ \E nodes \in {Nodes, {1}} :
            dev' = [SetStatus(j.svc, j.kind, {"done"}) EXCEPT ![j.svc] =
                      DoneBy(j, SetStatus(j.svc, j.kind, {"done"})[j.svc], nodes)]
       \/ dev' = SetStatus(j.svc, j.kind, IF j.svc = "idp" THEN {"done", "failed"} ELSE {"failed"})
    /\ UNCHANGED <<pending, lease, call, reply, latest, ident, issued, runs>>
-----------------------------------------------------------------------------
(* The destructive pipelines, run under the lease.                          *)

\* The last audit line of a run.  The install pipeline writes "failed" for every
\* error; the other two write it only where their code does.
audit_phase(c, phase) == [call EXCEPT ![c].audit = phase]
FailAudited(c, e) == Respond(c, e, "failed", Nothing) /\ Free(c)

\* Send one RPC: no session, a reply, or an accepted request whose reply is lost.
Fire(c, svc, kind, noSession) ==
    /\ call[c].pc = "start" /\ call[c].req.svc = svc /\ call[c].kind = kind
    /\ \/ noSession /\ UNCHANGED <<dev, jobs>>
       \/ DeviceAccepts(c, svc, kind) /\ call' = Goto(c, "poll") /\ UNCHANGED <<lease, reply>>
       \/ DeviceAccepts(c, svc, kind) /\ FailAudited(c, "failed")
    /\ UNCHANGED <<pending, latest, ident, issued, runs>>

download_and_poll(c) == Fire(c, "idp", "download", FailAudited(c, "failed"))
install_and_poll(c) == Fire(c, "idp", "install", FailAudited(c, "failed"))
appid_download_and_poll(c) == Fire(c, "appid", "download", FailAudited(c, "failed"))
appid_install_and_poll(c) == Fire(c, "appid", "install", FailAudited(c, "failed"))
\* A session that cannot be opened ends an uninstall without an audit line.
uninstall_rpc(c) == Fire(c, "appid", "uninstall", Finish(c, "failed") /\ Free(c))

\* The install pipeline goes on with the install RPC, every other one verifies.
run_destructive(c) ==
    IF call[c].kind = "download"
    THEN [audit_phase(c, "download_complete") EXCEPT ![c].pc = "start", ![c].kind = "install"]
    ELSE [audit_phase(c, "install_complete") EXCEPT ![c].pc = "verify"]
run_install_destructive(c) == run_destructive(c)
run_uninstall_destructive(c) == [audit_phase(c, "install_complete") EXCEPT ![c].pc = "verify"]

AfterPoll(c) ==
    CASE call[c].kind = "uninstall"                       -> run_uninstall_destructive(c)
      [] call[c].kind # "uninstall" /\ call[c].req.svc = "idp" -> run_destructive(c)
      [] OTHER                                            -> run_install_destructive(c)

\* A device failure, a deadline and a lost session are different codes, all of
\* which leave the outcome on the device open.
convert_poll_failure(c) == FailAudited(c, "failed")
appid_convert_poll_failure(c) == FailAudited(c, "failed")
PollFailed(c) ==
    IF call[c].req.svc = "idp" THEN convert_poll_failure(c) ELSE appid_convert_poll_failure(c)

\* One probe.  A pending answer leaves the loop where it is; the budget may run
\* out before the probe or before the next sleep, whatever the device says.
PollStatus(c, svc) ==
    LET kind == call[c].kind
        answer == AsyncStatus(svc, dev[svc].status[kind])
    IN  /\ call[c].pc = "poll" /\ call[c].req.svc = svc /\ kind # "rollback"
        /\ \/ answer = "done" /\ call' = AfterPoll(c) /\ UNCHANGED <<lease, reply>>
           \/ PollFailed(c)
        /\ UNCHANGED <<pending, dev, jobs, latest, ident, issued, runs>>
poll_status(c) == PollStatus(c, "idp")
appid_poll_status(c) == PollStatus(c, "appid")

\* The rollback RPC is refused at once when a node keeps no backup; otherwise
\* the device works on it and the code verifies without polling.
rollback_rpc(c) ==
    /\ call[c].pc = "start" /\ call[c].kind = "rollback"
    /\ \/ Finish(c, "failed") /\ Free(c) /\ UNCHANGED <<dev, jobs>>
       \/ FailAudited(c, "failed") /\ UNCHANGED <<dev, jobs>>
       \/ DeviceAccepts(c, "idp", "rollback") /\ FailAudited(c, "failed")
       \/ /\ DeviceAccepts(c, "idp", "rollback")
          /\ call' = [audit_phase(c, "install_complete") EXCEPT ![c].pc = "verify"]
          /\ UNCHANGED <<lease, reply>>
    /\ UNCHANGED <<pending, latest, ident, issued, runs>>

\* Every node the reply lists must report the target's number; one it does not list is
\* not missed.
\* Mutant: only the first node is looked at.
verify_installed_version_FirstNode(svc, target, said) ==
    LET first == CHOOSE n \in said.told : \A m \in said.told : n <= m
    IN  /\ NodesOf(svc, said)[first].cur # None
        /\ leading_version_number(NodesOf(svc, said)[first].cur) = leading_version_number(target)
verify_installed_version(svc, target, said) ==
    \A n \in DOMAIN NodesOf(svc, said) :
        /\ NodesOf(svc, said)[n].cur # None
        /\ leading_version_number(NodesOf(svc, said)[n].cur) = leading_version_number(target)
appid_verify_installed_version(target, said) == verify_installed_version("appid", target, said)
\* After an uninstall no node the reply lists may report a version.
verify_uninstalled(said) == Current(NodesOf("appid", said)) = None

Verified(c, said) ==
    CASE call[c].plan.verb = "uninstall" -> verify_uninstalled(said)
      [] call[c].plan.verb # "uninstall" /\ call[c].req.svc = "idp" ->
           verify_installed_version("idp", call[c].plan.target, said)
      [] OTHER -> appid_verify_installed_version(call[c].plan.target, said)

\* Read the versions back and give the verdict.
Verify(c) ==
    /\ call[c].pc = "verify"
    /\ \/ \E said \in scenario.replies : /\ Verified(c, said)
                                         /\ Respond(c, "completed", "verified", said) /\ Free(c)
       \/ \E said \in scenario.replies : /\ ~Verified(c, said)
                                         /\ Respond(c, "verification_failed", "failed", said) /\ Free(c)
       \/ call[c].kind = "uninstall" /\ Finish(c, "failed") /\ Free(c)
       \/ call[c].kind # "uninstall" /\ FailAudited(c, "failed")
    /\ UNCHANGED <<pending, dev, jobs, latest, ident, issued, runs>>
-----------------------------------------------------------------------------
(* The world around the server *)

ExpireToken(t) ==
    /\ t \in Live
    /\ pending' = [pending EXCEPT ![t].expired = TRUE]
    /\ UNCHANGED <<lease, call, reply, dev, jobs, latest, ident, issued, runs>>

Publish ==
    /\ latest < MaxVersion
    /\ latest' = latest + 1
    /\ UNCHANGED <<pending, lease, call, reply, dev, jobs, ident, issued, runs>>

\* An inventory reload may point the router's name at another device.
ReIdentify ==
    /\ ident < scenario.reloads /\ ident' = ident + 1
    /\ UNCHANGED <<pending, lease, call, reply, dev, jobs, latest, issued, runs>>

\* Tokens live in memory and the kernel drops the lease with the process.
Crash ==
    /\ pending' = [t \in {} |-> None]
    /\ lease' = NoCall
    /\ call' = [c \in Calls |-> Idle] /\ reply' = NoReply
    /\ UNCHANGED <<dev, jobs, latest, ident, issued, runs>>
-----------------------------------------------------------------------------
InitialDevice(pkg, back) ==
    [pkg |-> [n \in Nodes |-> pkg], back |-> [n \in Nodes |-> back], staged |-> 0,
     status |-> [k \in {"download", "install", "rollback", "uninstall"} |-> {}]]

Init ==
    /\ pending = [t \in {} |-> None]
    /\ lease = NoCall /\ reply = NoReply
    /\ call = [c \in Calls |-> Idle]
    /\ \E back \in {NotAvailable, [lead |-> MaxVersion, tail |-> TRUE]} :
         dev = [svc \in Services |->
                  IF svc = "idp" THEN InitialDevice([lead |-> 1, tail |-> TRUE], back)
                  ELSE InitialDevice([lead |-> 1, tail |-> FALSE], NotAvailable)]
    /\ jobs = {}
    /\ scenario \in Scenarios /\ latest = scenario.latest
    /\ ident = 0
    /\ issued = {} /\ runs = {}

CallStep(c) ==
    \/ OpenDevice(c)
    \/ preflight(c) \/ appid_preflight(c) \/ preflight_rollback(c) \/ preflight_uninstall(c)
    \/ download_and_poll(c) \/ install_and_poll(c)
    \/ appid_download_and_poll(c) \/ appid_install_and_poll(c)
    \/ uninstall_rpc(c) \/ rollback_rpc(c)
    \/ poll_status(c) \/ appid_poll_status(c) \/ Verify(c)

Next ==
    \/ \E c \in Calls : \/ manage_idp_security_package(c) \/ manage_appid_signature_package(c)
                        \/ CallStep(c)
    \/ \E j \in jobs : DeviceEnds(j)
    \/ \E t \in Live : ExpireToken(t)
    \/ Publish \/ ReIdentify \/ Crash

Spec == Init /\ [][Next /\ UNCHANGED scenario]_sigVars
\* A call in progress keeps being polled by the runtime, and every wait in it is
\* bounded by a deadline, so its steps are weakly fair; the device promises nothing.
FairSpec == Spec /\ \A c \in Calls : WF_sigVars(CallStep(c) /\ UNCHANGED scenario)
-----------------------------------------------------------------------------
Running(c) == \/ call[c].pc \in {"start", "poll", "verify"}
              \/ call[c].pc = "preflight" /\ call[c].token # NoToken

\* Type invariant.
TypeOK ==
    /\ \A t \in DOMAIN pending : pending[t].caller \in Callers /\ pending[t].expired \in BOOLEAN
    /\ DOMAIN pending \subseteq {i.token : i \in issued}
    /\ lease \in Calls \cup {NoCall}
    /\ \A c \in Calls : call[c].pc \in {"idle", "open", "preflight", "start", "poll", "verify"}
    /\ \A j \in jobs : j.token \in 1..scenario.tokens /\ j.svc \in Services

\* A destructive run spends a token that a preview issued to the same caller,
\* for the same device identity and for exactly the plan that is about to run,
\* no two runs spend one token, and a token that was spent is not in the store to be
\* spent again (ConfirmationStore::consume, whatever expires, is re-identified or
\* restarted in between).
RunsWerePreviewed ==
    /\ \A r \in runs : \E i \in issued :
         i.token = r.token /\ i.caller = r.caller /\ i.ident = r.ident /\ i.plan = r.plan
    /\ \A r, q \in runs : r.token = q.token => r = q
    /\ \A r \in runs : r.token \notin DOMAIN pending

\* Under a call's lease only that call's own requests change the installed
\* packages; the one exception is work a run gave up waiting for.
OnlyTheHolderInstalls ==
    [][\A j \in jobs \ jobs', c, d \in Calls :
         (Running(c) /\ d # c /\ call[d].token = j.token) => ~Running(d)]_sigVars

\* The nodes the read-back lists are where the plan would have them.
AtPlan(plan, d, said) ==
    /\ plan.verb # "uninstall" => said.unsaid = {}
    /\ \A n \in said.told \ said.unsaid :
         IF plan.verb = "uninstall" THEN d.pkg[n] \in {NotAvailable, Zero}
         ELSE d.pkg[n].lead = plan.target.lead

\* "completed" is only said when every node the device then reports on really runs what the
\* preview of the spent token announced, a node reported without a version counting only as
\* one an uninstall emptied, and "verification_failed" only when that is not so
\* (verify_installed_version).  A node the reply does not list is not looked at.
VerdictMatchesPreview ==
    [][\A c \in Calls : \A i \in issued :
         (/\ call[c].pc = "verify" /\ i.token = call[c].token
          /\ call'[c].pc = "idle") =>
            /\ reply'.res = "completed" =>
                 reply'.said.told # {} /\ AtPlan(i.plan, dev[call[c].req.svc], reply'.said)
            /\ reply'.res = "verification_failed" =>
                 ~AtPlan(i.plan, dev[call[c].req.svc], reply'.said)]_sigVars

\* A call that takes the lease gives it back and returns.
LeaseIsReturned == \A c \in Calls : (lease = c) ~> (lease # c)

\* What the tool's description says of a pinned version: a completed download
\* stages the version the plan names.
PinnedVersionIsDownloaded ==
    [][\A c \in Calls :
         (call[c].pc = "poll" /\ call[c].kind = "download" /\ call'[c].kind = "install")
            => dev[call[c].req.svc].staged = call[c].plan.target.lead]_sigVars
=============================================================================
