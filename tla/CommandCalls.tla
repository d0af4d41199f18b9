---------------------------- MODULE CommandCalls ----------------------------
(***************************************************************************)
(* The tools that run commands on devices, and the batch that runs several  *)
(* commands on several devices (execute_command.rs, pfe.rs, get_config.rs,  *)
(* facts.rs, config_diff.rs, batch.rs), against an inventory that is being  *)
(* reloaded.                                                                *)
(*                                                                         *)
(* A handler snapshots the policy, then the inventory, checks, and opens a  *)
(* session: the pool first, which does not look at the inventory, else a    *)
(* connection to the address the inventory gives at that moment.  A batch   *)
(* spawns one task per device; a semaphore bounds the running ones and an   *)
(* optional timeout drops the rest.  A session that is dropped is given back*)
(* by a task of its own, at any later moment.                               *)
(***************************************************************************)
EXTENDS Inventory

CONSTANTS
    Calls,          \* concurrent tool calls
    Initial,        \* the content every file starts with
    Scenarios       \* what happens together: [admins, readonly, edits,
                    \* devices, requests, backlog], backlog bounding the returns
                    \* of one session under way when a call begins;
                    \* a request is [tool, devices, commands, permits, timeout]

\* A batch names any number of devices and commands, the other tools one of each.
BatchTool == "execute_junos_command_batch"
ToolRequests ==
    {req \in [tool : {"execute_junos_command", "execute_junos_pfe_command", "get_junos_config",
                      "gather_device_facts", "junos_config_diff", BatchTool},
              devices : Seq(Routers), commands : Seq(Commands), permits : Nat,
              timeout : BOOLEAN] :
        req.tool = BatchTool \/ (Len(req.devices) = 1 /\ Len(req.commands) = 1)}

ASSUME InitialAssumption == Initial \in Contents
ASSUME ScenariosAssumption ==
    \A s \in Scenarios : /\ s.admins \subseteq Admins /\ s.edits \subseteq Contents
                         /\ s.devices \subseteq NewDevices /\ s.requests \subseteq ToolRequests
                         /\ s.backlog \in Nat

VARIABLES
    call,       \* each call: its request, policy snapshot, results and reply
    task,       \* the task of each device index of each call
    returning,  \* how many sessions <<name, address>> a spawned return_session has
    scenario,   \* the scenario of this behaviour
    ran         \* history: the commands sent, as <<call, index, command index>>

callVars == <<call, task, returning, scenario, ran>>
vars == <<inventoryVars, callVars>>

NoCall == [pc |-> "idle"]
NewTask(pc) == [pc |-> pc, to |-> NoAddr, retried |-> FALSE, outs |-> <<>>]

\* Each tool: the domain its command is checked in (facts and diffs send no
\* command of the caller's), and whether a stale session is retried once.
execute_junos_command     == [domain |-> "commands", retries |-> TRUE]
execute_junos_pfe_command == [domain |-> "pfe_commands", retries |-> FALSE]
get_junos_config          == [domain |-> "commands", retries |-> FALSE]
gather_device_facts       == [domain |-> "none", retries |-> FALSE]
junos_config_diff         == [domain |-> "none", retries |-> FALSE]
Tool(name) == CASE name = "execute_junos_command"     -> execute_junos_command
                [] name = "execute_junos_pfe_command" -> execute_junos_pfe_command
                [] name = "get_junos_config"          -> get_junos_config
                [] name = "gather_device_facts"       -> gather_device_facts
                [] name = "junos_config_diff"         -> junos_config_diff
                [] OTHER -> [domain |-> "commands", retries |-> FALSE]
Domain(name) == Tool(name).domain
IsBatch(c) == call[c].req.tool = BatchTool
Router(c, i) == call[c].req.devices[i]
Indices(c) == DOMAIN call[c].req.devices

\* A session of a name leads to the address the inventory gave when it was opened.
Sessions == Routers \X (Addresses \cup {NoAddr})
SessionOf(c, i) == <<Router(c, i), task[c][i].to>>

\* The sessions that are in no slot of the pool: being opened, in use, or with
\* the task that gives them back.
Out ==
    {s \in Sessions :
        \/ returning[s] > 0
        \/ \E c \in Calls : call[c].pc = "running" /\
              \E i \in Indices(c) : task[c][i].pc \in {"connecting", "cli"} /\ SessionOf(c, i) = s}

\* The contents in force: two of them between the swap of the inventory and
\* the swap of the policy.
InForce ==
    {mgr.inventory} \cup
    {admin[a].prev : a \in {b \in Admins : admin[b].pc = "policy"}}

Failed(c, i, why) == [k \in DOMAIN call[c].req.commands |-> why]

Reply(c, answer) == call' = [call EXCEPT ![c] = [pc |-> "replied", req |-> call[c].req,
                                                 seen |-> {}, answer |-> answer]]
Refuse(c, why) == Reply(c, [kind |-> "error", why |-> why])
-----------------------------------------------------------------------------
CallsInit ==
    /\ call = [c \in Calls |-> NoCall]
    /\ task = [c \in Calls |-> <<>>]
    /\ returning = [s \in Sessions |-> 0]
    /\ scenario \in Scenarios
    /\ ran = {}

\* The server's handler loads the policy and calls the tool.
LoadPolicy(c, req) ==
    /\ call[c].pc = "idle" /\ \A s \in Sessions : returning[s] <= scenario.backlog
    /\ call' = [call EXCEPT ![c] = [pc |-> "check", req |-> req, policy |-> policy,
                                    seen |-> InForce, answer |-> [kind |-> "none"]]]
    /\ UNCHANGED <<inventoryVars, task, returning, scenario, ran>>

\* The limits handle_with_runner puts on a batch, scaled to MaxDevices and
\* MaxCommands by the requests tried.
BatchRefused(req) ==
    \/ Len(req.devices) = 0 \/ Len(req.commands) = 0 \/ req.permits = 0
    \/ Len(req.devices) > 100 \/ Len(req.commands) > 50

\* A batch answers for the unknown devices and goes on with the others; one
\* denied pair of a known device and a command refuses the whole batch.
CheckBatch(c) ==
    LET req   == call[c].req
        valid == {i \in Indices(c) : req.devices[i] \in Names(mgr.inventory)}
        denied == \E i \in valid, k \in DOMAIN req.commands :
                     ~check_command(call[c].policy, "commands", req.devices[i], req.commands[k])
    IN /\ call[c].pc = "check" /\ IsBatch(c)
       /\ IF BatchRefused(req) \/ denied
          THEN Refuse(c, IF denied THEN "denied" ELSE "invalid") /\ UNCHANGED task
          ELSE /\ call' = [call EXCEPT ![c].pc = "running"]
               /\ task' = [task EXCEPT ![c] = [i \in Indices(c) |->
                     IF i \in valid THEN NewTask("queued")
                     ELSE [NewTask("done") EXCEPT !.outs = Failed(c, i, "unknown")]]]
       /\ UNCHANGED <<inventoryVars, returning, scenario, ran>>

\* The single-device tools: unknown device, then the policy, then the session.
CheckSingle(c) ==
    LET req == call[c].req
        r   == req.devices[1]
        domain == Domain(req.tool)
    IN /\ call[c].pc = "check" /\ ~IsBatch(c)
       /\ CASE domain # "none" /\ r \notin Names(mgr.inventory) ->
                 Refuse(c, "unknown") /\ UNCHANGED task
            [] domain # "none" /\ r \in Names(mgr.inventory)
               /\ ~check_command(call[c].policy, domain, r, req.commands[1]) ->
                 Refuse(c, "denied") /\ UNCHANGED task
            [] OTHER -> /\ call' = [call EXCEPT ![c].pc = "running"]
                        /\ task' = [task EXCEPT ![c] = <<NewTask("open")>>]
       /\ UNCHANGED <<inventoryVars, returning, scenario, ran>>

-----------------------------------------------------------------------------
SetTask(c, i, t) == task' = [task EXCEPT ![c][i] = t]

\* permits.acquire_owned
Running(c) == {i \in Indices(c) : task[c][i].pc \in {"open", "connecting", "cli"}}
Acquire(c, i) ==
    /\ call[c].pc = "running" /\ task[c][i].pc = "queued"
    /\ Cardinality(Running(c)) < call[c].req.permits
    /\ SetTask(c, i, [task[c][i] EXCEPT !.pc = "open"])
    /\ UNCHANGED <<inventoryVars, call, returning, scenario, ran>>

KeepInventory == UNCHANGED <<disk, mgr, policy, lock, admin, readonly, want, raced,
                             carried, edits, adminCalls>>

\* Drop for PooledDevice: each session given up is handed to a spawned task.
SpawnReturns(sessionsOf) == returning' = [s \in Sessions |-> returning[s] + sessionsOf[s]]

\* SessionPool::return_session, some time later and whatever the inventory says by
\* then: a session seen dead is closed, any other takes the slot of its name and
\* the one it displaces is closed.
ReturnSession(s) ==
    /\ returning[s] > 0
    /\ returning' = [returning EXCEPT ![s] = @ - 1]
    /\ \/ pool' = [pool EXCEPT ![s[1]] = s[2]]
       \/ UNCHANGED pool
    /\ KeepInventory /\ UNCHANGED <<call, task, scenario, ran>>

\* DeviceManager::open: a live pooled session, whatever the inventory says.
OpenPooled(c, i) ==
    LET r == Router(c, i)
    IN /\ call[c].pc = "running" /\ task[c][i].pc = "open"
       /\ pool[r] # NoAddr /\ ~task[c][i].retried
       /\ SetTask(c, i, [task[c][i] EXCEPT !.pc = "cli", !.to = pool[r]])
       /\ pool' = [pool EXCEPT ![r] = NoAddr]
       /\ KeepInventory /\ UNCHANGED <<call, returning, scenario, ran>>

\* connect_fresh copies the entry and connects.  A pooled session that was not
\* alive has been dropped by try_checkout, any other by open_fresh.
OpenFresh(c, i) ==
    LET r == Router(c, i)
    IN /\ call[c].pc = "running" /\ task[c][i].pc = "open"
       /\ pool' = [pool EXCEPT ![r] = NoAddr]
       /\ SetTask(c, i,
            IF r \in Names(mgr.inventory)
            THEN [task[c][i] EXCEPT !.pc = "connecting", !.to = mgr.inventory.devices[r].ip]
            ELSE [task[c][i] EXCEPT !.pc = "done", !.outs = Failed(c, i, "unknown")])
       /\ KeepInventory /\ UNCHANGED <<call, returning, scenario, ran>>

Connect(c, i) ==
    /\ call[c].pc = "running" /\ task[c][i].pc = "connecting"
    /\ \/ SetTask(c, i, [task[c][i] EXCEPT !.pc = "cli"])
       \/ SetTask(c, i, [task[c][i] EXCEPT !.pc = "done", !.outs = Failed(c, i, "connect")])
    /\ UNCHANGED <<inventoryVars, call, returning, scenario, ran>>

\* One command of run_device, or the one command of a single-device tool.  A
\* batch goes on with the next command after an error or a command timeout (an error here);
\* execute_junos_command alone retries once, on a fresh session (run_cli), after it
\* dropped the first, which goes to be returned like any other.
Cli(c, i, outcome) ==
    LET t    == task[c][i]
        outs == Append(t.outs, outcome)
        last == Len(outs) = Len(call[c].req.commands)
    IN /\ call[c].pc = "running" /\ t.pc = "cli"
       /\ ran' = ran \cup {[c |-> c, i |-> i, k |-> Len(outs)]}
       /\ IF outcome = "transient" /\ Tool(call[c].req.tool).retries /\ ~t.retried
          THEN /\ SetTask(c, i, [t EXCEPT !.pc = "open", !.to = NoAddr, !.retried = TRUE])
               /\ SpawnReturns([s \in Sessions |-> IF s = SessionOf(c, i) THEN 1 ELSE 0])
          ELSE IF last
          THEN /\ SetTask(c, i, [t EXCEPT !.pc = "done", !.to = NoAddr, !.outs = outs])
               /\ SpawnReturns([s \in Sessions |-> IF s = SessionOf(c, i) THEN 1 ELSE 0])
          ELSE SetTask(c, i, [t EXCEPT !.outs = outs]) /\ UNCHANGED returning
       /\ KeepInventory /\ UNCHANGED <<pool, call, scenario>>

\* Mutant: results are numbered in the order the tasks finish.
Collect_ByCompletion(c) ==
    /\ call[c].pc = "running" /\ \A i \in Indices(c) : task[c][i].pc = "done"
    /\ Reply(c, [kind |-> "results",
                 results |-> [i \in Indices(c) |-> task[c][Len(call[c].req.devices) + 1 - i].outs]])
    /\ task' = [task EXCEPT ![c] = <<>>]
    /\ UNCHANGED <<inventoryVars, returning, scenario, ran>>

\* Every task is joined: the results in the order of the devices.
Collect(c) ==
    /\ call[c].pc = "running" /\ \A i \in Indices(c) : task[c][i].pc = "done"
    /\ Reply(c, [kind |-> "results", results |-> [i \in Indices(c) |-> task[c][i].outs]])
    /\ task' = [task EXCEPT ![c] = <<>>]
    /\ UNCHANGED <<inventoryVars, returning, scenario, ran>>

\* The batch timeout, or a single tool's own: the tasks are dropped where they
\* are, their guards hand the sessions to be returned, and the devices without a
\* result are reported as timed out.
Timeout(c) ==
    LET open == {i \in Indices(c) : task[c][i].pc = "cli"}
    IN /\ call[c].pc = "running" /\ call[c].req.timeout
       /\ \E i \in Indices(c) : task[c][i].pc # "done"
       /\ SpawnReturns([s \in Sessions |-> Cardinality({i \in open : SessionOf(c, i) = s})])
       /\ UNCHANGED pool
       /\ Reply(c, IF IsBatch(c)
                   THEN [kind |-> "results",
                         results |-> [i \in Indices(c) |->
                            IF task[c][i].pc = "done" THEN task[c][i].outs
                            ELSE Failed(c, i, "batch timeout")]]
                   ELSE [kind |-> "error", why |-> "timeout"])
       /\ task' = [task EXCEPT ![c] = <<>>]
       /\ KeepInventory /\ UNCHANGED <<scenario, ran>>

\* The caller reads the answer; the slot serves the next call.
Leave(c) ==
    /\ call[c].pc = "replied"
    /\ call' = [call EXCEPT ![c] = NoCall]
    /\ ran' = {x \in ran : x.c # c}
    /\ UNCHANGED <<inventoryVars, task, returning, scenario>>

CrashAll ==
    /\ Crash
    /\ call' = [c \in Calls |-> NoCall] /\ task' = [c \in Calls |-> <<>>] /\ ran' = {}
    /\ returning' = [s \in Sessions |-> 0]
    /\ UNCHANGED scenario

Init == CallsInit /\ InventoryInit([f \in Files |-> Initial], scenario.readonly)
Next ==
    \/ AdminNext(scenario.admins, scenario.edits, scenario.devices, Out) /\ UNCHANGED callVars
    \/ CrashAll
    \/ \E s \in Sessions : ReturnSession(s)
    \/ \E c \in Calls :
          \/ \E req \in scenario.requests : LoadPolicy(c, req)
          \/ CheckBatch(c) \/ CheckSingle(c) \/ Collect(c) \/ Timeout(c) \/ Leave(c)
          \/ \E i \in DOMAIN task[c] :
               \/ Acquire(c, i) \/ OpenPooled(c, i) \/ OpenFresh(c, i) \/ Connect(c, i)
               \/ \E outcome \in {"ok", "error", "transient"} : Cli(c, i, outcome)
Spec == Init /\ [][Next]_vars

-----------------------------------------------------------------------------
TypeOK ==
    /\ lock \in Admins \cup {Free}
    /\ lock # Free =>
          admin[lock].pc \in {"hash", "store", "policy", "invalidate", "read", "persist"}
    /\ \A c \in Calls : call[c].pc \in {"idle", "check", "running", "replied"}
    /\ \A c \in Calls : task[c] # <<>> <=> call[c].pc = "running"
    /\ carried \subseteq Sessions

\* Whenever no reload or addition is under way, the policy in force is the one
\* built from the inventory in memory: the two ArcSwaps are stored one after
\* the other, and every error path leaves both alone.
PolicyMatchesInventory == lock = Free => policy = Build(mgr.inventory)

\* A command is sent only under rules that were in force when its handler
\* began: all pairs of a call are permitted by one file content, as the
\* documentation reads it, that was in force then.
RulesInForceApply ==
    \A c \in Calls : call[c].pc = "running" /\ Domain(call[c].req.tool) # "none" =>
        \E content \in call[c].seen :
            \A x \in {y \in ran : y.c = c} :
                Permitted(content, Domain(call[c].req.tool), Router(c, x.i),
                          call[c].req.commands[x.k])

\* Unless an editor saved the file during an addition, every file holds every
\* change that was acknowledged: additions serialise on the write lock, a file
\* that drifted is never overwritten, and a crash leaves a whole file.
NoLostUpdate == "add_device" \in raced \/ disk = want

\* Outside a reload, an idle session leads to the address its name has in the
\* inventory. The exceptions are the ones invalidate cannot see, and no others: a
\* session that was being opened, in use or on its way back to the pool when its
\* name was invalidated, and any after an editor saved a file under a reload or an
\* addition.
SessionsFollowInventory ==
    lock = Free /\ raced = {} =>
        \A r \in Routers :
            pool[r] \in {NoAddr, mgr.inventory.devices[r].ip} \/ <<r, pool[r]>> \in carried

\* A finished batch has one outcome per device and command, in the request's
\* order, and a command is reported as run only if this call ran it there.
BatchAnswersForEachDevice ==
    \A c \in Calls : call[c].pc = "replied" /\ call[c].answer.kind = "results" =>
        \A i \in Indices(c) :
            LET outs == call[c].answer.results[i]
            IN /\ Len(outs) = Len(call[c].req.commands)
               /\ \A k \in DOMAIN outs : outs[k] = "ok" =>
                    \E x \in ran : x.c = c /\ x.i = i /\ x.k = k

\* The promise of invalidate_pool: the next open of a changed or removed
\* device makes a fresh connection.
NextOpenIsFresh ==
    lock = Free =>
        \A r \in Routers : pool[r] = NoAddr \/ pool[r] = mgr.inventory.devices[r].ip

=============================================================================
