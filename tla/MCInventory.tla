---------------------------- MODULE MCInventory ----------------------------
EXTENDS CommandCalls, TLC

CONSTANTS r1, r2, r3, show, reboot, piped, odd, ip1, ip2, a1, a2

MCPipesOf == [cmd \in Commands |-> IF cmd = piped THEN {"match"} ELSE {}]
Content(devices, mode, defaults, ok) ==
    [devices |-> devices, mode |-> mode, defaults |-> defaults,
     parses |-> ok # "broken", valid |-> ok # "malformed", compiles |-> ok # "glob",
     extensible |-> ok # "array"]
At(ip, rules) == [ip |-> ip, rules |-> rules]
Gone == At(NoAddr, NoRules)

\* r1 alone; an allowlist with a carve-out and a pipe.
Carved == [NoRules EXCEPT !.allow = {{show, reboot, piped, odd}}, !.allowed_pipes = {"match"},
                          !.commands = {Deny({reboot}, 9)}, !.pfe_allow = {{show}}]
C1 == Content([r \in Routers |-> IF r = r1 THEN At(ip1, NoRules) ELSE Gone],
              "allowlist", Carved, "ok")
\* r1 at another address, r2 with a rule of its own that lifts a default one;
\* the mode is derived: a blocklist.
C2 == Content([r \in Routers |->
                 IF r = r1 THEN At(ip2, NoRules)
                 ELSE IF r = r3 THEN Gone
                 ELSE At(ip1, [NoRules EXCEPT !.commands = {Allow({reboot}, 9)}])],
              "unset", [NoRules EXCEPT !.commands = {Deny({reboot, show}, 3)}], "ok")
\* Files a reload must refuse, and one add_device cannot extend.
Bad(ok) == Content(C2.devices, "unset", NoRules, ok)
Empty == Content([r \in Routers |-> Gone], "unset", NoRules, "ok")

Add(r) == [name |-> r, ip |-> ip2]

Req(tool, devices, cmds, permits, timeout) ==
    [tool |-> tool, devices |-> devices, commands |-> cmds, permits |-> permits,
     timeout |-> timeout]
Scenario(admins, ro, saves, devices, requests, backlog) ==
    [admins |-> admins, readonly |-> ro, edits |-> saves, devices |-> devices,
     requests |-> requests, backlog |-> backlog]
\* Two reloads or additions at once, with every kind of file; each request of one
\* command against one of them, and its next call while the session of the last
\* is still on its way back; and the batches.
MCScenarios ==
    {Scenario({a1}, TRUE, {C2}, {Add(r2)}, {}, 0),
     Scenario({a1, a2}, FALSE, {C2, Bad("glob"), Bad("array"), Bad("broken"), Empty},
              {Add(r2), Add(r3)}, {}, 0)}
    \cup {Scenario({a1}, FALSE, {C2}, {Add(r2)}, {req}, 1) : req \in
          {Req("execute_junos_command", <<r1>>, <<cmd>>, 1, FALSE) : cmd \in {reboot, piped, odd}}
          \cup {Req("execute_junos_pfe_command", <<r1>>, <<show>>, 1, TRUE),
                Req("get_junos_config", <<r2>>, <<show>>, 1, FALSE),
                Req("gather_device_facts", <<r2>>, <<show>>, 1, FALSE)}}
    \cup {Scenario({a1}, FALSE, {C2}, {}, {req}, 0) : req \in
          {Req("execute_junos_command_batch", <<r1, r2>>, <<show>>, 1, TRUE),
           Req("execute_junos_command_batch", <<r2, r1>>, <<reboot>>, 2, FALSE),
           Req("execute_junos_command_batch", <<r1, r1>>, <<show>>, 2, FALSE),
           Req("execute_junos_command_batch", <<r1>>, <<show, show>>, 1, FALSE),
           Req("execute_junos_command_batch", <<>>, <<show>>, 1, FALSE)}}
=============================================================================
