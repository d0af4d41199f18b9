----------------------------- MODULE MCServer -----------------------------
(* Instances of McpServer for TLC. *)
EXTENDS McpServer
CONSTANTS d1, d2

Grant(all, tools, devs) == [all |-> all, tools |-> tools, devices |-> devs]

\* A wildcard that may use the facade, an operator with named write tools on one router,
\* and a facade user without any other write tool.
SomeGrants ==
    {Grant(TRUE, {"execute"}, {d1}),
     Grant(FALSE, WRITE_TOOLS \ {"execute"}, {d1, d2}),
     Grant(FALSE, KNOWN_TOOLS, {d2})}

Config(auth, preflight, direct, readonly) ==
    [auth |-> auth, preflight |-> preflight, direct |-> direct, readonly |-> readonly]
SomeConfigs ==
    {Config(TRUE, TRUE, FALSE, FALSE), Config(TRUE, FALSE, TRUE, TRUE),
     Config(TRUE, FALSE, FALSE, FALSE), Config(FALSE, FALSE, FALSE, FALSE)}
=============================================================================
