CONSTANTS
    r1 = r1
    r2 = r2
    r3 = r3
    show = show
    reboot = reboot
    piped = piped
    odd = odd
    ip1 = ip1
    ip2 = ip2
    a1 = a1
    a2 = a2
    Routers = {r1, r2, r3}
    Commands = {show, reboot, piped, odd}
    PipesOf <- MCPipesOf
    Unprintable = {odd}
    Addresses = {ip1, ip2}
    NoAddr = NoAddr
    Files = {"main", "alt"}
    StartFile = "main"
    Outside = "outside"
    Admins = {a1, a2}
    Free = Free
    NoContent = NoContent
    MaxEdits = 1
    MaxAdminCalls = 2
    Calls = {c1}
    Initial <- C1
    Scenarios <- MCScenarios
SPECIFICATION Spec
CHECK_DEADLOCK FALSE
INVARIANTS
    PolicyMatchesInventory
    RulesInForceApply
    NoLostUpdate
    SessionsFollowInventory
    BatchAnswersForEachDevice
