----------------------------- MODULE Inventory -----------------------------
(***************************************************************************)
(* The device inventory: the file on disk, the copy in memory, the policy   *)
(* built from it, and the pooled sessions opened with its addresses         *)
(* (inventory.rs, reload_devices.rs, add_device.rs, device_manager.rs).     *)
(*                                                                         *)
(* reload_devices, SIGHUP and add_device serialise on one write lock.  The  *)
(* calls that run commands take no lock: CommandCalls reads the copies      *)
(* between any two of the steps below.                                      *)
(***************************************************************************)
EXTENDS CommandPolicy, Sequences

CONSTANTS
    Files,          \* the inventory files of the inventory directory
    StartFile,      \* --device-mapping
    Outside,        \* a name with "..", an absolute path, a link out, no file
    Admins,         \* the concurrent reloads and additions
    Free,           \* the write lock's value when nobody holds it
    NoContent,      \* no content read yet
    MaxEdits,       \* bound on the operator's edits
    MaxAdminCalls   \* bound on the reloads and additions

ASSUME LockAssumption == Free \notin Admins
ASSUME FilesAssumption == StartFile \in Files

VARIABLES
    disk,       \* the content of each file; it also stands for its SHA-256
    mgr,        \* DeviceManager: inventory, inventory_path, inventory_hash
    policy,     \* the policy in force
    lock,       \* inventory_write_lock
    admin,      \* the reloads and additions in progress
    pool,       \* the address of the idle session of each name
    readonly,   \* --inventory-readonly
    want,       \* history: each file with every acknowledged change, none undone
    raced,      \* history: the operations during which an editor saved a file
    carried,    \* history: <<name, address>> of the sessions out of the pool when
                \* their name was invalidated
    edits,      \* bound counters
    adminCalls

\* The additions asked for.
NewDevices == [name : Routers, ip : Addresses]

inventoryVars == <<disk, mgr, policy, lock, admin, pool, readonly,
                   want, raced, carried, edits, adminCalls>>

AdminIdle == [pc |-> "idle", op |-> "none", file |-> StartFile, dev |-> [name |-> "none"],
              prev |-> NoContent, new |-> NoContent, hash |-> NoContent,
              drop |-> {}]

-----------------------------------------------------------------------------
\* Inventory::load: the parse by the shared crate and Inventory::validate.
loads(content) == content.parses /\ content.valid

\* FileInventory accepts a map and an envelope with an array; only the first
\* has a slot for insert_device.
Insert(content, dev) ==
    [content EXCEPT !.devices[dev.name] = [ip |-> dev.ip, rules |-> NoRules]]
insert_device(content, dev) ==
    IF ~content.extensible THEN "parse"
    ELSE IF dev.name \in Names(content) THEN "exists" ELSE "ok"

\* inventory_entry_equal looks at the connection parameters only.
inventory_entry_equal(a, b) == a.ip = b.ip

\* Mutant: no session is invalidated.
Changed_Never(prev, new) == {}

Changed(prev, new) ==
    {r \in Names(prev) \cap Names(new) :
        ~inventory_entry_equal(prev.devices[r], new.devices[r])}
Removed(prev, new) == Names(prev) \ Names(new)

-----------------------------------------------------------------------------
InventoryInit(initial, ro) ==
    /\ disk = initial
    /\ loads(initial[StartFile]) /\ initial[StartFile].compiles
    /\ mgr = [inventory |-> initial[StartFile], inventory_path |-> StartFile,
              inventory_hash |-> initial[StartFile]]
    /\ policy = Build(initial[StartFile])
    /\ lock = Free
    /\ admin = [a \in Admins |-> AdminIdle]
    /\ pool = [r \in Routers |-> NoAddr]
    /\ readonly = ro
    /\ want = initial /\ raced = {} /\ carried = {}
    /\ edits = 0 /\ adminCalls = 0

\* An operator saves a file with an editor, or a deployment tool writes it.
EditFile(f, content) ==
    /\ edits < MaxEdits /\ disk[f] # content
    /\ edits' = edits + 1
    /\ disk' = [disk EXCEPT ![f] = content]
    /\ want' = [want EXCEPT ![f] = content]
    /\ raced' = raced \cup {admin[a].op : a \in {b \in Admins : lock = b}}
    /\ UNCHANGED <<mgr, policy, lock, admin, pool, readonly, carried, adminCalls>>

\* The handler returns; outcome names the result, which nothing later reads.
Done(a, outcome) == admin' = [admin EXCEPT ![a] = AdminIdle]

-----------------------------------------------------------------------------
(* reload_devices                                                          *)

\* handle refuses a read-only manager; reload_current_from_disk, the SIGHUP
\* path, does not ask, and cannot name another file.
ReloadStart(a, op, file) ==
    /\ admin[a].pc = "idle" /\ adminCalls < MaxAdminCalls
    /\ op = "sighup" => file = mgr.inventory_path
    /\ adminCalls' = adminCalls + 1
    /\ IF op = "reload_devices" /\ readonly
       THEN Done(a, "readonly")
       ELSE admin' = [admin EXCEPT ![a] = [AdminIdle EXCEPT !.pc = "reload", !.op = op,
                                                            !.file = file]]
    /\ UNCHANGED <<disk, mgr, policy, lock, pool, readonly, want, raced, carried, edits>>

\* Under the lock: refuse a name that leaves the inventory directory, load, refuse an empty inventory, compare with the previous
\* one, and build the policy before anything is swapped in.
ReloadLoad(a) ==
    /\ admin[a].pc = "reload" /\ lock = Free
    /\ LET new  == disk[IF admin[a].file \in Files THEN admin[a].file ELSE StartFile]
           prev == mgr.inventory
       IN CASE admin[a].file \notin Files -> Done(a, "invalid") /\ lock' = lock
            [] admin[a].file \in Files /\ ~loads(new) -> Done(a, "parse") /\ lock' = lock
            [] admin[a].file \in Files /\ loads(new) /\ Names(new) = {} ->
                 Done(a, "empty") /\ lock' = lock
            [] admin[a].file \in Files /\ loads(new) /\ Names(new) # {} /\ ~new.compiles ->
                 Done(a, "rules") /\ lock' = lock
            [] OTHER ->
                 /\ lock' = a
                 /\ admin' = [admin EXCEPT ![a].pc = "hash", ![a].prev = prev, ![a].new = new,
                                 ![a].drop = Removed(prev, new) \cup Changed(prev, new)]
    /\ UNCHANGED <<disk, mgr, policy, pool, readonly, want, raced, carried, edits, adminCalls>>

\* The hash is taken from a second read of the file.
ReloadHash(a) ==
    /\ admin[a].pc = "hash"
    /\ admin' = [admin EXCEPT ![a].pc = "store", ![a].hash = disk[admin[a].file]]
    /\ UNCHANGED <<disk, mgr, policy, lock, pool, readonly, want, raced, carried,
                   edits, adminCalls>>

\* store_inventory.  Path and hash are read under the write lock only, so the
\* swap of the inventory is the one a concurrent call can see.
StoreInventory(a) ==
    /\ admin[a].pc = "store"
    /\ mgr' = [inventory |-> admin[a].new, inventory_path |-> admin[a].file,
               inventory_hash |-> admin[a].hash]
    /\ admin' = [admin EXCEPT ![a].pc = "policy"]
    /\ UNCHANGED <<disk, policy, lock, pool, readonly, want, raced, carried, edits, adminCalls>>

\* Mutant: an addition leaves the old policy in force.
StorePolicy_ReloadOnly(a) ==
    /\ admin[a].pc = "policy"
    /\ IF admin[a].op = "add_device"
       THEN Done(a, "ok") /\ lock' = Free /\ policy' = policy
       ELSE admin' = [admin EXCEPT ![a].pc = "invalidate"] /\ lock' = lock
            /\ policy' = Build(admin[a].new)
    /\ UNCHANGED <<disk, mgr, pool, readonly, want, raced, carried, edits, adminCalls>>

\* policy.store; an addition is then finished, a reload has sessions to drop.
StorePolicy(a) ==
    /\ admin[a].pc = "policy"
    /\ policy' = Build(admin[a].new)
    /\ IF admin[a].op = "add_device"
       THEN Done(a, "ok") /\ lock' = Free
       ELSE admin' = [admin EXCEPT ![a].pc = "invalidate"] /\ lock' = lock
    /\ UNCHANGED <<disk, mgr, pool, readonly, want, raced, carried, edits, adminCalls>>

\* invalidate_pool for the names removed and changed empties their slots; out are
\* the sessions that are in no slot at this moment, each <<name, address>>: they
\* are not told.
ReloadInvalidate(a, out) ==
    /\ admin[a].pc = "invalidate"
    /\ pool' = [r \in Routers |-> IF r \in admin[a].drop THEN NoAddr ELSE pool[r]]
    /\ carried' = {s \in carried : s[1] \notin admin[a].drop} \cup {s \in out : s[1] \in admin[a].drop}
    /\ Done(a, "ok") /\ lock' = Free
    /\ UNCHANGED <<disk, mgr, policy, readonly, want, raced, edits, adminCalls>>

-----------------------------------------------------------------------------
(* add_device                                                              *)

\* validate runs before the lock is taken.  A request whose fields are missing
\* or malformed changes nothing and is left out.
AddValidate(a, dev) ==
    /\ admin[a].pc = "idle" /\ adminCalls < MaxAdminCalls
    /\ adminCalls' = adminCalls + 1
    /\ CASE readonly -> Done(a, "readonly")
         [] ~readonly /\ dev.name \in Names(mgr.inventory) -> Done(a, "exists")
         [] OTHER -> admin' = [admin EXCEPT ![a] = [AdminIdle EXCEPT !.pc = "add",
                                                       !.op = "add_device", !.dev = dev]]
    /\ UNCHANGED <<disk, mgr, policy, lock, pool, readonly, want, raced, carried, edits>>

\* Mutant: the hash is compared without the lock.
AddCheckHash_Unlocked(a) ==
    /\ admin[a].pc = "add"
    /\ IF disk[mgr.inventory_path] # mgr.inventory_hash
       THEN Done(a, "drifted") /\ lock' = lock
       ELSE /\ lock' = a
            /\ admin' = [admin EXCEPT ![a].pc = "read", ![a].file = mgr.inventory_path]
    /\ UNCHANGED <<disk, mgr, policy, pool, readonly, want, raced, carried, edits, adminCalls>>

\* Take the lock and compare the file's hash with the loaded one.
AddCheckHash(a) ==
    /\ admin[a].pc = "add" /\ lock = Free
    /\ IF disk[mgr.inventory_path] # mgr.inventory_hash
       THEN Done(a, "drifted") /\ lock' = lock
       ELSE /\ lock' = a
            /\ admin' = [admin EXCEPT ![a].pc = "read", ![a].file = mgr.inventory_path]
    /\ UNCHANGED <<disk, mgr, policy, pool, readonly, want, raced, carried, edits, adminCalls>>

\* Read the file again, insert the device, stage the result beside the file,
\* load it, build its policy and hash it.
AddStage(a) ==
    /\ admin[a].pc = "read"
    /\ LET raw    == disk[admin[a].file]
           staged == Insert(raw, admin[a].dev)
           fault  == IF ~raw.parses THEN "parse"
                     ELSE IF insert_device(raw, admin[a].dev) # "ok"
                          THEN insert_device(raw, admin[a].dev)
                     ELSE IF ~loads(staged) THEN "parse"
                     ELSE IF ~staged.compiles THEN "rules" ELSE "none"
       IN IF fault # "none"
          THEN Done(a, fault) /\ lock' = Free
          ELSE /\ admin' = [admin EXCEPT ![a].pc = "persist", ![a].new = staged,
                               ![a].hash = staged, ![a].prev = mgr.inventory]
               /\ lock' = lock
    /\ UNCHANGED <<disk, mgr, policy, pool, readonly, want, raced, carried, edits, adminCalls>>

\* The rename over whatever the path holds by now; it may fail as a whole.
AddPersist(a) ==
    /\ admin[a].pc = "persist"
    /\ \/ /\ disk' = [disk EXCEPT ![admin[a].file] = admin[a].new]
          /\ want' = [want EXCEPT ![admin[a].file] = Insert(@, admin[a].dev)]
          /\ admin' = [admin EXCEPT ![a].pc = "store"]
          /\ UNCHANGED lock
       \/ /\ Done(a, "write") /\ lock' = Free
          /\ UNCHANGED <<disk, want>>
    /\ UNCHANGED <<mgr, policy, pool, readonly, raced, carried, edits, adminCalls>>

-----------------------------------------------------------------------------
\* The process dies and main starts it again from the configured file; it
\* does not start at all on a file it cannot load.
Crash ==
    /\ loads(disk[StartFile]) /\ disk[StartFile].compiles
    /\ mgr' = [inventory |-> disk[StartFile], inventory_path |-> StartFile,
               inventory_hash |-> disk[StartFile]]
    /\ policy' = Build(disk[StartFile])
    /\ lock' = Free
    /\ admin' = [a \in Admins |-> AdminIdle]
    /\ pool' = [r \in Routers |-> NoAddr]
    /\ carried' = {}
    /\ UNCHANGED <<disk, readonly, want, raced, edits, adminCalls>>

\* admins run reloads and additions, saves are the contents an operator's editor
\* writes, devices the additions asked for, each [name, ip].
AdminNext(admins, saves, devices, out) ==
    \/ \E f \in Files, content \in saves : EditFile(f, content)
    \/ \E a \in admins, op \in {"reload_devices", "sighup"}, f \in Files \cup {Outside} :
          ReloadStart(a, op, f)
    \/ \E a \in admins, dev \in devices : AddValidate(a, dev)
    \/ \E a \in admins :
          \/ ReloadLoad(a) \/ ReloadHash(a) \/ StoreInventory(a) \/ StorePolicy(a)
          \/ ReloadInvalidate(a, out)
          \/ AddCheckHash(a) \/ AddStage(a) \/ AddPersist(a)

=============================================================================
