------------------------ MODULE CommandCalls_proofs ------------------------
(***************************************************************************)
(* Proofs about the inventory, the policy built from it, the pooled         *)
(* sessions and the calls that run commands, for any number of concurrent   *)
(* reloads, additions, edits, crashes and calls.                            *)
(***************************************************************************)
EXTENDS CommandCalls, FiniteSetTheorems, TLAPS

-----------------------------------------------------------------------------
(* The inductive invariant *)

LockedPcs == {"hash", "store", "policy", "invalidate", "read", "persist"}
AdminRecs ==
    [pc : {"idle", "reload", "add"} \cup LockedPcs,
     op : {"none", "reload_devices", "sighup", "add_device"},
     file : Files \cup {Outside}, dev : NewDevices \cup {[name |-> "none"]},
     prev : Contents \cup {NoContent}, new : Contents \cup {NoContent},
     hash : Contents \cup {NoContent}, drop : SUBSET Routers]

\* Types of the inventory's state.
InventoryTypes ==
    /\ disk \in [Files -> Contents]
    /\ mgr \in [inventory : Contents, inventory_path : Files, inventory_hash : Contents]
    /\ lock \in Admins \cup {Free}
    /\ admin \in [Admins -> AdminRecs]
    /\ scenario \in Scenarios

\* Exactly the holder of the write lock is between taking and releasing it.
LockInv == \A a \in Admins : admin[a].pc \in LockedPcs <=> lock = a

\* What a reload or an addition knows at each of its steps.
OpInv(a) ==
    /\ admin[a].pc \in {"add", "read", "persist"} => admin[a].op = "add_device"
    /\ admin[a].pc \in {"reload", "hash", "invalidate"} => admin[a].op # "add_device"
    /\ admin[a].pc \in {"add", "read", "persist"} => admin[a].dev \in NewDevices
    /\ admin[a].pc \in LockedPcs => admin[a].file \in Files
    /\ admin[a].pc \in {"hash", "store", "persist"} =>
         admin[a].prev = mgr.inventory /\ admin[a].new \in Contents
    /\ admin[a].pc \in {"store", "persist"} => admin[a].hash \in Contents
    /\ admin[a].pc = "policy" => mgr.inventory = admin[a].new /\ admin[a].prev \in Contents

\* What it knows of the file while no editor interferes.
FileInv(a) ==
    /\ admin[a].pc = "hash" => raced # {} \/ disk[admin[a].file] = admin[a].new
    /\ admin[a].pc = "store" => raced # {} \/ admin[a].hash = admin[a].new
    /\ admin[a].pc = "read" => raced # {} \/ disk[admin[a].file] = mgr.inventory
    /\ admin[a].pc = "persist" =>
         "add_device" \in raced \/ admin[a].new = Insert(disk[admin[a].file], admin[a].dev)
    /\ admin[a].pc = "persist" => raced # {} \/ admin[a].hash = admin[a].new

\* The policy lags behind the inventory only between the two swaps.
PolicyInv ==
    \/ policy = Build(mgr.inventory)
    \/ \E a \in Admins : admin[a].pc = "policy" /\ policy = Build(admin[a].prev)

\* The hash is that of the inventory in memory while no editor interferes.
HashInv == raced # {} \/ mgr.inventory = mgr.inventory_hash

InventoryInv ==
    /\ InventoryTypes /\ LockInv /\ PolicyInv /\ HashInv
    /\ \A a \in Admins : OpInv(a) /\ FileInv(a)

-----------------------------------------------------------------------------
(* Facts about contents and operations *)

\* Inserting a device gives a content again, and touches no other device.
LEMMA InsertType ==
  ASSUME NEW content \in Contents, NEW dev \in NewDevices
  PROVE  /\ Insert(content, dev) \in Contents
         /\ \A r \in Routers : r # dev.name =>
              Insert(content, dev).devices[r] = content.devices[r]
<1>1. NoRules \in BlocklistRules
  BY DEF NoRules, BlocklistRules
<1>2. [ip |-> dev.ip, rules |-> NoRules] \in DeviceEntries /\ dev.name \in Routers
  BY <1>1 DEF DeviceEntries, NewDevices
<1> DEFINE e == [ip |-> dev.ip, rules |-> NoRules]
<1> HIDE DEF e
<1>3. content.devices \in [Routers -> DeviceEntries]
  BY DEF Contents
<1>4. [content.devices EXCEPT ![dev.name] = e] \in [Routers -> DeviceEntries]
  BY <1>2, <1>3 DEF e
<1>5. Insert(content, dev) = [content EXCEPT !.devices = [content.devices EXCEPT ![dev.name] = e]]
  BY DEF Insert, Contents, e
<1>6. Insert(content, dev).devices = [content.devices EXCEPT ![dev.name] = e]
  BY <1>5 DEF Contents
<1>7. Insert(content, dev) \in Contents
  BY <1>4, <1>5 DEF Contents
<1> QED
  BY <1>3, <1>6, <1>7

\* The idle record of a reload or an addition.
LEMMA IdleType == AdminIdle \in AdminRecs /\ AdminIdle.pc = "idle"
BY FilesAssumption DEF AdminIdle, AdminRecs, LockedPcs

\* An operation that has not taken the lock depends on nothing.
LEMMA UnlockedKeeps ==
  ASSUME NEW b \in Admins, OpInv(b), admin'[b] = admin[b], admin[b].pc \notin LockedPcs
  PROVE  OpInv(b)' /\ FileInv(b)'
BY DEF OpInv, FileInv, LockedPcs

\* An operation that is over promises nothing.
LEMMA IdleKeeps ==
  ASSUME NEW b \in Admins, admin'[b] = AdminIdle
  PROVE  OpInv(b)' /\ FileInv(b)'
BY IdleType DEF OpInv, FileInv, LockedPcs

\* An operation nothing of whose state changes.
LEMMA SameKeeps ==
  ASSUME NEW b \in Admins, OpInv(b), FileInv(b), admin'[b] = admin[b],
         UNCHANGED <<disk, mgr, raced>>
  PROVE  OpInv(b)' /\ FileInv(b)'
BY DEF OpInv, FileInv
-----------------------------------------------------------------------------
(* One lemma per step of the inventory *)

\* An editor saves a file.
LEMMA EditStep ==
  ASSUME InventoryInv, NEW f \in Files, NEW content \in Contents, EditFile(f, content),
         UNCHANGED scenario
  PROVE  InventoryInv'
<1>1. InventoryTypes' /\ LockInv' /\ PolicyInv'
  BY DEF InventoryInv, EditFile, InventoryTypes, LockInv, PolicyInv
<1>2. raced # {} => raced' # {}
  BY DEF EditFile
<1>3. HashInv'
  BY <1>2 DEF InventoryInv, HashInv, EditFile
<1>4. ASSUME NEW a \in Admins PROVE OpInv(a)' /\ FileInv(a)'
  <2>1. CASE admin[a].pc \notin LockedPcs
    BY <2>1, UnlockedKeeps DEF InventoryInv, EditFile
  <2>2. CASE admin[a].pc \in LockedPcs
    <3>1. admin[a].op \in raced'
      BY <2>2 DEF EditFile, InventoryInv, LockInv
    <3> QED
      BY <3>1 DEF InventoryInv, EditFile, OpInv, FileInv
  <2> QED
    BY <2>1, <2>2
<1> QED
  BY <1>1, <1>3, <1>4 DEF InventoryInv

\* reload_devices and SIGHUP begin.
LEMMA ReloadStartStep ==
  ASSUME InventoryInv, NEW a \in Admins, NEW op \in {"reload_devices", "sighup"},
         NEW f \in Files \cup {Outside}, ReloadStart(a, op, f), UNCHANGED scenario
  PROVE  InventoryInv'
<1> DEFINE rec == [AdminIdle EXCEPT !.pc = "reload", !.op = op, !.file = f]
<1>1. rec \in AdminRecs /\ rec.pc = "reload" /\ rec.op = op
  BY IdleType DEF AdminRecs
<1> HIDE DEF rec
<1>2. admin[a].pc = "idle" /\ (admin' = [admin EXCEPT ![a] = AdminIdle]
                               \/ admin' = [admin EXCEPT ![a] = rec])
  BY DEF ReloadStart, Done, rec
<1>3. /\ admin' \in [Admins -> AdminRecs] /\ admin'[a] \in {AdminIdle, rec}
      /\ \A b \in Admins : b # a => admin'[b] = admin[b]
  BY <1>1, <1>2, IdleType DEF InventoryInv, InventoryTypes
<1>4. UNCHANGED <<disk, mgr, raced, lock, policy>>
  BY DEF ReloadStart
<1>5. InventoryTypes'
  BY <1>3, <1>4 DEF InventoryInv, InventoryTypes
<1>6. admin'[a].pc \in {"idle", "reload"}
  BY <1>1, <1>3, IdleType
<1>7. LockInv'
  BY <1>2, <1>3, <1>4, <1>6 DEF InventoryInv, LockInv, LockedPcs
<1>8. PolicyInv' /\ HashInv'
  BY <1>2, <1>3, <1>4 DEF InventoryInv, PolicyInv, HashInv
<1>9. ASSUME NEW b \in Admins PROVE OpInv(b)' /\ FileInv(b)'
  <2>1. CASE b # a
    BY <1>3, <1>4, <2>1, SameKeeps DEF InventoryInv
  <2>2. CASE b = a /\ admin'[a] = AdminIdle
    BY <2>2, IdleKeeps
  <2>3. CASE b = a /\ admin'[a] = rec
    BY <1>1, <2>3 DEF OpInv, FileInv, LockedPcs
  <2> QED
    BY <1>3, <2>1, <2>2, <2>3
<1> QED
  BY <1>5, <1>7, <1>8, <1>9 DEF InventoryInv

\* A step under the lock, or that takes or releases it, concerns one operation only.
LEMMA LockedStep ==
  ASSUME InventoryInv, NEW a \in Admins, UNCHANGED <<scenario, raced>>,
         lock \in {a, Free}, lock' \in {a, Free},
         admin' \in [Admins -> AdminRecs], \A b \in Admins : b # a => admin'[b] = admin[b],
         disk' \in [Files -> Contents],
         mgr' \in [inventory : Contents, inventory_path : Files, inventory_hash : Contents],
         admin'[a].pc \in LockedPcs <=> lock' = a,
         PolicyInv', HashInv', OpInv(a)', FileInv(a)'
  PROVE  InventoryInv'
<1>1. \A b \in Admins : b # a => admin[b].pc \notin LockedPcs
  BY LockAssumption DEF InventoryInv, LockInv
<1>2. LockInv'
  BY <1>1, LockAssumption DEF LockInv
<1>3. ASSUME NEW b \in Admins, b # a PROVE OpInv(b)' /\ FileInv(b)'
  BY <1>1, <1>3, UnlockedKeeps DEF InventoryInv
<1>4. InventoryTypes'
  BY DEF InventoryTypes, InventoryInv
<1> QED
  BY <1>2, <1>3, <1>4 DEF InventoryInv

\* The same for a step that ends the operation and releases the lock.
LEMMA ReleaseStep ==
  ASSUME InventoryInv, NEW a \in Admins, UNCHANGED <<scenario, raced, disk, mgr>>,
         lock \in {a, Free}, lock' = Free, Done(a, "any"), PolicyInv'
  PROVE  InventoryInv'
<1>1. /\ admin' \in [Admins -> AdminRecs] /\ admin'[a] = AdminIdle
      /\ \A b \in Admins : b # a => admin'[b] = admin[b]
  BY IdleType DEF Done, InventoryInv, InventoryTypes
<1>2. OpInv(a)' /\ FileInv(a)'
  BY <1>1, IdleKeeps
<1>3. admin'[a].pc \in LockedPcs <=> lock' = a
  BY <1>1, IdleType, LockAssumption DEF LockedPcs
<1>4. HashInv' /\ disk' \in [Files -> Contents]
      /\ mgr' \in [inventory : Contents, inventory_path : Files, inventory_hash : Contents]
  BY DEF InventoryInv, InventoryTypes, HashInv
<1> QED
  BY <1>1, <1>2, <1>3, <1>4, LockedStep

\* While nobody is between the two swaps, the policy is that of the inventory.
LEMMA PolicyBuilt ==
  ASSUME InventoryInv, \/ lock = Free
                       \/ \E a \in Admins : lock = a /\ admin[a].pc # "policy"
  PROVE  policy = Build(mgr.inventory)
BY LockAssumption DEF InventoryInv, PolicyInv, LockInv, LockedPcs

\* A reload loads a file under the lock.
LEMMA ReloadLoadStep ==
  ASSUME InventoryInv, NEW a \in Admins, ReloadLoad(a), UNCHANGED scenario
  PROVE  InventoryInv'
<1>0. admin[a].pc = "reload" /\ lock = Free /\ UNCHANGED <<disk, mgr, raced, policy>>
  BY DEF ReloadLoad
<1>1. policy' = Build(mgr'.inventory)
  BY <1>0, PolicyBuilt
<1>2. PolicyInv'
  BY <1>1 DEF PolicyInv
<1>3. CASE Done(a, "any") /\ lock' = lock
  BY <1>0, <1>2, <1>3, ReleaseStep
<1>4. CASE ~(Done(a, "any") /\ lock' = lock)
  <2> DEFINE f == admin[a].file
             new == disk[f]
             prev == mgr.inventory
             rec == [admin[a] EXCEPT !.pc = "hash", !.prev = prev, !.new = new,
                                     !.drop = Removed(prev, new) \cup Changed(prev, new)]
  <2>1. /\ f \in Files /\ lock' = a
        /\ admin' = [admin EXCEPT ![a].pc = "hash", ![a].prev = prev, ![a].new = new,
                        ![a].drop = Removed(prev, new) \cup Changed(prev, new)]
    BY <1>4 DEF ReloadLoad, Done
  <2>2. Removed(prev, new) \cup Changed(prev, new) \in SUBSET Routers
    BY DEF Removed, Changed, Names
  <2>3. new \in Contents /\ prev \in Contents
    BY <2>1 DEF InventoryInv, InventoryTypes
  <2>4. /\ rec \in AdminRecs /\ rec.pc = "hash" /\ rec.op = admin[a].op /\ rec.file = f
        /\ rec.prev = prev /\ rec.new = new
    BY <2>2, <2>3 DEF AdminRecs, InventoryInv, InventoryTypes, LockedPcs
  <2>5. admin' = [admin EXCEPT ![a] = rec]
    BY <2>1 DEF InventoryInv, InventoryTypes
  <2> HIDE DEF rec
  <2>6. /\ admin' \in [Admins -> AdminRecs] /\ admin'[a] = rec
        /\ \A b \in Admins : b # a => admin'[b] = admin[b]
    BY <2>4, <2>5 DEF InventoryInv, InventoryTypes
  <2>7. OpInv(a)' /\ FileInv(a)'
    BY <1>0, <2>1, <2>3, <2>4, <2>6 DEF InventoryInv, OpInv, FileInv, LockedPcs
  <2>8. HashInv' /\ disk' \in [Files -> Contents]
        /\ mgr' \in [inventory : Contents, inventory_path : Files, inventory_hash : Contents]
    BY <1>0 DEF InventoryInv, InventoryTypes, HashInv
  <2>9. admin'[a].pc \in LockedPcs <=> lock' = a
    BY <2>1, <2>4, <2>6 DEF LockedPcs
  <2> QED
    BY <1>0, <1>2, <2>1, <2>6, <2>7, <2>8, <2>9, LockedStep
<1> QED
  BY <1>3, <1>4

\* The second read of the file.
LEMMA ReloadHashStep ==
  ASSUME InventoryInv, NEW a \in Admins, ReloadHash(a), UNCHANGED scenario
  PROVE  InventoryInv'
<1>0. /\ admin[a].pc = "hash" /\ lock = a /\ UNCHANGED <<disk, mgr, raced, policy, lock>>
      /\ admin[a].file \in Files
  BY DEF ReloadHash, InventoryInv, LockInv, OpInv, LockedPcs
<1> DEFINE rec == [admin[a] EXCEPT !.pc = "store", !.hash = disk[admin[a].file]]
<1>1. disk[admin[a].file] \in Contents
  BY <1>0 DEF InventoryInv, InventoryTypes
<1>2. /\ rec \in AdminRecs /\ rec.pc = "store" /\ rec.op = admin[a].op
      /\ rec.file = admin[a].file /\ rec.prev = admin[a].prev /\ rec.new = admin[a].new
      /\ rec.hash = disk[admin[a].file]
  BY <1>1 DEF AdminRecs, InventoryInv, InventoryTypes, LockedPcs
<1>3. admin' = [admin EXCEPT ![a] = rec]
  BY DEF ReloadHash, InventoryInv, InventoryTypes
<1> HIDE DEF rec
<1>4. /\ admin' \in [Admins -> AdminRecs] /\ admin'[a] = rec
      /\ \A b \in Admins : b # a => admin'[b] = admin[b]
  BY <1>2, <1>3 DEF InventoryInv, InventoryTypes
<1>5. PolicyInv' /\ HashInv'
  BY <1>0, PolicyBuilt DEF PolicyInv, InventoryInv, HashInv
<1>6. OpInv(a)' /\ FileInv(a)'
  BY <1>0, <1>1, <1>2, <1>4 DEF InventoryInv, OpInv, FileInv, LockedPcs
<1>7. disk' \in [Files -> Contents]
      /\ mgr' \in [inventory : Contents, inventory_path : Files, inventory_hash : Contents]
  BY <1>0 DEF InventoryInv, InventoryTypes
<1>8. admin'[a].pc \in LockedPcs <=> lock' = a
  BY <1>0, <1>2, <1>4 DEF LockedPcs
<1> QED
  BY <1>0, <1>4, <1>5, <1>6, <1>7, <1>8, LockedStep

\* store_inventory: the first of the two swaps.
LEMMA StoreInventoryStep ==
  ASSUME InventoryInv, NEW a \in Admins, StoreInventory(a), UNCHANGED scenario
  PROVE  InventoryInv'
<1>0. /\ admin[a].pc = "store" /\ lock = a /\ UNCHANGED <<disk, raced, policy, lock>>
      /\ admin[a].file \in Files /\ admin[a].prev = mgr.inventory
      /\ admin[a].new \in Contents /\ admin[a].hash \in Contents /\ mgr.inventory \in Contents
  BY DEF StoreInventory, InventoryInv, InventoryTypes, LockInv, OpInv, LockedPcs
<1> DEFINE rec == [admin[a] EXCEPT !.pc = "policy"]
<1>2. /\ rec \in AdminRecs /\ rec.pc = "policy" /\ rec.op = admin[a].op
      /\ rec.file = admin[a].file /\ rec.prev = admin[a].prev /\ rec.new = admin[a].new
  BY DEF AdminRecs, InventoryInv, InventoryTypes, LockedPcs
<1>3. admin' = [admin EXCEPT ![a] = rec]
  BY DEF StoreInventory, InventoryInv, InventoryTypes
<1> HIDE DEF rec
<1>4. /\ admin' \in [Admins -> AdminRecs] /\ admin'[a] = rec
      /\ \A b \in Admins : b # a => admin'[b] = admin[b]
  BY <1>2, <1>3 DEF InventoryInv, InventoryTypes
<1>5. /\ mgr'.inventory = admin[a].new /\ mgr'.inventory_hash = admin[a].hash
      /\ mgr' \in [inventory : Contents, inventory_path : Files, inventory_hash : Contents]
  BY <1>0 DEF StoreInventory
<1>6. policy = Build(mgr.inventory)
  BY <1>0, PolicyBuilt
<1>7. PolicyInv'
  BY <1>0, <1>2, <1>4, <1>5, <1>6 DEF PolicyInv
<1>8. HashInv'
  BY <1>0, <1>5 DEF InventoryInv, HashInv, FileInv
<1>9. OpInv(a)' /\ FileInv(a)'
  BY <1>0, <1>2, <1>4, <1>5 DEF OpInv, FileInv, LockedPcs
<1>10. disk' \in [Files -> Contents]
  BY <1>0 DEF InventoryInv, InventoryTypes
<1>11. admin'[a].pc \in LockedPcs <=> lock' = a
  BY <1>0, <1>2, <1>4 DEF LockedPcs
<1> QED
  BY <1>0, <1>4, <1>5, <1>7, <1>8, <1>9, <1>10, <1>11, LockedStep

\* policy.store: the second swap ends an addition; a reload has sessions to drop.
LEMMA StorePolicyStep ==
  ASSUME InventoryInv, NEW a \in Admins, StorePolicy(a), UNCHANGED scenario
  PROVE  InventoryInv'
<1>0. /\ admin[a].pc = "policy" /\ lock = a /\ UNCHANGED <<disk, raced, mgr>>
      /\ admin[a].file \in Files
  BY DEF StorePolicy, InventoryInv, LockInv, OpInv, LockedPcs
<1>2. mgr.inventory = admin[a].new
  BY <1>0 DEF InventoryInv, OpInv
<1>3. PolicyInv'
  BY <1>0, <1>2 DEF PolicyInv, StorePolicy
<1>4. CASE admin[a].op = "add_device"
  BY <1>0, <1>3, <1>4, ReleaseStep DEF StorePolicy, Done
<1>5. CASE admin[a].op # "add_device"
  <2> DEFINE rec == [admin[a] EXCEPT !.pc = "invalidate"]
  <2>1. /\ rec \in AdminRecs /\ rec.pc = "invalidate" /\ rec.op = admin[a].op
        /\ rec.file = admin[a].file
    BY DEF AdminRecs, InventoryInv, InventoryTypes, LockedPcs
  <2>2. admin' = [admin EXCEPT ![a] = rec] /\ lock' = a
    BY <1>0, <1>5 DEF StorePolicy, InventoryInv, InventoryTypes
  <2> HIDE DEF rec
  <2>3. /\ admin' \in [Admins -> AdminRecs] /\ admin'[a] = rec
        /\ \A b \in Admins : b # a => admin'[b] = admin[b]
    BY <2>1, <2>2 DEF InventoryInv, InventoryTypes
  <2>4. OpInv(a)' /\ FileInv(a)'
    BY <1>0, <1>5, <2>1, <2>3 DEF OpInv, FileInv, LockedPcs
  <2>5. HashInv' /\ disk' \in [Files -> Contents]
        /\ mgr' \in [inventory : Contents, inventory_path : Files, inventory_hash : Contents]
    BY <1>0 DEF InventoryInv, InventoryTypes, HashInv
  <2>6. admin'[a].pc \in LockedPcs <=> lock' = a
    BY <2>1, <2>2, <2>3 DEF LockedPcs
  <2> QED
    BY <1>0, <1>3, <2>2, <2>3, <2>4, <2>5, <2>6, LockedStep
<1> QED
  BY <1>4, <1>5

\* A reload drops the sessions it made stale, and is done.
LEMMA ReloadInvalidateStep ==
  ASSUME InventoryInv, NEW a \in Admins, NEW inUse, ReloadInvalidate(a, inUse),
         UNCHANGED scenario
  PROVE  InventoryInv'
<1>0. /\ admin[a].pc = "invalidate" /\ lock = a /\ lock' = Free
      /\ UNCHANGED <<disk, raced, mgr, policy>>
  BY DEF ReloadInvalidate, InventoryInv, LockInv, LockedPcs
<1>1. PolicyInv'
  BY <1>0, PolicyBuilt DEF PolicyInv
<1> QED
  BY <1>0, <1>1, ReleaseStep DEF ReloadInvalidate, Done

\* add_device validates before it takes the lock.
LEMMA AddValidateStep ==
  ASSUME InventoryInv, NEW a \in Admins, NEW dev \in NewDevices, AddValidate(a, dev),
         UNCHANGED scenario
  PROVE  InventoryInv'
<1> DEFINE rec == [AdminIdle EXCEPT !.pc = "add", !.op = "add_device", !.dev = dev]
<1>1. rec \in AdminRecs /\ rec.pc = "add" /\ rec.op = "add_device" /\ rec.dev = dev
  BY IdleType DEF AdminRecs
<1> HIDE DEF rec
<1>2. admin[a].pc = "idle" /\ (admin' = [admin EXCEPT ![a] = AdminIdle]
                               \/ admin' = [admin EXCEPT ![a] = rec])
  BY DEF AddValidate, Done, rec
<1>3. /\ admin' \in [Admins -> AdminRecs] /\ admin'[a] \in {AdminIdle, rec}
      /\ \A b \in Admins : b # a => admin'[b] = admin[b]
  BY <1>1, <1>2, IdleType DEF InventoryInv, InventoryTypes
<1>4. UNCHANGED <<disk, mgr, raced, lock, policy>>
  BY DEF AddValidate
<1>5. InventoryTypes'
  BY <1>3, <1>4 DEF InventoryInv, InventoryTypes
<1>6. admin'[a].pc \in {"idle", "add"}
  BY <1>1, <1>3, IdleType
<1>7. LockInv'
  BY <1>2, <1>3, <1>4, <1>6 DEF InventoryInv, LockInv, LockedPcs
<1>8. PolicyInv' /\ HashInv'
  BY <1>2, <1>3, <1>4 DEF InventoryInv, PolicyInv, HashInv
<1>9. ASSUME NEW b \in Admins PROVE OpInv(b)' /\ FileInv(b)'
  <2>1. CASE b # a
    BY <1>3, <1>4, <2>1, SameKeeps DEF InventoryInv
  <2>2. CASE b = a /\ admin'[a] = AdminIdle
    BY <2>2, IdleKeeps
  <2>3. CASE b = a /\ admin'[a] = rec
    BY <1>1, <2>3 DEF OpInv, FileInv, LockedPcs
  <2> QED
    BY <1>3, <2>1, <2>2, <2>3
<1> QED
  BY <1>5, <1>7, <1>8, <1>9 DEF InventoryInv

\* It takes the lock and compares hashes.
LEMMA AddCheckHashStep ==
  ASSUME InventoryInv, NEW a \in Admins, AddCheckHash(a), UNCHANGED scenario
  PROVE  InventoryInv'
<1>0. admin[a].pc = "add" /\ lock = Free /\ UNCHANGED <<disk, mgr, raced, policy>>
  BY DEF AddCheckHash
<1>1. PolicyInv'
  BY <1>0, PolicyBuilt DEF PolicyInv
<1>2. CASE disk[mgr.inventory_path] # mgr.inventory_hash
  BY <1>0, <1>1, <1>2, ReleaseStep DEF AddCheckHash, Done
<1>3. CASE disk[mgr.inventory_path] = mgr.inventory_hash
  <2> DEFINE rec == [admin[a] EXCEPT !.pc = "read", !.file = mgr.inventory_path]
  <2>0. mgr.inventory_path \in Files
    BY DEF InventoryInv, InventoryTypes
  <2>1. /\ rec \in AdminRecs /\ rec.pc = "read" /\ rec.op = admin[a].op
        /\ rec.file = mgr.inventory_path /\ rec.dev = admin[a].dev
    BY <2>0 DEF AdminRecs, InventoryInv, InventoryTypes, LockedPcs
  <2>2. admin' = [admin EXCEPT ![a] = rec] /\ lock' = a
    BY <1>0, <1>3 DEF AddCheckHash, InventoryInv, InventoryTypes
  <2> HIDE DEF rec
  <2>3. /\ admin' \in [Admins -> AdminRecs] /\ admin'[a] = rec
        /\ \A b \in Admins : b # a => admin'[b] = admin[b]
    BY <2>1, <2>2 DEF InventoryInv, InventoryTypes
  <2>4. OpInv(a)'
    BY <1>0, <2>0, <2>1, <2>3 DEF InventoryInv, OpInv, LockedPcs
  <2>5. FileInv(a)'
    BY <1>0, <1>3, <2>1, <2>3 DEF InventoryInv, HashInv, FileInv
  <2>6. HashInv' /\ disk' \in [Files -> Contents]
        /\ mgr' \in [inventory : Contents, inventory_path : Files, inventory_hash : Contents]
    BY <1>0 DEF InventoryInv, InventoryTypes, HashInv
  <2>7. admin'[a].pc \in LockedPcs <=> lock' = a
    BY <2>1, <2>2, <2>3 DEF LockedPcs
  <2> QED
    BY <1>0, <1>1, <2>2, <2>3, <2>4, <2>5, <2>6, <2>7, LockedStep
<1> QED
  BY <1>2, <1>3

\* It stages the new file.
LEMMA AddStageStep ==
  ASSUME InventoryInv, NEW a \in Admins, AddStage(a), UNCHANGED scenario
  PROVE  InventoryInv'
<1>0. /\ admin[a].pc = "read" /\ lock = a /\ UNCHANGED <<disk, mgr, raced, policy>>
      /\ admin[a].file \in Files /\ admin[a].dev \in NewDevices
      /\ admin[a].op = "add_device"
  BY DEF AddStage, InventoryInv, LockInv, OpInv, LockedPcs
<1>1. PolicyInv'
  BY <1>0, PolicyBuilt DEF PolicyInv
<1> DEFINE staged == Insert(disk[admin[a].file], admin[a].dev)
           rec == [admin[a] EXCEPT !.pc = "persist", !.new = staged, !.hash = staged,
                                   !.prev = mgr.inventory]
<1>2. staged \in Contents
  BY <1>0, InsertType DEF InventoryInv, InventoryTypes
<1> HIDE DEF staged
<1>3. \/ Done(a, "any") /\ lock' = Free
      \/ /\ admin' = [admin EXCEPT ![a].pc = "persist", ![a].new = staged, ![a].hash = staged,
                                   ![a].prev = mgr.inventory]
         /\ lock' = lock
  BY DEF AddStage, Done, staged
<1>4. CASE Done(a, "any") /\ lock' = Free
  BY <1>0, <1>1, <1>4, ReleaseStep
<1>5. CASE /\ admin' = [admin EXCEPT ![a].pc = "persist", ![a].new = staged, ![a].hash = staged,
                                     ![a].prev = mgr.inventory]
           /\ lock' = lock
  <2>1. mgr.inventory \in Contents
    BY DEF InventoryInv, InventoryTypes
  <2>2. /\ rec \in AdminRecs /\ rec.pc = "persist" /\ rec.op = admin[a].op
        /\ rec.file = admin[a].file /\ rec.dev = admin[a].dev /\ rec.new = staged
        /\ rec.hash = staged /\ rec.prev = mgr.inventory
    BY <1>2, <2>1 DEF AdminRecs, InventoryInv, InventoryTypes, LockedPcs
  <2>3. admin' = [admin EXCEPT ![a] = rec]
    BY <1>5 DEF InventoryInv, InventoryTypes
  <2> HIDE DEF rec
  <2>4. /\ admin' \in [Admins -> AdminRecs] /\ admin'[a] = rec
        /\ \A b \in Admins : b # a => admin'[b] = admin[b]
    BY <2>2, <2>3 DEF InventoryInv, InventoryTypes
  <2>5. OpInv(a)'
    BY <1>0, <1>2, <2>2, <2>4 DEF OpInv, LockedPcs
  <2>6. FileInv(a)'
    BY <1>0, <2>2, <2>4 DEF FileInv, staged
  <2>7. HashInv' /\ disk' \in [Files -> Contents]
        /\ mgr' \in [inventory : Contents, inventory_path : Files, inventory_hash : Contents]
    BY <1>0 DEF InventoryInv, InventoryTypes, HashInv
  <2>8. admin'[a].pc \in LockedPcs <=> lock' = a
    BY <1>0, <1>5, <2>2, <2>4 DEF LockedPcs
  <2> QED
    BY <1>0, <1>1, <1>5, <2>4, <2>5, <2>6, <2>7, <2>8, LockedStep
<1> QED
  BY <1>3, <1>4, <1>5

\* It renames the staged file into place, or fails.
LEMMA AddPersistStep ==
  ASSUME InventoryInv, NEW a \in Admins, AddPersist(a), UNCHANGED scenario
  PROVE  InventoryInv'
<1>0. /\ admin[a].pc = "persist" /\ lock = a /\ UNCHANGED <<mgr, raced, policy>>
      /\ admin[a].file \in Files /\ admin[a].new \in Contents
  BY DEF AddPersist, InventoryInv, LockInv, OpInv, LockedPcs
<1>1. PolicyInv'
  BY <1>0, PolicyBuilt DEF PolicyInv
<1>2. CASE Done(a, "any") /\ lock' = Free /\ UNCHANGED disk
  BY <1>0, <1>1, <1>2, ReleaseStep
<1>3. CASE /\ disk' = [disk EXCEPT ![admin[a].file] = admin[a].new]
           /\ admin' = [admin EXCEPT ![a].pc = "store"] /\ lock' = lock
  <2> DEFINE rec == [admin[a] EXCEPT !.pc = "store"]
  <2>1. /\ rec \in AdminRecs /\ rec.pc = "store" /\ rec.op = admin[a].op
        /\ rec.file = admin[a].file /\ rec.new = admin[a].new /\ rec.hash = admin[a].hash
        /\ rec.prev = admin[a].prev
    BY DEF AdminRecs, InventoryInv, InventoryTypes, LockedPcs
  <2>2. admin' = [admin EXCEPT ![a] = rec]
    BY <1>3 DEF InventoryInv, InventoryTypes
  <2> HIDE DEF rec
  <2>3. /\ admin' \in [Admins -> AdminRecs] /\ admin'[a] = rec
        /\ \A b \in Admins : b # a => admin'[b] = admin[b]
    BY <2>1, <2>2 DEF InventoryInv, InventoryTypes
  <2>4. OpInv(a)' /\ FileInv(a)'
    BY <1>0, <2>1, <2>3 DEF InventoryInv, OpInv, FileInv, LockedPcs
  <2>5. HashInv' /\ disk' \in [Files -> Contents]
        /\ mgr' \in [inventory : Contents, inventory_path : Files, inventory_hash : Contents]
    BY <1>0, <1>3 DEF InventoryInv, InventoryTypes, HashInv
  <2>6. admin'[a].pc \in LockedPcs <=> lock' = a
    BY <1>0, <1>3, <2>1, <2>3 DEF LockedPcs
  <2> QED
    BY <1>0, <1>1, <1>3, <2>3, <2>4, <2>5, <2>6, LockedStep
<1> QED
  BY <1>2, <1>3 DEF AddPersist, Done

\* A crash and a restart from the configured file.
LEMMA CrashStep ==
  ASSUME InventoryInv, Crash, UNCHANGED scenario
  PROVE  InventoryInv'
<1>1. /\ disk' = disk /\ lock' = Free /\ \A a \in Admins : admin'[a] = AdminIdle
      /\ mgr' = [inventory |-> disk[StartFile], inventory_path |-> StartFile,
                 inventory_hash |-> disk[StartFile]]
      /\ admin' \in [Admins -> AdminRecs] /\ policy' = Build(disk[StartFile])
  BY IdleType DEF Crash
<1>2. InventoryTypes'
  BY <1>1, FilesAssumption DEF InventoryInv, InventoryTypes
<1>3. LockInv'
  BY <1>1, IdleType, LockAssumption DEF LockInv, LockedPcs
<1>4. PolicyInv' /\ HashInv'
  BY <1>1 DEF PolicyInv, HashInv
<1> QED
  BY <1>1, <1>2, <1>3, <1>4, IdleKeeps DEF InventoryInv

\* The steps of calls leave everything but the pool alone.
LEMMA CallsKeepInventory ==
  ASSUME NEW c \in Calls,
         \/ \E req \in scenario.requests : LoadPolicy(c, req)
         \/ CheckBatch(c) \/ CheckSingle(c) \/ Collect(c) \/ Timeout(c) \/ Leave(c)
         \/ \E i \in DOMAIN task[c] :
              \/ Acquire(c, i) \/ OpenPooled(c, i) \/ OpenFresh(c, i) \/ Connect(c, i)
              \/ \E outcome \in {"ok", "error", "transient"} : Cli(c, i, outcome)
  PROVE  UNCHANGED <<disk, mgr, policy, lock, admin, readonly, want, raced, carried,
                     edits, adminCalls, scenario>>
BY DEF LoadPolicy, CheckBatch, CheckSingle, Collect, Timeout, Leave, Acquire, OpenPooled,
       OpenFresh, Connect, Cli, KeepInventory, inventoryVars

\* What does not change the inventory keeps its invariant.
LEMMA InventoryFrame ==
  ASSUME InventoryInv, UNCHANGED <<disk, mgr, policy, lock, admin, raced, scenario>>
  PROVE  InventoryInv'
<1>1. InventoryTypes' /\ LockInv' /\ PolicyInv' /\ HashInv'
  BY DEF InventoryInv, InventoryTypes, LockInv, PolicyInv, HashInv
<1>2. \A a \in Admins : OpInv(a)' /\ FileInv(a)'
  BY SameKeeps DEF InventoryInv
<1> QED
  BY <1>1, <1>2 DEF InventoryInv

\* Every step keeps the invariant of the inventory.
LEMMA StepInventory ==
  ASSUME InventoryInv, [Next]_vars
  PROVE  InventoryInv'
<1>0. /\ scenario.admins \subseteq Admins /\ scenario.edits \subseteq Contents
      /\ scenario.devices \subseteq NewDevices
  BY ScenariosAssumption DEF InventoryInv, InventoryTypes
<1>1. CASE AdminNext(scenario.admins, scenario.edits, scenario.devices, Out)
           /\ UNCHANGED callVars
  <2>0. UNCHANGED scenario
    BY <1>1 DEF callVars
  <2>1. ASSUME NEW f \in Files, NEW content \in scenario.edits, EditFile(f, content)
        PROVE  InventoryInv'
    BY <1>0, <2>0, <2>1, EditStep
  <2>2. ASSUME NEW a \in scenario.admins, NEW op \in {"reload_devices", "sighup"},
               NEW f \in Files \cup {Outside}, ReloadStart(a, op, f)
        PROVE  InventoryInv'
    BY <1>0, <2>0, <2>2, ReloadStartStep
  <2>3. ASSUME NEW a \in scenario.admins, NEW dev \in scenario.devices, AddValidate(a, dev)
        PROVE  InventoryInv'
    BY <1>0, <2>0, <2>3, AddValidateStep
  <2>4. ASSUME NEW a \in scenario.admins,
               ReloadLoad(a) \/ ReloadHash(a) \/ StoreInventory(a) \/ StorePolicy(a)
        PROVE  InventoryInv'
    BY <1>0, <2>0, <2>4, ReloadLoadStep, ReloadHashStep, StoreInventoryStep, StorePolicyStep
  <2>5. ASSUME NEW a \in scenario.admins, ReloadInvalidate(a, Out)
        PROVE  InventoryInv'
    BY <1>0, <2>0, <2>5, ReloadInvalidateStep
  <2>6. ASSUME NEW a \in scenario.admins, AddCheckHash(a) \/ AddStage(a) \/ AddPersist(a)
        PROVE  InventoryInv'
    BY <1>0, <2>0, <2>6, AddCheckHashStep, AddStageStep, AddPersistStep
  <2> QED
    BY <1>1, <2>1, <2>2, <2>3, <2>4, <2>5, <2>6 DEF AdminNext
<1>2. CASE CrashAll
  BY <1>2, CrashStep DEF CrashAll
<1>3. CASE UNCHANGED vars
  BY <1>3, InventoryFrame DEF vars, inventoryVars, callVars
<1>4. ASSUME NEW c \in Calls,
             \/ \E req \in scenario.requests : LoadPolicy(c, req)
             \/ CheckBatch(c) \/ CheckSingle(c) \/ Collect(c) \/ Timeout(c) \/ Leave(c)
             \/ \E i \in DOMAIN task[c] :
                  \/ Acquire(c, i) \/ OpenPooled(c, i) \/ OpenFresh(c, i) \/ Connect(c, i)
                  \/ \E outcome \in {"ok", "error", "transient"} : Cli(c, i, outcome)
      PROVE  InventoryInv'
  BY <1>4, CallsKeepInventory, InventoryFrame
<1>5. ASSUME NEW s \in Sessions, ReturnSession(s)
      PROVE  InventoryInv'
  BY <1>5, InventoryFrame DEF ReturnSession, KeepInventory
<1> QED
  BY <1>1, <1>2, <1>3, <1>4, <1>5 DEF Next

\* The invariant holds when the server starts.
LEMMA InitInventory == ASSUME Init PROVE InventoryInv
<1>1. /\ disk = [f \in Files |-> Initial] /\ lock = Free
      /\ \A a \in Admins : admin[a] = AdminIdle
      /\ mgr = [inventory |-> Initial, inventory_path |-> StartFile, inventory_hash |-> Initial]
      /\ admin \in [Admins -> AdminRecs] /\ policy = Build(Initial) /\ scenario \in Scenarios
  BY IdleType, FilesAssumption DEF Init, InventoryInit, CallsInit
<1>2. InventoryTypes
  BY <1>1, FilesAssumption, InitialAssumption DEF InventoryTypes
<1>3. LockInv
  BY <1>1, IdleType, LockAssumption DEF LockInv, LockedPcs
<1>4. PolicyInv /\ HashInv
  BY <1>1 DEF PolicyInv, HashInv
<1>5. \A a \in Admins : OpInv(a) /\ FileInv(a)
  BY <1>1, IdleType DEF OpInv, FileInv, LockedPcs
<1> QED
  BY <1>2, <1>3, <1>4, <1>5 DEF InventoryInv

\* The write lock serialises reloads and additions, and what each of them knows stays true.
THEOREM InventoryIsConsistent == Spec => []InventoryInv
<1>1. Init => InventoryInv
  BY InitInventory
<1>2. InventoryInv /\ [Next]_vars => InventoryInv'
  BY StepInventory
<1> QED
  BY <1>1, <1>2, PTL DEF Spec

\* PolicyMatchesInventory: whenever the write lock is free, after any errors, crashes and edits,
\* the policy in force is the one built from the inventory in memory.
THEOREM PolicyFollowsInventory == Spec => []PolicyMatchesInventory
<1>1. InventoryInv => PolicyMatchesInventory
  BY PolicyBuilt DEF PolicyMatchesInventory
<1> QED
  BY <1>1, InventoryIsConsistent, PTL

\* Only an editor and the rename of an addition write files, and both are accounted for.
LEMMA StepUpdates ==
  ASSUME InventoryInv, NoLostUpdate, [Next]_vars
  PROVE  NoLostUpdate'
<1>1. ASSUME UNCHANGED <<disk, want, raced>> PROVE NoLostUpdate'
  BY <1>1 DEF NoLostUpdate
<1>2. CASE AdminNext(scenario.admins, scenario.edits, scenario.devices, Out)
           /\ UNCHANGED callVars
  <2>0. scenario.admins \subseteq Admins
    BY ScenariosAssumption DEF InventoryInv, InventoryTypes
  <2>1. ASSUME NEW f \in Files, NEW content \in scenario.edits, EditFile(f, content)
        PROVE  NoLostUpdate'
    BY <2>1 DEF NoLostUpdate, EditFile
  <2>2. ASSUME NEW a \in scenario.admins, AddPersist(a)
        PROVE  NoLostUpdate'
    <3>1. CASE UNCHANGED <<disk, want>>
      BY <1>1, <2>2, <3>1 DEF AddPersist
    <3>2. CASE /\ disk' = [disk EXCEPT ![admin[a].file] = admin[a].new]
               /\ want' = [want EXCEPT ![admin[a].file] = Insert(@, admin[a].dev)]
      <4>1. "add_device" \in raced \/ admin[a].new = Insert(disk[admin[a].file], admin[a].dev)
        BY <2>0, <2>2 DEF AddPersist, InventoryInv, FileInv
      <4>2. raced' = raced
        BY <2>2 DEF AddPersist
      <4>3. CASE "add_device" \in raced
        BY <4>2, <4>3 DEF NoLostUpdate
      <4>4. CASE /\ admin[a].new = Insert(disk[admin[a].file], admin[a].dev)
                 /\ "add_device" \notin raced
        <5>1. disk = want
          BY <4>4 DEF NoLostUpdate
        <5> QED
          BY <3>2, <4>4, <5>1 DEF NoLostUpdate
      <4> QED
        BY <4>1, <4>3, <4>4
    <3> QED
      BY <2>2, <3>1, <3>2 DEF AddPersist
  <2>3. ASSUME \/ \E a \in scenario.admins, op \in {"reload_devices", "sighup"},
                     f \in Files \cup {Outside} : ReloadStart(a, op, f)
               \/ \E a \in scenario.admins, dev \in scenario.devices : AddValidate(a, dev)
               \/ \E a \in scenario.admins :
                    \/ ReloadLoad(a) \/ ReloadHash(a) \/ StoreInventory(a) \/ StorePolicy(a)
                    \/ ReloadInvalidate(a, Out) \/ AddCheckHash(a) \/ AddStage(a)
        PROVE  NoLostUpdate'
    <3>1. UNCHANGED <<disk, want, raced>>
      BY <2>3 DEF ReloadStart, AddValidate, ReloadLoad, ReloadHash, StoreInventory, StorePolicy,
                  ReloadInvalidate, AddCheckHash, AddStage
    <3> QED
      BY <1>1, <3>1
  <2> QED
    BY <1>2, <2>1, <2>2, <2>3 DEF AdminNext
<1>3. CASE CrashAll \/ UNCHANGED vars
  BY <1>1, <1>3 DEF CrashAll, Crash, vars, inventoryVars
<1>4. ASSUME NEW c \in Calls,
             \/ \E req \in scenario.requests : LoadPolicy(c, req)
             \/ CheckBatch(c) \/ CheckSingle(c) \/ Collect(c) \/ Timeout(c) \/ Leave(c)
             \/ \E i \in DOMAIN task[c] :
                  \/ Acquire(c, i) \/ OpenPooled(c, i) \/ OpenFresh(c, i) \/ Connect(c, i)
                  \/ \E outcome \in {"ok", "error", "transient"} : Cli(c, i, outcome)
      PROVE  NoLostUpdate'
  BY <1>1, <1>4, CallsKeepInventory
<1>5. ASSUME NEW s \in Sessions, ReturnSession(s)
      PROVE  NoLostUpdate'
  BY <1>1, <1>5 DEF ReturnSession, KeepInventory
<1> QED
  BY <1>2, <1>3, <1>4, <1>5 DEF Next

\* NoLostUpdate: unless an editor saved a file during an addition, every file holds every
\* acknowledged change, across concurrent additions, reloads, drift and crashes.
THEOREM UpdatesAreKept == Spec => []NoLostUpdate
<1>1. Init => NoLostUpdate
  BY DEF Init, InventoryInit, NoLostUpdate
<1>2. InventoryInv /\ NoLostUpdate /\ [Next]_vars => NoLostUpdate'
  BY StepUpdates
<1> QED
  BY <1>1, <1>2, InventoryIsConsistent, PTL DEF Spec
-----------------------------------------------------------------------------
(* Calls: the inductive invariant *)

ActiveCalls ==
    [pc : {"check", "running"}, req : ToolRequests, policy : {Build(x) : x \in Contents},
     seen : SUBSET Contents, answer : {[kind |-> "none"]}]
Outcomes == {"ok", "error", "transient", "unknown", "connect"}
TaskRecs ==
    [pc : {"queued", "open", "connecting", "cli", "done"}, to : Addresses \cup {NoAddr},
     retried : BOOLEAN, outs : Seq(Outcomes)]

\* The policy a call took lets it send a command.
Checked(c, i, k) ==
    Domain(call[c].req.tool) # "none" =>
        check_command(call[c].policy, Domain(call[c].req.tool), Router(c, i),
                      call[c].req.commands[k])

\* A task has answered for fewer commands than were asked until it is done, and reports as run
\* what it ran.
OutsInv(c, i) ==
    /\ IF task[c][i].pc = "done" THEN Len(task[c][i].outs) = Len(call[c].req.commands)
       ELSE Len(task[c][i].outs) < Len(call[c].req.commands)
    /\ \A k \in DOMAIN task[c][i].outs :
         task[c][i].outs[k] = "ok" => [c |-> c, i |-> i, k |-> k] \in ran

\* A task that may still send commands was checked for all of them.
TasksInv(c) ==
    /\ DOMAIN task[c] = Indices(c) /\ Indices(c) # {}
    /\ \A i \in Indices(c) :
         /\ task[c][i] \in TaskRecs /\ OutsInv(c, i)
         /\ task[c][i].pc # "done" => \A k \in DOMAIN call[c].req.commands : Checked(c, i, k)

\* What a call has sent, it was checked for.
RanInv(c) ==
    \A x \in ran : x.c = c =>
        /\ call[c].pc \in {"running", "replied"}
        /\ call[c].pc = "running" =>
             x.i \in Indices(c) /\ x.k \in DOMAIN call[c].req.commands /\ Checked(c, x.i, x.k)

AnswerInv(c) ==
    call[c].answer.kind = "results" =>
        \A i \in Indices(c) :
            /\ Len(call[c].answer.results[i]) = Len(call[c].req.commands)
            /\ \A k \in DOMAIN call[c].answer.results[i] :
                 call[c].answer.results[i][k] = "ok" =>
                    \E x \in ran : x.c = c /\ x.i = i /\ x.k = k

CallInv(c) ==
    /\ call[c].pc \in {"idle", "check", "running", "replied"}
    /\ call[c].pc \in {"check", "running"} =>
         /\ call[c] \in ActiveCalls
         /\ \E content \in call[c].seen : call[c].policy = Build(content)
    /\ call[c].pc = "running" => TasksInv(c)
    /\ call[c].pc # "running" => task[c] = <<>>
    /\ call[c].pc = "replied" => AnswerInv(c)
    /\ RanInv(c)

CallsInv ==
    /\ DOMAIN call = Calls /\ DOMAIN task = Calls
    /\ ran \subseteq [c : Calls, i : Nat, k : Nat]
    /\ \A c \in Calls : CallInv(c)

PoolTypes ==
    /\ pool \in [Routers -> Addresses \cup {NoAddr}]
    /\ returning \in [Sessions -> Nat]

-----------------------------------------------------------------------------
(* One lemma per step of a call *)

\* A call that no step of its own touches.
LEMMA OtherCall ==
  ASSUME NEW d \in Calls, CallInv(d), call'[d] = call[d], task'[d] = task[d],
         \A x : x.c = d => (x \in ran' <=> x \in ran)
  PROVE  CallInv(d)'
<1>1. \A i, k : [c |-> d, i |-> i, k |-> k] \in ran <=> [c |-> d, i |-> i, k |-> k] \in ran'
  OBVIOUS
<1>2. /\ Indices(d)' = Indices(d) /\ \A i : Router(d, i)' = Router(d, i)
      /\ \A i, k : Checked(d, i, k)' = Checked(d, i, k)
  BY DEF Indices, Router, Checked
<1>3. TasksInv(d) <=> TasksInv(d)'
  BY <1>1, <1>2 DEF TasksInv, OutsInv
<1>4. RanInv(d)'
  BY <1>2 DEF CallInv, RanInv
<1>5. AnswerInv(d) => AnswerInv(d)'
  BY <1>2 DEF AnswerInv
<1> QED
  BY <1>3, <1>4, <1>5 DEF CallInv

\* A step of one call leaves the others alone.
LEMMA CallStep ==
  ASSUME CallsInv, NEW c \in Calls, DOMAIN call' = Calls, DOMAIN task' = Calls,
         \A d \in Calls : d # c => call'[d] = call[d] /\ task'[d] = task[d],
         \A x : x.c # c => (x \in ran' <=> x \in ran),
         ran' \subseteq [c : Calls, i : Nat, k : Nat], CallInv(c)'
  PROVE  CallsInv'
<1>1. ASSUME NEW d \in Calls PROVE CallInv(d)'
  BY OtherCall DEF CallsInv
<1> QED
  BY <1>1 DEF CallsInv

\* Before a call runs, and after a refusal, it has sent nothing.
LEMMA NothingSent ==
  ASSUME NEW c \in Calls, CallInv(c), call[c].pc \in {"idle", "check"}
  PROVE  \A x \in ran : x.c # c
BY DEF CallInv, RanInv

\* A step that sends nothing and does not reply.
LEMMA LoadPolicyCalls ==
  ASSUME InventoryInv, CallsInv, NEW c \in Calls, NEW req \in ToolRequests, LoadPolicy(c, req)
  PROVE  CallsInv'
<1> DEFINE rec == [pc |-> "check", req |-> req, policy |-> policy, seen |-> InForce,
                   answer |-> [kind |-> "none"]]
<1>1. InForce \subseteq Contents /\ mgr.inventory \in InForce
  BY DEF InForce, InventoryInv, InventoryTypes, OpInv
<1>2. \E content \in InForce : policy = Build(content)
  BY DEF InventoryInv, PolicyInv, InForce
<1>3. rec \in ActiveCalls
  BY <1>1, <1>2 DEF ActiveCalls
<1>4. /\ rec.pc = "check" /\ rec.policy = policy /\ rec.seen = InForce
      /\ call' = [call EXCEPT ![c] = rec] /\ UNCHANGED <<task, ran>> /\ call[c].pc = "idle"
  BY DEF LoadPolicy
<1> HIDE DEF rec
<1>5. call'[c] = rec /\ DOMAIN call' = Calls /\ \A d \in Calls : d # c => call'[d] = call[d]
  BY <1>4 DEF CallsInv
<1>6. RanInv(c)'
  BY <1>4, NothingSent DEF RanInv, CallsInv
<1>7. CallInv(c)'
  BY <1>2, <1>3, <1>4, <1>5, <1>6 DEF CallInv, CallsInv
<1> QED
  BY <1>4, <1>5, <1>7, CallStep DEF CallsInv

\* A call that replies keeps its request and no task.
LEMMA ReplyCalls ==
  ASSUME CallsInv, NEW c \in Calls, NEW answer, Reply(c, answer), ran' = ran,
         task'[c] = <<>>, DOMAIN task' = Calls, \A d \in Calls : d # c => task'[d] = task[d],
         answer.kind = "results" =>
           \A i \in Indices(c) :
              /\ Len(answer.results[i]) = Len(call[c].req.commands)
              /\ \A k \in DOMAIN answer.results[i] : answer.results[i][k] = "ok" =>
                    \E x \in ran : x.c = c /\ x.i = i /\ x.k = k
  PROVE  CallsInv'
<1>1. /\ call'[c].pc = "replied" /\ call'[c].req = call[c].req /\ call'[c].answer = answer
      /\ DOMAIN call' = Calls /\ \A d \in Calls : d # c => call'[d] = call[d]
  BY DEF Reply, CallsInv
<1>3. Indices(c)' = Indices(c)
  BY <1>1 DEF Indices
<1>4. AnswerInv(c)'
  BY <1>1, <1>3 DEF AnswerInv
<1>5. RanInv(c)'
  BY <1>1 DEF RanInv
<1>6. CallInv(c)'
  BY <1>1, <1>4, <1>5 DEF CallInv
<1> QED
  BY <1>1, <1>6, CallStep DEF CallsInv

\* A refusal: the call had no task yet.
LEMMA RefuseCalls ==
  ASSUME CallsInv, NEW c \in Calls, NEW why, Refuse(c, why), UNCHANGED <<task, ran>>,
         call[c].pc = "check"
  PROVE  CallsInv'
<1>1. task'[c] = <<>> /\ DOMAIN task' = Calls
  BY DEF CallsInv, CallInv
<1> QED
  BY <1>1, ReplyCalls DEF Refuse

\* One failure for each command.
LEMMA FailedOuts ==
  ASSUME NEW S, NEW T, NEW cmds \in Seq(S), NEW why \in T
  PROVE  /\ [k \in DOMAIN cmds |-> why] \in Seq(T)
         /\ Len([k \in DOMAIN cmds |-> why]) = Len(cmds)
<1>1. DOMAIN cmds = 1 .. Len(cmds) /\ Len(cmds) \in Nat
  OBVIOUS
<1> QED
  BY <1>1

\* The types of a request.
LEMMA RequestTypes ==
  ASSUME NEW req \in ToolRequests
  PROVE  /\ req.devices \in Seq(Routers) /\ req.commands \in Seq(Commands)
         /\ DOMAIN req.devices = 1 .. Len(req.devices) /\ Len(req.devices) \in Nat
         /\ DOMAIN req.commands = 1 .. Len(req.commands) /\ Len(req.commands) \in Nat
         /\ req.tool # BatchTool => Len(req.devices) = 1 /\ Len(req.commands) = 1
BY DEF ToolRequests

\* The checks passed: the call starts its tasks.
LEMMA StartCalls ==
  ASSUME CallsInv, NEW c \in Calls, call[c].pc = "check",
         call' = [call EXCEPT ![c].pc = "running"], ran' = ran,
         NEW tasks, task' = [task EXCEPT ![c] = tasks], DOMAIN tasks = Indices(c),
         Indices(c) # {},
         \A i \in Indices(c) :
            /\ tasks[i] \in TaskRecs
            /\ IF tasks[i].pc = "done"
               THEN tasks[i].outs = Failed(c, i, "unknown")
               ELSE tasks[i].outs = <<>> /\ Len(call[c].req.commands) > 0
            /\ tasks[i].pc # "done" => \A k \in DOMAIN call[c].req.commands : Checked(c, i, k)
  PROVE  CallsInv'
<1>1. call[c] \in ActiveCalls /\ \E content \in call[c].seen : call[c].policy = Build(content)
  BY DEF CallsInv, CallInv
<1>2. /\ call'[c] = [call[c] EXCEPT !.pc = "running"] /\ DOMAIN call' = Calls
      /\ \A d \in Calls : d # c => call'[d] = call[d]
      /\ task'[c] = tasks /\ DOMAIN task' = Calls
      /\ \A d \in Calls : d # c => task'[d] = task[d]
  BY DEF CallsInv
<1>3. /\ call'[c] \in ActiveCalls /\ call'[c].pc = "running" /\ call'[c].req = call[c].req
      /\ call'[c].policy = call[c].policy /\ call'[c].seen = call[c].seen
  BY <1>1, <1>2 DEF ActiveCalls
<1>4. /\ Indices(c)' = Indices(c) /\ \A i, k : Checked(c, i, k)' <=> Checked(c, i, k)
  BY <1>3 DEF Indices, Checked, Router
<1>5. call[c].req \in ToolRequests
  BY <1>1 DEF ActiveCalls
<1>6. RanInv(c)'
  BY NothingSent DEF RanInv, CallsInv
<1>7. ASSUME NEW i \in Indices(c) PROVE OutsInv(c, i)'
  <2>1. CASE tasks[i].pc = "done"
    BY <1>2, <1>3, <1>5, <2>1, FailedOuts, RequestTypes DEF OutsInv, Failed
  <2>2. CASE tasks[i].pc # "done"
    BY <1>2, <1>3, <1>5, <2>2, RequestTypes DEF OutsInv
  <2> QED
    BY <2>1, <2>2
<1>8. TasksInv(c)'
  BY <1>2, <1>3, <1>4, <1>7 DEF TasksInv
<1>9. CallInv(c)'
  BY <1>1, <1>3, <1>6, <1>8 DEF CallInv
<1> QED
  BY <1>2, <1>9, CallStep DEF CallsInv

\* A new task.
LEMMA NewTaskTypes ==
  /\ \A pc \in {"queued", "open", "done"} :
        NewTask(pc) \in TaskRecs /\ NewTask(pc).pc = pc /\ NewTask(pc).outs = <<>>
  /\ \A outs \in Seq(Outcomes) :
        /\ [NewTask("done") EXCEPT !.outs = outs] \in TaskRecs
        /\ [NewTask("done") EXCEPT !.outs = outs].pc = "done"
        /\ [NewTask("done") EXCEPT !.outs = outs].outs = outs
<1>1. <<>> \in Seq(Outcomes)
  OBVIOUS
<1> QED
  BY <1>1 DEF NewTask, TaskRecs

\* A batch is refused as a whole or starts a task for every device.
LEMMA CheckBatchCalls ==
  ASSUME CallsInv, NEW c \in Calls, CheckBatch(c)
  PROVE  CallsInv'
<1> DEFINE req   == call[c].req
           valid == {i \in Indices(c) : req.devices[i] \in Names(mgr.inventory)}
           denied == \E i \in valid, k \in DOMAIN req.commands :
                        ~check_command(call[c].policy, "commands", req.devices[i], req.commands[k])
           tasks == [i \in Indices(c) |->
                       IF i \in valid THEN NewTask("queued")
                       ELSE [NewTask("done") EXCEPT !.outs = Failed(c, i, "unknown")]]
<1>1. call[c].pc = "check" /\ req.tool = BatchTool /\ ran' = ran /\ req \in ToolRequests
  BY DEF CheckBatch, IsBatch, CallsInv, CallInv, ActiveCalls
<1>2. CASE BatchRefused(req) \/ denied
  BY <1>1, <1>2, RefuseCalls DEF CheckBatch
<1>3. CASE ~(BatchRefused(req) \/ denied)
  <2>1. /\ call' = [call EXCEPT ![c].pc = "running"]
        /\ task' = [task EXCEPT ![c] = tasks]
    BY <1>3 DEF CheckBatch
  <2>2. Len(req.commands) > 0 /\ Indices(c) # {}
    BY <1>1, <1>3, RequestTypes DEF BatchRefused, Indices
  <2>3. \A i : Failed(c, i, "unknown") \in Seq(Outcomes)
    <3>1. req.commands \in Seq(Commands)
      BY <1>1, RequestTypes
    <3>2. "unknown" \in Outcomes
      BY DEF Outcomes
    <3>3. [k \in DOMAIN req.commands |-> "unknown"] \in Seq(Outcomes)
      BY <3>1, <3>2, FailedOuts
    <3> QED
      BY <3>3 DEF Failed
  <2>4. ASSUME NEW i \in Indices(c)
        PROVE  /\ tasks[i] \in TaskRecs
               /\ IF tasks[i].pc = "done" THEN tasks[i].outs = Failed(c, i, "unknown")
                  ELSE tasks[i].outs = <<>> /\ Len(req.commands) > 0
               /\ tasks[i].pc # "done" => i \in valid
    BY <2>2, <2>3, NewTaskTypes
  <2>5. Domain(req.tool) = "commands"
    BY <1>1 DEF Domain, Tool, BatchTool
  <2>6. ASSUME NEW i \in valid, NEW k \in DOMAIN req.commands PROVE Checked(c, i, k)
    BY <1>3, <2>5 DEF Checked, Router
  <2>7. DOMAIN tasks = Indices(c)
    OBVIOUS
  <2> HIDE DEF tasks, valid
  <2> QED
    BY <1>1, <2>1, <2>2, <2>4, <2>6, <2>7, StartCalls
<1> QED
  BY <1>2, <1>3

\* A single-device tool is refused or opens its session.
LEMMA CheckSingleCalls ==
  ASSUME CallsInv, NEW c \in Calls, CheckSingle(c)
  PROVE  CallsInv'
<1> DEFINE req == call[c].req
           r   == req.devices[1]
           domain == Domain(req.tool)
<1>1. call[c].pc = "check" /\ req.tool # BatchTool /\ ran' = ran /\ req \in ToolRequests
  BY DEF CheckSingle, IsBatch, CallsInv, CallInv, ActiveCalls
<1>2. CASE \E why : Refuse(c, why) /\ UNCHANGED task
  BY <1>1, <1>2, RefuseCalls
<1>3. CASE ~ \E why : Refuse(c, why) /\ UNCHANGED task
  <2>1. /\ call' = [call EXCEPT ![c].pc = "running"]
        /\ task' = [task EXCEPT ![c] = <<NewTask("open")>>]
        /\ domain # "none" => check_command(call[c].policy, domain, r, req.commands[1])
    BY <1>3 DEF CheckSingle
  <2> DEFINE tasks == <<NewTask("open")>>
  <2>2. Len(req.commands) = 1 /\ Indices(c) = {1} /\ DOMAIN req.commands = {1}
    BY <1>1, RequestTypes DEF Indices
  <2>3. DOMAIN tasks = {1} /\ tasks[1] = NewTask("open")
    OBVIOUS
  <2>4. NewTask("open") \in TaskRecs /\ NewTask("open").pc = "open" /\ NewTask("open").outs = <<>>
    BY NewTaskTypes
  <2>5. Checked(c, 1, 1)
    BY <2>1 DEF Checked, Router
  <2>6. /\ DOMAIN tasks = Indices(c)
        /\ \A i \in Indices(c) :
            /\ tasks[i] \in TaskRecs
            /\ IF tasks[i].pc = "done" THEN tasks[i].outs = Failed(c, i, "unknown")
               ELSE tasks[i].outs = <<>> /\ Len(req.commands) > 0
            /\ tasks[i].pc # "done" => \A k \in DOMAIN req.commands : Checked(c, i, k)
    BY <2>2, <2>3, <2>4, <2>5
  <2>7. task' = [task EXCEPT ![c] = tasks] /\ Indices(c) # {}
    BY <2>1, <2>2
  <2> HIDE DEF tasks
  <2> QED
    BY <1>1, <2>1, <2>6, <2>7, StartCalls
<1> QED
  BY <1>2, <1>3

\* What is known of a call that runs, and of its tasks.
LEMMA RunningCall ==
  ASSUME CallsInv, NEW c \in Calls, call[c].pc = "running"
  PROVE  /\ call[c].req \in ToolRequests /\ call[c] \in ActiveCalls /\ TasksInv(c)
         /\ DOMAIN task[c] = Indices(c) /\ Indices(c) \subseteq Nat
BY RequestTypes DEF CallsInv, CallInv, ActiveCalls, TasksInv, Indices

\* A step of one task: it may send one command that was checked.
LEMMA TaskStep ==
  ASSUME CallsInv, NEW c \in Calls, NEW i \in DOMAIN task[c], call[c].pc = "running",
         UNCHANGED call, NEW t \in TaskRecs, SetTask(c, i, t), t.pc # "done" => task[c][i].pc # "done",
         IF t.pc = "done" THEN Len(t.outs) = Len(call[c].req.commands)
         ELSE Len(t.outs) < Len(call[c].req.commands),
         NEW k \in DOMAIN call[c].req.commands, task[c][i].pc # "done",
         ran' \in {ran, ran \cup {[c |-> c, i |-> i, k |-> k]}},
         \A j \in DOMAIN t.outs : t.outs[j] = "ok" => [c |-> c, i |-> i, k |-> j] \in ran'
  PROVE  CallsInv'
<1>1. /\ call[c].req \in ToolRequests /\ call[c] \in ActiveCalls /\ TasksInv(c)
      /\ DOMAIN task[c] = Indices(c) /\ i \in Indices(c) /\ i \in Nat /\ k \in Nat
  BY RunningCall, RequestTypes
<1>2. /\ DOMAIN task' = Calls /\ \A d \in Calls : d # c => task'[d] = task[d]
      /\ task'[c] = [task[c] EXCEPT ![i] = t] /\ DOMAIN task'[c] = Indices(c)
      /\ task'[c][i] = t /\ \A j \in Indices(c) : j # i => task'[c][j] = task[c][j]
  BY <1>1 DEF SetTask, CallsInv
<1>3. /\ Indices(c)' = Indices(c) /\ \A j, n : Checked(c, j, n)' <=> Checked(c, j, n)
  BY DEF Indices, Checked, Router
<1>4. Checked(c, i, k)
  BY <1>1 DEF TasksInv
<1>5. /\ ran' \subseteq [c : Calls, i : Nat, k : Nat] /\ ran \subseteq ran'
      /\ \A x : x.c # c => (x \in ran' <=> x \in ran)
  BY <1>1 DEF CallsInv
<1>6. RanInv(c)'
  BY <1>1, <1>3, <1>4 DEF RanInv, CallsInv, CallInv
<1>7. \A j \in Indices(c) : OutsInv(c, j)'
  BY <1>1, <1>2, <1>5 DEF TasksInv, OutsInv
<1>8. TasksInv(c)'
  BY <1>1, <1>2, <1>3, <1>7 DEF TasksInv
<1>9. CallInv(c)'
  BY <1>1, <1>6, <1>8 DEF CallInv, CallsInv
<1> QED
  BY <1>2, <1>5, <1>9, CallStep DEF CallsInv

\* An unfinished task has answered for fewer commands than were asked.
LEMMA Unfinished ==
  ASSUME CallsInv, NEW c \in Calls, NEW i \in DOMAIN task[c], call[c].pc = "running",
         task[c][i].pc # "done"
  PROVE  /\ task[c][i] \in TaskRecs /\ task[c][i].outs \in Seq(Outcomes)
         /\ Len(task[c][i].outs) \in Nat /\ Len(task[c][i].outs) < Len(call[c].req.commands)
         /\ DOMAIN call[c].req.commands = 1 .. Len(call[c].req.commands)
         /\ Len(call[c].req.commands) \in Nat /\ 1 \in DOMAIN call[c].req.commands
         /\ \A k \in DOMAIN task[c][i].outs :
              task[c][i].outs[k] = "ok" => [c |-> c, i |-> i, k |-> k] \in ran
<1>1. /\ call[c].req \in ToolRequests /\ task[c][i] \in TaskRecs /\ OutsInv(c, i)
  BY RunningCall DEF TasksInv
<1>2. task[c][i].outs \in Seq(Outcomes)
  BY <1>1 DEF TaskRecs
<1>3. Len(task[c][i].outs) \in Nat
  BY <1>2
<1>4. /\ DOMAIN call[c].req.commands = 1 .. Len(call[c].req.commands)
      /\ Len(call[c].req.commands) \in Nat
  BY <1>1, RequestTypes
<1>5. /\ Len(task[c][i].outs) < Len(call[c].req.commands)
      /\ \A k \in DOMAIN task[c][i].outs :
           task[c][i].outs[k] = "ok" => [c |-> c, i |-> i, k |-> k] \in ran
  BY <1>1 DEF OutsInv
<1> QED
  BY <1>1, <1>2, <1>3, <1>4, <1>5

\* A step of a task that sends nothing and goes on with what it has.
LEMMA QuietStep ==
  ASSUME CallsInv, NEW c \in Calls, NEW i \in DOMAIN task[c], call[c].pc = "running",
         UNCHANGED <<call, ran>>, task[c][i].pc # "done",
         NEW t \in TaskRecs, t.pc # "done", t.outs = task[c][i].outs, SetTask(c, i, t)
  PROVE  CallsInv'
BY Unfinished, TaskStep

\* A step of a task that fails for all its commands.
LEMMA FailStep ==
  ASSUME CallsInv, NEW c \in Calls, NEW i \in DOMAIN task[c], call[c].pc = "running",
         UNCHANGED <<call, ran>>, task[c][i].pc # "done", NEW why \in {"unknown", "connect"},
         SetTask(c, i, [task[c][i] EXCEPT !.pc = "done", !.outs = Failed(c, i, why)])
  PROVE  CallsInv'
<1> DEFINE cmds == call[c].req.commands
           outs == [k \in DOMAIN cmds |-> why]
           t == [task[c][i] EXCEPT !.pc = "done", !.outs = outs]
<1>1. cmds \in Seq(Commands)
  BY RunningCall, RequestTypes
<1>2. why \in Outcomes /\ why # "ok"
  BY DEF Outcomes
<1> HIDE DEF cmds
<1>3. outs \in Seq(Outcomes) /\ Len(outs) = Len(cmds)
  BY <1>1, <1>2, FailedOuts
<1>4. \A k \in DOMAIN outs : outs[k] # "ok"
  BY <1>2
<1> HIDE DEF outs
<1>5. t \in TaskRecs /\ t.pc = "done" /\ t.outs = outs
  BY <1>3, Unfinished DEF TaskRecs
<1>6. SetTask(c, i, t)
  BY DEF Failed, outs, cmds
<1> HIDE DEF t
<1>7. Len(t.outs) = Len(call[c].req.commands)
  BY <1>3, <1>5 DEF cmds
<1> QED
  BY <1>4, <1>5, <1>6, <1>7, Unfinished, TaskStep

\* The steps of a task up to the first command.
LEMMA AcquireCalls ==
  ASSUME CallsInv, NEW c \in Calls, NEW i \in DOMAIN task[c], Acquire(c, i)
  PROVE  CallsInv'
<1> DEFINE t == [task[c][i] EXCEPT !.pc = "open"]
<1>1. call[c].pc = "running" /\ task[c][i].pc # "done" /\ UNCHANGED <<call, ran>> /\ SetTask(c, i, t)
  BY DEF Acquire
<1>2. t \in TaskRecs /\ t.pc # "done" /\ t.outs = task[c][i].outs
  BY <1>1, Unfinished DEF TaskRecs
<1> HIDE DEF t
<1> QED
  BY <1>1, <1>2, QuietStep

\* The router of a task is a device name.
LEMMA RouterType ==
  ASSUME CallsInv, NEW c \in Calls, NEW i \in DOMAIN task[c], call[c].pc = "running"
  PROVE  Router(c, i) \in Routers
BY RunningCall, RequestTypes DEF Router, Indices

\* A task that takes a session from the pool keeps what it was given and has done.
LEMMA OpenPooledCalls ==
  ASSUME CallsInv, PoolTypes, NEW c \in Calls, NEW i \in DOMAIN task[c], OpenPooled(c, i)
  PROVE  CallsInv' /\ PoolTypes'
<1> DEFINE r == Router(c, i)
           t == [task[c][i] EXCEPT !.pc = "cli", !.to = pool[r]]
<1>1. call[c].pc = "running" /\ task[c][i].pc # "done" /\ UNCHANGED <<call, ran>> /\ SetTask(c, i, t)
  BY DEF OpenPooled
<1>2. pool[r] \in Addresses \cup {NoAddr} /\ PoolTypes'
  BY <1>1, RouterType DEF PoolTypes, OpenPooled
<1>3. t \in TaskRecs /\ t.pc # "done" /\ t.outs = task[c][i].outs
  BY <1>1, <1>2, Unfinished DEF TaskRecs
<1> HIDE DEF t
<1> QED
  BY <1>1, <1>2, <1>3, QuietStep

\* So does a task that asks for a fresh session.
LEMMA OpenFreshCalls ==
  ASSUME InventoryInv, CallsInv, PoolTypes, NEW c \in Calls, NEW i \in DOMAIN task[c],
         OpenFresh(c, i)
  PROVE  CallsInv' /\ PoolTypes'
<1> DEFINE r == Router(c, i)
           ip == mgr.inventory.devices[r].ip
           t == [task[c][i] EXCEPT !.pc = "connecting", !.to = ip]
<1>1. call[c].pc = "running" /\ task[c][i].pc # "done" /\ UNCHANGED <<call, ran>>
  BY DEF OpenFresh
<1>2. PoolTypes'
  BY DEF PoolTypes, OpenFresh
<1>3. CASE r \in Names(mgr.inventory)
  <2>1. mgr.inventory.devices \in [Routers -> DeviceEntries]
    BY DEF InventoryInv, InventoryTypes, Contents
  <2>2. ip \in Addresses \cup {NoAddr}
    BY <1>3, <2>1 DEF Names, DeviceEntries
  <2>3. SetTask(c, i, t)
    BY <1>3 DEF OpenFresh
  <2> HIDE DEF ip
  <2>4. t \in TaskRecs /\ t.pc # "done" /\ t.outs = task[c][i].outs
    BY <1>1, <2>2, Unfinished DEF TaskRecs
  <2> HIDE DEF t
  <2> QED
    BY <1>1, <1>2, <2>3, <2>4, QuietStep
<1>4. CASE r \notin Names(mgr.inventory)
  BY <1>1, <1>2, <1>4, FailStep DEF OpenFresh
<1> QED
  BY <1>3, <1>4

\* A task whose connection comes up goes on, one whose connection fails answers so.
LEMMA ConnectCalls ==
  ASSUME CallsInv, NEW c \in Calls, NEW i \in DOMAIN task[c], Connect(c, i)
  PROVE  CallsInv'
<1> DEFINE t == [task[c][i] EXCEPT !.pc = "cli"]
<1>1. call[c].pc = "running" /\ task[c][i].pc # "done" /\ UNCHANGED <<call, ran>>
  BY DEF Connect
<1>2. t \in TaskRecs /\ t.pc # "done" /\ t.outs = task[c][i].outs
  BY <1>1, Unfinished DEF TaskRecs
<1>3. CASE SetTask(c, i, t)
  <2> HIDE DEF t
  <2> QED
    BY <1>1, <1>2, <1>3, QuietStep
<1>4. CASE SetTask(c, i, [task[c][i] EXCEPT !.pc = "done", !.outs = Failed(c, i, "connect")])
  BY <1>1, <1>4, FailStep
<1> QED
  BY <1>3, <1>4 DEF Connect

\* A command is sent: retried, the last one, or one of several.
LEMMA CliCalls ==
  ASSUME CallsInv, PoolTypes, NEW c \in Calls, NEW i \in DOMAIN task[c],
         NEW outcome \in {"ok", "error", "transient"}, Cli(c, i, outcome)
  PROVE  CallsInv' /\ PoolTypes'
<1> DEFINE t    == task[c][i]
           outs == Append(t.outs, outcome)
           cmds == call[c].req.commands
           retry == [t EXCEPT !.pc = "open", !.to = NoAddr, !.retried = TRUE]
           done == [t EXCEPT !.pc = "done", !.to = NoAddr, !.outs = outs]
           go   == [t EXCEPT !.outs = outs]
<1>1. /\ call[c].pc = "running" /\ t.pc = "cli" /\ UNCHANGED call
      /\ ran' = ran \cup {[c |-> c, i |-> i, k |-> Len(outs)]}
  BY DEF Cli
<1>2. /\ t \in TaskRecs /\ t.outs \in Seq(Outcomes) /\ Len(t.outs) \in Nat
      /\ Len(t.outs) < Len(cmds) /\ DOMAIN cmds = 1 .. Len(cmds) /\ Len(cmds) \in Nat
      /\ \A k \in DOMAIN t.outs : t.outs[k] = "ok" => [c |-> c, i |-> i, k |-> k] \in ran
  BY <1>1, Unfinished
<1>3. outcome \in Outcomes
  BY DEF Outcomes
<1>4. outs \in Seq(Outcomes) /\ Len(outs) = Len(t.outs) + 1 /\ DOMAIN t.outs = 1 .. Len(t.outs)
  BY <1>2, <1>3
<1>5. DOMAIN outs = 1 .. Len(outs) /\ Len(outs) \in DOMAIN cmds
      /\ \A k \in DOMAIN outs : (k \in DOMAIN t.outs /\ outs[k] = t.outs[k]) \/ k = Len(outs)
  BY <1>2, <1>3, <1>4
<1>6. /\ \A k \in DOMAIN outs : outs[k] = "ok" => [c |-> c, i |-> i, k |-> k] \in ran'
      /\ \A k \in DOMAIN t.outs : t.outs[k] = "ok" => [c |-> c, i |-> i, k |-> k] \in ran'
  BY <1>1, <1>2, <1>5
<1>7. PoolTypes'
  BY DEF PoolTypes, Cli, SpawnReturns
<1> HIDE DEF outs
<1>8. /\ retry \in TaskRecs /\ retry.pc = "open" /\ retry.outs = t.outs
      /\ done \in TaskRecs /\ done.pc = "done" /\ done.outs = outs
      /\ go \in TaskRecs /\ go.pc = "cli" /\ go.outs = outs
  BY <1>1, <1>2, <1>4 DEF TaskRecs
<1>9. \/ SetTask(c, i, retry)
      \/ Len(outs) = Len(cmds) /\ SetTask(c, i, done)
      \/ Len(outs) # Len(cmds) /\ SetTask(c, i, go)
  BY DEF Cli, outs
<1> HIDE DEF retry, done, go
<1>10. PICK k \in DOMAIN cmds : ran' \in {ran, ran \cup {[c |-> c, i |-> i, k |-> k]}}
  BY <1>1, <1>5
<1>11. CASE SetTask(c, i, retry)
  <2>1. Len(retry.outs) < Len(cmds) /\ retry.pc # "done"
        /\ \A j \in DOMAIN retry.outs : retry.outs[j] = "ok" => [c |-> c, i |-> i, k |-> j] \in ran'
    BY <1>2, <1>6, <1>8
  <2> QED
    BY <1>1, <1>7, <1>8, <1>10, <1>11, <2>1, TaskStep
<1>12. CASE Len(outs) = Len(cmds) /\ SetTask(c, i, done)
  <2>1. Len(done.outs) = Len(cmds) /\ done.pc = "done"
        /\ \A j \in DOMAIN done.outs : done.outs[j] = "ok" => [c |-> c, i |-> i, k |-> j] \in ran'
    BY <1>6, <1>8, <1>12
  <2> QED
    BY <1>1, <1>7, <1>8, <1>10, <1>12, <2>1, TaskStep
<1>13. CASE Len(outs) # Len(cmds) /\ SetTask(c, i, go)
  <2>1. Len(go.outs) < Len(cmds) /\ go.pc # "done"
        /\ \A j \in DOMAIN go.outs : go.outs[j] = "ok" => [c |-> c, i |-> i, k |-> j] \in ran'
    <3>1. Len(outs) = Len(t.outs) + 1 /\ Len(t.outs) \in Nat
      BY <1>2, <1>4
    <3>2. Len(outs) < Len(cmds)
      BY <1>2, <1>13, <3>1
    <3> QED
      BY <1>6, <1>8, <3>2
  <2> QED
    BY <1>1, <1>7, <1>8, <1>10, <1>13, <2>1, TaskStep
<1> QED
  BY <1>9, <1>11, <1>12, <1>13

\* Every task is done: the results are theirs.
LEMMA CollectCalls ==
  ASSUME CallsInv, NEW c \in Calls, Collect(c)
  PROVE  CallsInv'
<1> DEFINE results == [i \in Indices(c) |-> task[c][i].outs]
           answer == [kind |-> "results", results |-> results]
<1>1. /\ call[c].pc = "running" /\ \A i \in Indices(c) : task[c][i].pc = "done"
      /\ Reply(c, answer) /\ ran' = ran
      /\ task'[c] = <<>> /\ DOMAIN task' = Calls /\ \A d \in Calls : d # c => task'[d] = task[d]
  BY DEF Collect, CallsInv
<1>2. ASSUME NEW i \in Indices(c)
      PROVE  /\ Len(answer.results[i]) = Len(call[c].req.commands)
             /\ \A k \in DOMAIN answer.results[i] : answer.results[i][k] = "ok" =>
                  [c |-> c, i |-> i, k |-> k] \in ran
  BY <1>1, RunningCall DEF TasksInv, OutsInv
<1> HIDE DEF answer
<1> QED
  BY <1>1, <1>2, ReplyCalls

\* A batch that times out answers for every device, a single tool with an error.
LEMMA TimeoutCalls ==
  ASSUME CallsInv, PoolTypes, NEW c \in Calls, Timeout(c)
  PROVE  CallsInv' /\ PoolTypes'
<1> DEFINE late == [k \in DOMAIN call[c].req.commands |-> "batch timeout"]
           results == [i \in Indices(c) |-> IF task[c][i].pc = "done" THEN task[c][i].outs
                                            ELSE late]
           yes == [kind |-> "results", results |-> results]
           no  == [kind |-> "error", why |-> "timeout"]
<1>1. /\ call[c].pc = "running" /\ (Reply(c, yes) \/ Reply(c, no)) /\ ran' = ran
      /\ task'[c] = <<>> /\ DOMAIN task' = Calls /\ \A d \in Calls : d # c => task'[d] = task[d]
  BY DEF Timeout, CallsInv, Failed
<1>2. PoolTypes'
  <2> DEFINE held(x) == {i \in {j \in Indices(c) : task[c][j].pc = "cli"} : SessionOf(c, i) = x}
  <2>1. pool' = pool /\ returning' = [x \in Sessions |-> returning[x] + Cardinality(held(x))]
    BY DEF Timeout, SpawnReturns
  <2>2. \A x : Cardinality(held(x)) \in Nat
    <3>1. PICK n \in Nat : Indices(c) = 1 .. n
      BY <1>1, RunningCall, RequestTypes DEF Indices
    <3>2. IsFiniteSet(1 .. n)
      BY FS_Interval
    <3>3. \A x : held(x) \subseteq 1 .. n
      BY <3>1
    <3> HIDE DEF held
    <3> QED
      BY <3>2, <3>3, FS_Subset, FS_CardinalityType
  <2> HIDE DEF held
  <2> QED
    BY <2>1, <2>2 DEF PoolTypes
<1>3. Len(late) = Len(call[c].req.commands)
  <2> DEFINE cmds == call[c].req.commands
             why == "batch timeout"
             T == {why}
  <2>1. cmds \in Seq(Commands)
    BY <1>1, RunningCall, RequestTypes
  <2>2. why \in T
    OBVIOUS
  <2>3. late = [k \in DOMAIN cmds |-> why]
    OBVIOUS
  <2> HIDE DEF T, cmds, why, late
  <2>4. Len([k \in DOMAIN cmds |-> why]) = Len(cmds)
    BY <2>1, <2>2, FailedOuts
  <2> QED
    BY <2>3, <2>4 DEF cmds
<1>4. \A k \in DOMAIN late : late[k] # "ok"
  OBVIOUS
<1> HIDE DEF late
<1>5. ASSUME NEW i \in Indices(c)
      PROVE  /\ Len(yes.results[i]) = Len(call[c].req.commands)
             /\ \A k \in DOMAIN yes.results[i] : yes.results[i][k] = "ok" =>
                  [c |-> c, i |-> i, k |-> k] \in ran
  BY <1>1, <1>3, <1>4, RunningCall DEF TasksInv, OutsInv
<1>6. no.kind # "results"
  OBVIOUS
<1> HIDE DEF yes, no
<1>7. CASE Reply(c, yes)
  BY <1>1, <1>2, <1>5, <1>7, ReplyCalls
<1>8. CASE Reply(c, no)
  BY <1>1, <1>2, <1>6, <1>8, ReplyCalls
<1> QED
  BY <1>1, <1>7, <1>8

\* The caller has its answer.
LEMMA LeaveCalls ==
  ASSUME CallsInv, NEW c \in Calls, Leave(c)
  PROVE  CallsInv'
<1>1. /\ call'[c] = NoCall /\ DOMAIN call' = Calls /\ \A d \in Calls : d # c => call'[d] = call[d]
      /\ call[c].pc = "replied" /\ task' = task /\ ran' = {x \in ran : x.c # c}
  BY DEF Leave, CallsInv
<1>2. CallInv(c)'
  BY <1>1 DEF CallInv, CallsInv, NoCall, RanInv
<1> QED
  BY <1>1, <1>2, CallStep DEF CallsInv

\* All calls are gone with the process.
LEMMA IdleCalls ==
  ASSUME call' = [c \in Calls |-> NoCall], task' = [c \in Calls |-> <<>>], ran' = {}
  PROVE  CallsInv'
BY DEF CallsInv, CallInv, NoCall, RanInv

\* What every call knows stays true in every step, and the pool holds addresses.
LEMMA StepCalls ==
  ASSUME InventoryInv, CallsInv, PoolTypes, [Next]_vars
  PROVE  CallsInv' /\ PoolTypes'
<1>1. ASSUME UNCHANGED <<call, task, ran>> PROVE CallsInv'
  <2>1. \A c \in Calls : CallInv(c)'
    BY <1>1, OtherCall DEF CallsInv
  <2> QED
    BY <1>1, <2>1 DEF CallsInv
<1>2. CASE AdminNext(scenario.admins, scenario.edits, scenario.devices, Out)
           /\ UNCHANGED callVars
  <2>1. PoolTypes'
    <3>1. pool' \in [Routers -> Addresses \cup {NoAddr}]
      BY <1>2 DEF PoolTypes, AdminNext, EditFile, ReloadStart, AddValidate, ReloadLoad, ReloadHash,
                  StoreInventory, StorePolicy, ReloadInvalidate, AddCheckHash, AddStage, AddPersist
    <3> QED
      BY <1>2, <3>1 DEF PoolTypes, callVars
  <2> QED
    BY <1>1, <1>2, <2>1 DEF callVars
<1>3. CASE CrashAll
  BY <1>3, IdleCalls DEF CrashAll, Crash, PoolTypes
<1>4. CASE UNCHANGED vars
  BY <1>1, <1>4 DEF vars, callVars, inventoryVars, PoolTypes
<1>5. ASSUME NEW c \in Calls, NEW req \in scenario.requests, LoadPolicy(c, req)
      PROVE  CallsInv' /\ PoolTypes'
  <2>1. req \in ToolRequests
    BY ScenariosAssumption DEF InventoryInv, InventoryTypes
  <2> QED
    BY <1>5, <2>1, LoadPolicyCalls DEF LoadPolicy, inventoryVars, PoolTypes
<1>6. ASSUME NEW c \in Calls, CheckBatch(c) \/ CheckSingle(c) \/ Collect(c) \/ Leave(c)
      PROVE  CallsInv' /\ PoolTypes'
  <2>1. PoolTypes'
    BY <1>6 DEF CheckBatch, CheckSingle, Collect, Leave, inventoryVars, PoolTypes
  <2> QED
    BY <1>6, <2>1, CheckBatchCalls, CheckSingleCalls, CollectCalls, LeaveCalls
<1>7. ASSUME NEW c \in Calls, Timeout(c) PROVE CallsInv' /\ PoolTypes'
  BY <1>7, TimeoutCalls
<1>8. ASSUME NEW c \in Calls, NEW i \in DOMAIN task[c], Acquire(c, i) \/ Connect(c, i)
      PROVE  CallsInv' /\ PoolTypes'
  BY <1>8, AcquireCalls, ConnectCalls DEF Acquire, Connect, inventoryVars, PoolTypes
<1>9. ASSUME NEW c \in Calls, NEW i \in DOMAIN task[c], OpenPooled(c, i) \/ OpenFresh(c, i)
      PROVE  CallsInv' /\ PoolTypes'
  BY <1>9, OpenPooledCalls, OpenFreshCalls
<1>10. ASSUME NEW c \in Calls, NEW i \in DOMAIN task[c],
              NEW outcome \in {"ok", "error", "transient"}, Cli(c, i, outcome)
       PROVE  CallsInv' /\ PoolTypes'
  BY <1>10, CliCalls
<1>11. ASSUME NEW s \in Sessions, ReturnSession(s)
       PROVE  CallsInv' /\ PoolTypes'
  <2>1. s[1] \in Routers /\ s[2] \in Addresses \cup {NoAddr}
    BY DEF Sessions
  <2>2. PoolTypes'
    BY <1>11, <2>1 DEF ReturnSession, PoolTypes
  <2> QED
    BY <1>1, <1>11, <2>2 DEF ReturnSession
<1> QED
  BY <1>2, <1>3, <1>4, <1>5, <1>6, <1>7, <1>8, <1>9, <1>10, <1>11 DEF Next

\* No call is running at the start.
LEMMA InitCalls ==
  ASSUME Init
  PROVE  CallsInv /\ PoolTypes
BY DEF Init, CallsInit, InventoryInit, CallsInv, CallInv, NoCall, RanInv, PoolTypes

\* A running call's tasks were all checked against one policy, that of a content in force when
\* the call began, and answer for the commands they were given.
THEOREM CallsAreChecked == Spec => [](CallsInv /\ PoolTypes)
<1>1. Init => CallsInv /\ PoolTypes
  BY InitCalls
<1>2. InventoryInv /\ CallsInv /\ PoolTypes /\ [Next]_vars => CallsInv' /\ PoolTypes'
  BY StepCalls
<1> QED
  BY <1>1, <1>2, InventoryIsConsistent, PTL DEF Spec

\* BatchAnswersForEachDevice: a finished batch has one outcome per device and command, in the
\* request's order, and reports as run only what it ran on that device.
THEOREM BatchesAnswer == Spec => []BatchAnswersForEachDevice
<1>1. CallsInv => BatchAnswersForEachDevice
  BY DEF CallsInv, CallInv, AnswerInv, BatchAnswersForEachDevice
<1> QED
  BY <1>1, CallsAreChecked, PTL
-----------------------------------------------------------------------------
(* The compiled policy and the file *)

\* The rules a file writes for a device: the defaults, and the device's own if it is named.
OwnRules(content, r) == IF r \in Names(content) THEN content.devices[r].rules ELSE NoRules

\* The compiled policy of a device is the one built from its entry.
LEMMA CompiledFor ==
  ASSUME NEW content \in Contents, NEW r
  PROVE  policy_for(Build(content), r) = DevicePolicy(content.defaults, OwnRules(content, r))
BY DEF policy_for, Build, OwnRules

\* The sections of a file that apply to a device, field by field.
LEMMA WrittenFor ==
  ASSUME NEW content \in Contents, NEW r,
         NEW field \in {"commands", "pfe_commands", "allow", "allowed_pipes", "pfe_allow",
                        "pfe_allowed_pipes"}
  PROVE  Written(content, r, field) = content.defaults[field] \cup OwnRules(content, r)[field]
<1>1. NoRules[field] = {}
  BY DEF NoRules
<1> QED
  BY <1>1 DEF Written, Sections, OwnRules

\* A device's own rules are rules.
LEMMA OwnRulesType ==
  ASSUME NEW content \in Contents, NEW r
  PROVE  OwnRules(content, r) \in BlocklistRules /\ content.defaults \in BlocklistRules
<1>1. NoRules \in BlocklistRules
  BY DEF NoRules, BlocklistRules
<1>2. r \in Names(content) => content.devices[r].rules \in BlocklistRules
  BY DEF Names, Contents, DeviceEntries
<1>3. content.defaults \in BlocklistRules
  BY DEF Contents
<1> QED
  BY <1>1, <1>2, <1>3 DEF OwnRules

\* The most specific of the compiled rules, a device's own before a default one, is the rule the
\* file says decides: when none of the former denies, every one of the latter allows.
LEMMA DecidingRule ==
  ASSUME NEW D \in SUBSET RuleSpecs, NEW O \in SUBSET RuleSpecs, NEW cmd,
         ~Denies(compile_rules(D, "defaults") \cup compile_rules(O, "device"), cmd),
         NEW rule \in D \cup O, cmd \in rule.matches,
         \A other \in D \cup O : cmd \in other.matches => other.literals <= rule.literals,
         rule \in O \/ ~ \E own \in O : /\ cmd \in own.matches
                                       /\ \A other \in D \cup O :
                                            cmd \in other.matches => other.literals <= own.literals
  PROVE  rule.action = "allow"
<1> DEFINE R == compile_rules(D, "defaults") \cup compile_rules(O, "device")
           src == IF rule \in O THEN "device" ELSE "defaults"
           cr == [action |-> rule.action, matches |-> rule.matches, literals |-> rule.literals,
                  source |-> src]
<1>1. cr \in R /\ cmd \in cr.matches
  BY DEF compile_rules
<1>2. rule.literals \in Nat /\ \A other \in D \cup O : other.literals \in Nat
  BY DEF RuleSpecs
<1>3. ASSUME NEW x \in R, cmd \in x.matches PROVE Rank(x) <= Rank(cr)
  <2>1. CASE \E d \in D : x = [action |-> d.action, matches |-> d.matches,
                               literals |-> d.literals, source |-> "defaults"]
    <3>1. PICK d \in D : x = [action |-> d.action, matches |-> d.matches,
                              literals |-> d.literals, source |-> "defaults"]
      BY <2>1
    <3>2. d.literals <= rule.literals /\ d.literals \in Nat /\ x.literals = d.literals
          /\ x.source = "defaults"
      BY <1>2, <1>3, <3>1
    <3>3. Rank(x) = 2 * d.literals
      BY <3>2 DEF Rank
    <3>4. Rank(cr) >= 2 * rule.literals
      BY <1>2 DEF Rank
    <3>5. Rank(cr) \in Int
      BY <1>2 DEF Rank
    <3> QED
      BY <1>2, <3>2, <3>3, <3>4, <3>5
  <2>2. CASE \E o \in O : x = [action |-> o.action, matches |-> o.matches,
                               literals |-> o.literals, source |-> "device"]
    <3>1. PICK o \in O : x = [action |-> o.action, matches |-> o.matches,
                              literals |-> o.literals, source |-> "device"]
      BY <2>2
    <3>2. o.literals <= rule.literals /\ o.literals \in Nat /\ x.literals = o.literals
          /\ x.source = "device" /\ cmd \in o.matches
      BY <1>2, <1>3, <3>1
    <3>3. Rank(x) = 2 * o.literals + 1
      BY <3>2 DEF Rank
    <3>4. CASE rule \in O
      <4>1. Rank(cr) = 2 * rule.literals + 1
        BY <3>4 DEF Rank
      <4> QED
        BY <1>2, <3>2, <3>3, <4>1
    <3>5. CASE rule \notin O
      <4>1. Rank(cr) = 2 * rule.literals
        BY <1>2, <3>5 DEF Rank
      <4>2. o.literals # rule.literals
        BY <3>2, <3>5
      <4> QED
        BY <1>2, <3>2, <3>3, <4>1, <4>2
    <3> QED
      BY <3>4, <3>5
  <2> QED
    BY <2>1, <2>2 DEF compile_rules
<1>4. cr \in evaluate(R, cmd)
  BY <1>1, <1>3 DEF evaluate
<1>5. cr.action # "deny"
  BY <1>4 DEF Denies
<1> QED
  BY <1>5 DEF RuleSpecs

\* The compiled policy is the file's: what check_command lets through, the rules written in the
\* file permit, in both modes and both domains.
LEMMA CheckedIsPermitted ==
  ASSUME NEW content \in Contents, NEW domain \in Domains, NEW r, NEW cmd,
         check_command(Build(content), domain, r, cmd)
  PROVE  Permitted(content, domain, r, cmd)
<1> DEFINE own  == OwnRules(content, r)
           def  == content.defaults
           mode == CommandMode(content)
           dom  == CompileDomain(def, own, domain)
           D    == def[domain]
           O    == own[domain]
<1>1. def \in BlocklistRules /\ own \in BlocklistRules
  BY OwnRulesType
<1>2. policy_for(Build(content), r)[domain] = dom /\ Build(content).command_mode = mode
  <2>1. policy_for(Build(content), r) = DevicePolicy(def, own)
    BY CompiledFor
  <2> QED
    BY <2>1 DEF DevicePolicy, Build
<1>3. mode \in {"allowlist", "blocklist"}
  BY DEF CommandMode, Contents
<1> HIDE DEF mode, dom
<1>4. /\ ~deny_disallowed_character(mode, cmd)
      /\ apply_allowlist_deny_carveout(mode, dom, cmd, library_check(mode, dom, cmd))
  BY <1>2 DEF check_command
<1>5. ~Denies(dom.rules, cmd)
  BY <1>3, <1>4 DEF apply_allowlist_deny_carveout, library_check
<1>6. mode = "allowlist" => /\ cmd \notin Unprintable
                            /\ \E entry \in dom.allow : cmd \in entry
                            /\ PipesOf[cmd] \subseteq dom.pipes
  BY <1>4 DEF apply_allowlist_deny_carveout, library_check, deny_disallowed_character
<1>7. dom.rules = compile_rules(D, "defaults") \cup compile_rules(O, "device")
  BY DEF dom, CompileDomain, Domains
<1>8. /\ D \in SUBSET RuleSpecs /\ O \in SUBSET RuleSpecs
  BY <1>1 DEF BlocklistRules, Domains
<1>9. Written(content, r, domain) = D \cup O
  BY WrittenFor DEF Domains
<1>10. O = IF r \in Names(content) THEN content.devices[r].rules[domain] ELSE {}
  BY DEF OwnRules, NoRules, Domains
<1> DEFINE hit    == {rule \in D \cup O : cmd \in rule.matches}
           best   == {rule \in hit : \A other \in hit : other.literals <= rule.literals}
           winner == IF best \cap O # {} THEN best \cap O ELSE best
<1>11. ASSUME NEW rule \in winner PROVE rule.action = "allow"
  <2>1. /\ rule \in D \cup O /\ cmd \in rule.matches
        /\ \A other \in D \cup O : cmd \in other.matches => other.literals <= rule.literals
    OBVIOUS
  <2>2. rule \in O \/ ~ \E x \in O : /\ cmd \in x.matches
                                    /\ \A other \in D \cup O :
                                         cmd \in other.matches => other.literals <= x.literals
    OBVIOUS
  <2> HIDE DEF D, O, winner
  <2> QED
    BY <1>5, <1>7, <1>8, <2>1, <2>2, DecidingRule
<1>12. mode = "allowlist" =>
         LET pfe == domain = "pfe_commands"
         IN /\ cmd \notin Unprintable
            /\ cmd \in UNION Written(content, r, IF pfe THEN "pfe_allow" ELSE "allow")
            /\ PipesOf[cmd] \subseteq
                 Written(content, r, IF pfe THEN "pfe_allowed_pipes" ELSE "allowed_pipes")
  <2>1. CASE domain = "commands"
    BY <1>6, <2>1, WrittenFor DEF dom, CompileDomain
  <2>2. CASE domain = "pfe_commands"
    BY <1>6, <2>2, WrittenFor DEF dom, CompileDomain
  <2> QED
    BY <2>1, <2>2 DEF Domains
<1> QED
  BY <1>9, <1>10, <1>11, <1>12 DEF Permitted, mode

\* Every tool is checked in one of the two domains, or sends no command of the caller's.
LEMMA ToolDomains ==
  ASSUME NEW name
  PROVE  Domain(name) \in {"commands", "pfe_commands", "none"}
BY DEF Domain, Tool, execute_junos_command, execute_junos_pfe_command, get_junos_config,
       gather_device_facts, junos_config_diff

\* RulesInForceApply: all commands a call has sent are permitted by one file content, as the file
\* reads, that was in force when its handler began, whatever was reloaded in the meantime.
THEOREM RulesApply == Spec => []RulesInForceApply
<1>1. ASSUME CallsInv PROVE RulesInForceApply
  <2>1. SUFFICES ASSUME NEW c \in Calls, call[c].pc = "running", Domain(call[c].req.tool) # "none"
                 PROVE  \E content \in call[c].seen :
                          \A x \in {y \in ran : y.c = c} :
                             Permitted(content, Domain(call[c].req.tool), Router(c, x.i),
                                       call[c].req.commands[x.k])
    BY DEF RulesInForceApply
  <2>2. CallInv(c) /\ call[c] \in ActiveCalls
    BY <2>1, <1>1 DEF CallsInv, CallInv
  <2>3. PICK content \in call[c].seen : call[c].policy = Build(content)
    BY <2>1, <2>2 DEF CallInv
  <2>4. content \in Contents
    BY <2>2, <2>3 DEF ActiveCalls
  <2>5. Domain(call[c].req.tool) \in Domains
    BY <2>1, ToolDomains DEF Domains
  <2>6. ASSUME NEW x \in ran, x.c = c
        PROVE  Permitted(content, Domain(call[c].req.tool), Router(c, x.i),
                         call[c].req.commands[x.k])
    <3>1. Checked(c, x.i, x.k)
      BY <2>1, <2>2, <2>6 DEF CallInv, RanInv
    <3>2. check_command(Build(content), Domain(call[c].req.tool), Router(c, x.i),
                        call[c].req.commands[x.k])
      BY <2>1, <2>3, <3>1 DEF Checked
    <3> QED
      BY <2>4, <2>5, <3>2, CheckedIsPermitted
  <2> QED
    BY <2>3, <2>6
<1> QED
  BY <1>1, CallsAreChecked, PTL

-----------------------------------------------------------------------------
(* The pooled sessions *)

\* A reload that has swapped in an inventory which moves or removes a name, and has not yet
\* dropped its session.
Dropping(r) ==
    \E a \in Admins : /\ admin[a].pc \in {"policy", "invalidate"}
                      /\ admin[a].op # "add_device" /\ r \in admin[a].drop

\* A session of a name leads where the inventory says, or is known to be stale.
Settled(r, addr) ==
    addr \in {NoAddr, mgr.inventory.devices[r].ip} \/ <<r, addr>> \in carried \/ Dropping(r)

\* So do the sessions a call has, or is opening.
CallSettled(c) ==
    call[c].pc = "running" =>
        \A i \in Indices(c) :
            task[c][i].pc \in {"connecting", "cli"} => Settled(Router(c, i), task[c][i].to)

\* And the ones on their way back to the pool.
ReturnsSettled == \A s \in Sessions : returning[s] > 0 => Settled(s[1], s[2])

\* The names whose session a reload will drop are those it moves or removes; an addition moves
\* and removes none.
PlanInv(a) ==
    /\ admin[a].pc \in {"hash", "store"} /\ admin[a].op # "add_device" =>
         admin[a].drop = Removed(mgr.inventory, admin[a].new)
                         \cup Changed(mgr.inventory, admin[a].new)
    /\ admin[a].pc \in {"persist", "store"} /\ admin[a].op = "add_device" =>
         \A r \in Routers :
            mgr.inventory.devices[r].ip \in {NoAddr, admin[a].new.devices[r].ip}

SessionsInv ==
    raced = {} =>
        /\ \A r \in Routers : Settled(r, pool[r])
        /\ \A c \in Calls : CallSettled(c)
        /\ ReturnsSettled
        /\ \A a \in Admins : PlanInv(a)

\* A step of the inventory that swaps nothing and drops no session.
LEMMA AdminFrame ==
  ASSUME SessionsInv, raced' = {} => raced = {},
         UNCHANGED <<mgr, pool, carried, call, task, returning>>,
         \A r : Dropping(r) => Dropping(r)', raced' = {} => \A a \in Admins : PlanInv(a)'
  PROVE  SessionsInv'
<1>1. \A r, addr : Settled(r, addr) => Settled(r, addr)'
  BY DEF Settled
<1>2. \A c, i : Indices(c)' = Indices(c) /\ Router(c, i)' = Router(c, i)
  BY DEF Indices, Router
<1>3. \A c : CallSettled(c) => CallSettled(c)'
  BY <1>1, <1>2 DEF CallSettled
<1>4. ReturnsSettled => ReturnsSettled'
  BY <1>1 DEF ReturnsSettled
<1> QED
  BY <1>1, <1>3, <1>4 DEF SessionsInv

\* Such a step of one operation, which is not dropping sessions before it or after it.
LEMMA OpFrame ==
  ASSUME SessionsInv, NEW a \in Admins, UNCHANGED <<mgr, pool, carried, call, task, returning, raced>>,
         \A b \in Admins : b # a => admin'[b] = admin[b],
         \A r : (admin[a].pc \in {"policy", "invalidate"} /\ admin[a].op # "add_device"
                 /\ r \in admin[a].drop) => Dropping(r)',
         raced = {} => PlanInv(a)'
  PROVE  SessionsInv'
<1>1. \A r : Dropping(r) => Dropping(r)'
  BY DEF Dropping
<1>2. raced = {} => \A b \in Admins : PlanInv(b)'
  BY DEF SessionsInv, PlanInv
<1> QED
  BY <1>1, <1>2, AdminFrame

\* An operation that ends, or that has not chosen a file yet, plans nothing.
LEMMA NoPlan ==
  ASSUME NEW a \in Admins, admin'[a].pc \in {"idle", "reload", "add", "read", "policy", "invalidate"}
  PROVE  PlanInv(a)'
BY DEF PlanInv

\* Steps before the lock, and steps that only end the operation.
LEMMA PlainSessions ==
  ASSUME InventoryInv, SessionsInv, NEW a \in Admins, UNCHANGED <<call, task, returning>>,
         \/ \E op \in {"reload_devices", "sighup"}, f \in Files \cup {Outside} :
              ReloadStart(a, op, f)
         \/ \E dev \in NewDevices : AddValidate(a, dev)
         \/ AddCheckHash(a)
  PROVE  SessionsInv'
<1>1. /\ UNCHANGED <<mgr, pool, carried, raced>> /\ admin[a].pc \in {"idle", "add"}
      /\ \A b \in Admins : b # a => admin'[b] = admin[b]
  BY DEF ReloadStart, AddValidate, AddCheckHash, Done, InventoryInv, InventoryTypes
<1>2. admin'[a].pc \in {"idle", "reload", "add", "read"}
  <2>0. admin \in [Admins -> AdminRecs]
    BY DEF InventoryInv, InventoryTypes
  <2>1. ASSUME NEW op, NEW f, ReloadStart(a, op, f) PROVE admin'[a].pc \in {"idle", "reload"}
    <3> DEFINE rec == [AdminIdle EXCEPT !.pc = "reload", !.op = op, !.file = f]
    <3>1. rec.pc = "reload" /\ AdminIdle.pc = "idle"
      BY DEF AdminIdle
    <3> HIDE DEF rec
    <3>2. admin' = [admin EXCEPT ![a] = AdminIdle] \/ admin' = [admin EXCEPT ![a] = rec]
      BY <2>1 DEF ReloadStart, Done, rec
    <3> QED
      BY <2>0, <3>1, <3>2
  <2>2. ASSUME NEW dev, AddValidate(a, dev) PROVE admin'[a].pc \in {"idle", "add"}
    <3> DEFINE rec == [AdminIdle EXCEPT !.pc = "add", !.op = "add_device", !.dev = dev]
    <3>1. rec.pc = "add" /\ AdminIdle.pc = "idle"
      BY DEF AdminIdle
    <3> HIDE DEF rec
    <3>2. admin' = [admin EXCEPT ![a] = AdminIdle] \/ admin' = [admin EXCEPT ![a] = rec]
      BY <2>2 DEF AddValidate, Done, rec
    <3> QED
      BY <2>0, <3>1, <3>2
  <2>3. CASE AddCheckHash(a)
    <3> DEFINE rec == [admin[a] EXCEPT !.pc = "read", !.file = mgr.inventory_path]
    <3>1. admin'[a] \in {AdminIdle, rec}
      BY <2>0, <2>3 DEF AddCheckHash, Done
    <3>2. rec.pc = "read" /\ AdminIdle.pc = "idle"
      BY <2>0 DEF AdminRecs, AdminIdle
    <3> QED
      BY <3>1, <3>2
  <2> QED
    BY <2>1, <2>2, <2>3
<1> QED
  BY <1>1, <1>2, NoPlan, OpFrame

\* A reload decides which sessions to drop.
LEMMA ReloadLoadSessions ==
  ASSUME InventoryInv, SessionsInv, NEW a \in Admins, ReloadLoad(a),
         UNCHANGED <<call, task, returning>>
  PROVE  SessionsInv'
<1>1. /\ UNCHANGED <<mgr, pool, carried, raced>> /\ admin[a].pc = "reload"
      /\ admin \in [Admins -> AdminRecs]
  BY DEF ReloadLoad, InventoryInv, InventoryTypes
<1>2. CASE Done(a, "any")
  BY <1>1, <1>2, NoPlan, OpFrame DEF Done, AdminIdle
<1>3. CASE ~Done(a, "any")
  <2> DEFINE new == disk[admin[a].file]
             drop == Removed(mgr.inventory, new) \cup Changed(mgr.inventory, new)
             rec == [admin[a] EXCEPT !.pc = "hash", !.prev = mgr.inventory, !.new = new,
                                     !.drop = drop]
  <2>1. admin' = [admin EXCEPT ![a].pc = "hash", ![a].prev = mgr.inventory, ![a].new = new,
                        ![a].drop = drop]
    BY <1>3 DEF ReloadLoad, Done
  <2> HIDE DEF new, drop
  <2>2. admin'[a] = rec /\ \A b \in Admins : b # a => admin'[b] = admin[b]
    BY <1>1, <2>1
  <2>3. rec.pc = "hash" /\ rec.new = new /\ rec.drop = drop
    BY <1>1 DEF AdminRecs
  <2> HIDE DEF rec
  <2>4. PlanInv(a)'
    BY <1>1, <2>2, <2>3 DEF PlanInv, drop
  <2> QED
    BY <1>1, <2>2, <2>4, OpFrame
<1> QED
  BY <1>2, <1>3

\* Reading the hash moves no session.
LEMMA ReloadHashSessions ==
  ASSUME InventoryInv, SessionsInv, NEW a \in Admins, ReloadHash(a),
         UNCHANGED <<call, task, returning>>
  PROVE  SessionsInv'
<1> DEFINE rec == [admin[a] EXCEPT !.pc = "store", !.hash = disk[admin[a].file]]
<1>1. /\ UNCHANGED <<mgr, pool, carried, raced>> /\ admin[a].pc = "hash"
      /\ admin \in [Admins -> AdminRecs] /\ admin[a].op # "add_device"
  BY DEF ReloadHash, InventoryInv, InventoryTypes, OpInv
<1>2. admin'[a] = rec /\ \A b \in Admins : b # a => admin'[b] = admin[b]
  BY <1>1 DEF ReloadHash
<1>3. rec.pc = "store" /\ rec.new = admin[a].new /\ rec.drop = admin[a].drop /\ rec.op = admin[a].op
  BY <1>1 DEF AdminRecs
<1> HIDE DEF rec
<1>4. raced = {} => PlanInv(a)'
  BY <1>1, <1>2, <1>3 DEF SessionsInv, PlanInv
<1> QED
  BY <1>1, <1>2, <1>4, OpFrame

\* policy.store: a reload goes on to drop the sessions.
LEMMA StorePolicySessions ==
  ASSUME InventoryInv, SessionsInv, NEW a \in Admins, StorePolicy(a),
         UNCHANGED <<call, task, returning>>
  PROVE  SessionsInv'
<1>1. /\ UNCHANGED <<mgr, pool, carried, raced>> /\ admin[a].pc = "policy"
      /\ admin \in [Admins -> AdminRecs]
  BY DEF StorePolicy, InventoryInv, InventoryTypes
<1>2. CASE admin[a].op = "add_device"
  BY <1>1, <1>2, NoPlan, OpFrame DEF StorePolicy, Done, AdminIdle
<1>3. CASE admin[a].op # "add_device"
  <2> DEFINE rec == [admin[a] EXCEPT !.pc = "invalidate"]
  <2>1. admin'[a] = rec /\ \A b \in Admins : b # a => admin'[b] = admin[b]
    BY <1>1, <1>3 DEF StorePolicy
  <2>2. rec.pc = "invalidate" /\ rec.op = admin[a].op /\ rec.drop = admin[a].drop
    BY <1>1 DEF AdminRecs
  <2> HIDE DEF rec
  <2>3. \A r \in admin[a].drop : Dropping(r)'
    BY <1>3, <2>1, <2>2 DEF Dropping
  <2>4. PlanInv(a)'
    BY <2>1, <2>2, NoPlan
  <2> QED
    BY <1>1, <2>1, <2>3, <2>4, OpFrame
<1> QED
  BY <1>2, <1>3

\* add_device stages a content that moves and removes no device.
LEMMA AddStageSessions ==
  ASSUME InventoryInv, SessionsInv, NEW a \in Admins, AddStage(a),
         UNCHANGED <<call, task, returning>>
  PROVE  SessionsInv'
<1>1. /\ UNCHANGED <<mgr, pool, carried, raced>> /\ admin[a].pc = "read"
      /\ admin \in [Admins -> AdminRecs] /\ admin[a].dev \in NewDevices
      /\ raced = {} => disk[admin[a].file] = mgr.inventory
      /\ mgr.inventory \in Contents /\ admin[a].op = "add_device"
  BY DEF AddStage, InventoryInv, InventoryTypes, OpInv, FileInv
<1> DEFINE dev == admin[a].dev
           raw == disk[admin[a].file]
           new == Insert(raw, dev)
           rec == [admin[a] EXCEPT !.pc = "persist", !.new = new, !.hash = new,
                                   !.prev = mgr.inventory]
<1> HIDE DEF new
<1>2. CASE Done(a, "any")
  BY <1>1, <1>2, NoPlan, OpFrame DEF Done, AdminIdle
<1>3. CASE ~Done(a, "any")
  <2>1. /\ admin' = [admin EXCEPT ![a].pc = "persist", ![a].new = new, ![a].hash = new,
                        ![a].prev = mgr.inventory]
        /\ insert_device(raw, dev) = "ok"
    <3>1. insert_device(raw, dev) \in {"parse", "exists", "ok"}
      BY DEF insert_device
    <3> QED
      BY <1>3, <3>1 DEF AddStage, Done, new
  <2>2. admin'[a] = rec /\ \A b \in Admins : b # a => admin'[b] = admin[b]
    BY <1>1, <2>1
  <2>3. rec.pc = "persist" /\ rec.op = "add_device" /\ rec.new = new
    BY <1>1 DEF AdminRecs
  <2> HIDE DEF rec
  <2>4. raced = {} =>
          \A r \in Routers : mgr.inventory.devices[r].ip \in {NoAddr, new.devices[r].ip}
    <3> SUFFICES ASSUME raced = {}, NEW r \in Routers
                 PROVE  mgr.inventory.devices[r].ip \in {NoAddr, new.devices[r].ip}
      OBVIOUS
    <3>1. CASE r = dev.name
      BY <1>1, <2>1, <3>1 DEF insert_device, Names
    <3>2. CASE r # dev.name
      BY <1>1, <3>2, InsertType DEF new
    <3> QED
      BY <3>1, <3>2
  <2>5. raced = {} => PlanInv(a)'
    BY <1>1, <2>2, <2>3, <2>4 DEF PlanInv
  <2> QED
    BY <1>1, <2>2, <2>5, OpFrame
<1> QED
  BY <1>2, <1>3

\* Writing the file, or failing to, moves no session.
LEMMA AddPersistSessions ==
  ASSUME InventoryInv, SessionsInv, NEW a \in Admins, AddPersist(a),
         UNCHANGED <<call, task, returning>>
  PROVE  SessionsInv'
<1> DEFINE rec == [admin[a] EXCEPT !.pc = "store"]
<1>1. /\ UNCHANGED <<mgr, pool, carried, raced>> /\ admin[a].pc = "persist"
      /\ admin \in [Admins -> AdminRecs] /\ admin[a].op = "add_device"
      /\ Done(a, "any") \/ admin' = [admin EXCEPT ![a].pc = "store"]
  BY DEF AddPersist, InventoryInv, InventoryTypes, OpInv, Done
<1>2. CASE Done(a, "any")
  BY <1>1, <1>2, NoPlan, OpFrame DEF Done, AdminIdle
<1>3. CASE admin' = [admin EXCEPT ![a].pc = "store"]
  <2>1. admin'[a] = rec /\ \A b \in Admins : b # a => admin'[b] = admin[b]
    BY <1>1, <1>3
  <2>2. rec.pc = "store" /\ rec.op = admin[a].op /\ rec.new = admin[a].new
    BY <1>1 DEF AdminRecs
  <2> HIDE DEF rec
  <2>3. raced = {} => PlanInv(a)'
    BY <1>1, <2>1, <2>2 DEF SessionsInv, PlanInv
  <2> QED
    BY <1>1, <2>1, <2>3, OpFrame
<1> QED
  BY <1>1, <1>2, <1>3

\* store_inventory: a session the new inventory makes stale is one the reload will drop.
LEMMA StoreInventorySessions ==
  ASSUME InventoryInv, CallsInv, SessionsInv, NEW a \in Admins, StoreInventory(a),
         UNCHANGED <<call, task, returning>>
  PROVE  SessionsInv'
<1> DEFINE rec == [admin[a] EXCEPT !.pc = "policy"]
           new == admin[a].new
           old == mgr.inventory
<1>1. /\ UNCHANGED <<pool, carried, raced>> /\ admin[a].pc = "store" /\ lock = a
      /\ admin \in [Admins -> AdminRecs] /\ mgr'.inventory = new
  BY DEF StoreInventory, InventoryInv, InventoryTypes, LockInv, LockedPcs
<1>2. admin'[a] = rec /\ \A b \in Admins : b # a => admin'[b] = admin[b]
  BY <1>1 DEF StoreInventory
<1>3. rec.pc = "policy" /\ rec.op = admin[a].op /\ rec.drop = admin[a].drop
  BY <1>1 DEF AdminRecs
<1> HIDE DEF rec
<1>4. \A r : ~Dropping(r)
  BY <1>1 DEF Dropping, InventoryInv, LockInv, LockedPcs
<1>5. SUFFICES ASSUME raced = {}
               PROVE  /\ \A r \in Routers : Settled(r, pool[r])'
                      /\ \A c \in Calls : CallSettled(c)'
                      /\ ReturnsSettled'
                      /\ \A b \in Admins : PlanInv(b)'
  BY <1>1 DEF SessionsInv
<1>6. ASSUME NEW r \in Routers, old.devices[r].ip \notin {NoAddr, new.devices[r].ip}
      PROVE  Dropping(r)'
  <2>1. admin[a].op # "add_device"
    BY <1>1, <1>5, <1>6 DEF SessionsInv, PlanInv
  <2>2. admin[a].drop = Removed(old, new) \cup Changed(old, new)
    BY <1>1, <1>5, <2>1 DEF SessionsInv, PlanInv
  <2>3. r \in admin[a].drop
    BY <1>6, <2>2 DEF Removed, Changed, Names, inventory_entry_equal
  <2> QED
    BY <1>2, <1>3, <2>1, <2>3 DEF Dropping
<1>7. ASSUME NEW r \in Routers, NEW addr, Settled(r, addr) PROVE Settled(r, addr)'
  BY <1>1, <1>4, <1>6, <1>7 DEF Settled
<1>8. ASSUME NEW c \in Calls PROVE CallSettled(c)'
  <2>1. CallSettled(c)
    BY <1>5 DEF SessionsInv
  <2>2. Indices(c)' = Indices(c) /\ \A i : Router(c, i)' = Router(c, i)
    BY DEF Indices, Router
  <2>3. call[c].pc = "running" => \A i \in Indices(c) : Router(c, i) \in Routers
    BY RunningCall, RouterType
  <2> QED
    BY <1>7, <2>1, <2>2, <2>3 DEF CallSettled
<1>9. ASSUME NEW b \in Admins PROVE PlanInv(b)'
  <2>1. CASE b = a
    BY <1>2, <1>3, <2>1, NoPlan
  <2>2. CASE b # a
    BY <1>1, <1>2, <2>2 DEF PlanInv, InventoryInv, LockInv, LockedPcs
  <2> QED
    BY <2>1, <2>2
<1>10. ReturnsSettled'
  <2>1. ASSUME NEW s \in Sessions, returning[s] > 0 PROVE Settled(s[1], s[2])'
    <3>1. s[1] \in Routers
      BY DEF Sessions
    <3>2. Settled(s[1], s[2])
      BY <1>5, <2>1 DEF SessionsInv, ReturnsSettled
    <3> QED
      BY <1>7, <3>1, <3>2
  <2> QED
    BY <2>1 DEF ReturnsSettled
<1>11. \A r \in Routers : Settled(r, pool[r])'
  BY <1>1, <1>5, <1>7 DEF SessionsInv
<1> QED
  BY <1>5, <1>8, <1>9, <1>10, <1>11

\* A session a call has, or is opening, is out of the pool.
LEMMA CallIsOut ==
  ASSUME CallsInv, NEW c \in Calls, call[c].pc = "running", NEW i \in Indices(c),
         task[c][i].pc \in {"connecting", "cli"}
  PROVE  SessionOf(c, i) \in Out
<1>1. Router(c, i) \in Routers /\ task[c][i].to \in Addresses \cup {NoAddr}
  BY RunningCall, RouterType DEF TasksInv, TaskRecs
<1>2. SessionOf(c, i) \in Sessions
  BY <1>1 DEF SessionOf, Sessions
<1> QED
  BY <1>2 DEF Out

\* invalidate_pool: a stale session that was out of the pool is carried, all others are gone.
LEMMA InvalidateSessions ==
  ASSUME InventoryInv, CallsInv, SessionsInv, NEW a \in Admins, ReloadInvalidate(a, Out),
         UNCHANGED <<call, task, returning>>
  PROVE  SessionsInv'
<1> DEFINE drop == admin[a].drop
<1>1. /\ UNCHANGED <<mgr, raced>> /\ admin[a].pc = "invalidate" /\ lock = a
      /\ pool' = [r \in Routers |-> IF r \in drop THEN NoAddr ELSE pool[r]]
      /\ carried' = {s \in carried : s[1] \notin drop} \cup {s \in Out : s[1] \in drop}
      /\ admin'[a].pc = "idle" /\ \A b \in Admins : b # a => admin'[b] = admin[b]
  BY DEF ReloadInvalidate, InventoryInv, InventoryTypes, LockInv, LockedPcs, Done, AdminIdle
<1>2. \A r : Dropping(r) => r \in drop
  BY <1>1 DEF Dropping, InventoryInv, LockInv, LockedPcs
<1>3. SUFFICES ASSUME raced = {}
               PROVE  /\ \A r \in Routers : Settled(r, pool[r])'
                      /\ \A c \in Calls : CallSettled(c)'
                      /\ ReturnsSettled'
                      /\ \A b \in Admins : PlanInv(b)'
  BY <1>1 DEF SessionsInv
<1>4. ASSUME NEW r, NEW addr, Settled(r, addr), r \notin drop PROVE Settled(r, addr)'
  BY <1>1, <1>2, <1>4 DEF Settled
<1>5. ASSUME NEW r \in Routers PROVE Settled(r, pool[r])'
  <2>1. CASE r \in drop
    BY <1>1, <2>1 DEF Settled
  <2>2. CASE r \notin drop
    BY <1>1, <1>3, <1>4, <2>2 DEF SessionsInv
  <2> QED
    BY <2>1, <2>2
<1>6. ASSUME NEW c \in Calls PROVE CallSettled(c)'
  <2>1. CallSettled(c)
    BY <1>3 DEF SessionsInv
  <2>2. Indices(c)' = Indices(c) /\ \A i : Router(c, i)' = Router(c, i)
    BY DEF Indices, Router
  <2>3. ASSUME call[c].pc = "running", NEW i \in Indices(c),
               task[c][i].pc \in {"connecting", "cli"}
        PROVE  Settled(Router(c, i), task[c][i].to)'
    <3>1. <<Router(c, i), task[c][i].to>> \in Out
      BY <2>3, CallIsOut DEF SessionOf
    <3>2. CASE Router(c, i) \in drop
      <4>1. <<Router(c, i), task[c][i].to>> \in carried'
        BY <1>1, <3>1, <3>2
      <4> QED
        BY <2>2, <4>1 DEF Settled
    <3>3. CASE Router(c, i) \notin drop
      BY <1>4, <2>1, <2>2, <2>3, <3>3 DEF CallSettled
    <3> QED
      BY <3>2, <3>3
  <2> QED
    BY <2>2, <2>3 DEF CallSettled
<1>7. ASSUME NEW b \in Admins PROVE PlanInv(b)'
  <2>1. CASE b = a
    BY <1>1, <2>1, NoPlan
  <2>2. CASE b # a
    BY <1>1, <1>3, <2>2 DEF SessionsInv, PlanInv
  <2> QED
    BY <2>1, <2>2
<1>8. ReturnsSettled'
  <2>1. ASSUME NEW s \in Sessions, returning[s] > 0 PROVE Settled(s[1], s[2])'
    <3>1. s \in Out /\ s = <<s[1], s[2]>>
      BY <2>1 DEF Out, Sessions
    <3>2. Settled(s[1], s[2])
      BY <1>3, <2>1 DEF SessionsInv, ReturnsSettled
    <3>3. CASE s[1] \in drop
      <4>1. <<s[1], s[2]>> \in carried'
        BY <1>1, <3>1, <3>3
      <4> QED
        BY <4>1 DEF Settled
    <3>4. CASE s[1] \notin drop
      BY <1>4, <3>2, <3>4
    <3> QED
      BY <3>3, <3>4
  <2> QED
    BY <2>1 DEF ReturnsSettled
<1> QED
  BY <1>3, <1>5, <1>6, <1>7, <1>8

\* A step of one call: its sessions and those it puts in the pool are settled.
LEMMA CallFrame ==
  ASSUME SessionsInv, CallsInv, NEW c \in Calls, UNCHANGED <<mgr, admin, raced, carried>>,
         \A d \in Calls : d # c => call'[d] = call[d] /\ task'[d] = task[d],
         raced = {} => \A r \in Routers : Settled(r, pool'[r]),
         raced = {} => ReturnsSettled',
         raced = {} => CallSettled(c)'
  PROVE  SessionsInv'
<1>1. \A r, addr : Settled(r, addr)' <=> Settled(r, addr)
  BY DEF Settled, Dropping
<1>2. ASSUME NEW d \in Calls, d # c, CallSettled(d) PROVE CallSettled(d)'
  <2>1. Indices(d)' = Indices(d) /\ \A i : Router(d, i)' = Router(d, i)
    BY <1>2 DEF Indices, Router
  <2>2. call'[d] = call[d] /\ task'[d] = task[d]
    BY <1>2
  <2> QED
    BY <1>1, <1>2, <2>1, <2>2 DEF CallSettled
<1>3. \A a \in Admins : PlanInv(a)' <=> PlanInv(a)
  BY DEF PlanInv
<1>4. raced' = raced
  OBVIOUS
<1>5. \A r \in Routers : Settled(r, pool'[r]) => Settled(r, pool[r])'
  BY DEF Settled, Dropping
<1> QED
  BY <1>2, <1>3, <1>4, <1>5 DEF SessionsInv

\* The sessions a step hands to be returned are settled, and so are those on their way.
LEMMA SpawnSettled ==
  ASSUME PoolTypes, ReturnsSettled, UNCHANGED <<mgr, admin, carried>>,
         NEW n, SpawnReturns(n), \A s \in Sessions : n[s] = 0 \/ Settled(s[1], s[2])
  PROVE  ReturnsSettled'
<1>1. \A r, addr : Settled(r, addr)' <=> Settled(r, addr)
  BY DEF Settled, Dropping
<1>2. ASSUME NEW s \in Sessions, returning'[s] > 0 PROVE Settled(s[1], s[2])
  <2>1. returning[s] \in Nat /\ returning'[s] = returning[s] + n[s]
    BY DEF PoolTypes, SpawnReturns
  <2>2. CASE n[s] = 0
    BY <1>2, <2>1, <2>2 DEF ReturnsSettled
  <2> QED
    BY <2>2
<1> QED
  BY <1>1, <1>2 DEF ReturnsSettled

\* A step that hands none over.
LEMMA SameReturns ==
  ASSUME ReturnsSettled, UNCHANGED <<mgr, admin, carried, returning>>
  PROVE  ReturnsSettled'
BY DEF ReturnsSettled, Settled, Dropping

\* Steps that leave the call without a session.
LEMMA NoSessionStep ==
  ASSUME SessionsInv, CallsInv, NEW c \in Calls,
         \/ \E req \in ToolRequests : LoadPolicy(c, req)
         \/ CheckBatch(c) \/ CheckSingle(c) \/ Collect(c) \/ Leave(c)
  PROVE  SessionsInv'
<1>1. UNCHANGED <<mgr, admin, raced, carried, pool, returning>>
  BY DEF LoadPolicy, CheckBatch, CheckSingle, Collect, Leave, inventoryVars
<1>2. \A d \in Calls : d # c => call'[d] = call[d] /\ task'[d] = task[d]
  BY DEF LoadPolicy, CheckBatch, CheckSingle, Collect, Leave, CallsInv, Refuse, Reply
<1>3. raced = {} => \A r \in Routers : Settled(r, pool'[r])
  BY <1>1 DEF SessionsInv
<1>4. CallSettled(c)'
  <2>1. ASSUME \/ \E req \in ToolRequests : LoadPolicy(c, req)
               \/ Collect(c) \/ Leave(c) \/ \E why : Refuse(c, why)
        PROVE  call'[c].pc # "running"
    BY <2>1 DEF LoadPolicy, Collect, Leave, Refuse, Reply, CallsInv, NoCall
  <2>2. ASSUME CheckBatch(c), ~ \E why : Refuse(c, why)
        PROVE  \A i \in Indices(c)' : task'[c][i].pc \in {"queued", "done"}
    <3>1. /\ call' = [call EXCEPT ![c].pc = "running"] /\ call[c].pc = "check"
          /\ \E valid : task' = [task EXCEPT ![c] = [i \in Indices(c) |->
                IF i \in valid THEN NewTask("queued")
                ELSE [NewTask("done") EXCEPT !.outs = Failed(c, i, "unknown")]]]
      BY <2>2 DEF CheckBatch
    <3>2. Indices(c)' = Indices(c)
      BY <3>1 DEF Indices, CallsInv, CallInv, ActiveCalls
    <3>3. \A i \in Indices(c) : task'[c][i].pc \in {"queued", "done"}
      BY <3>1 DEF CallsInv, NewTask
    <3> QED
      BY <3>2, <3>3
  <2>3. ASSUME CheckSingle(c), ~ \E why : Refuse(c, why)
        PROVE  \A i \in Indices(c)' : task'[c][i].pc = "open"
    <3>1. /\ call' = [call EXCEPT ![c].pc = "running"] /\ call[c].pc = "check" /\ ~IsBatch(c)
          /\ task' = [task EXCEPT ![c] = <<NewTask("open")>>]
      BY <2>3 DEF CheckSingle
    <3>2. call[c] \in ActiveCalls
      BY <3>1 DEF CallsInv, CallInv
    <3>3. Indices(c) = {1}
      BY <3>1, <3>2, RequestTypes DEF Indices, ActiveCalls, IsBatch
    <3>4. Indices(c)' = Indices(c)
      BY <3>1, <3>2 DEF Indices, CallsInv, ActiveCalls
    <3>5. task'[c][1].pc = "open"
      BY <3>1 DEF CallsInv, NewTask
    <3> QED
      BY <3>3, <3>4, <3>5
  <2> QED
    BY <2>1, <2>2, <2>3 DEF CallSettled
<1>5. raced = {} => ReturnsSettled'
  BY <1>1, SameReturns DEF SessionsInv
<1> QED
  BY <1>1, <1>2, <1>3, <1>4, <1>5, CallFrame

\* A step of one task: the session it has after the step, and what it takes from the pool.
LEMMA TaskSessions ==
  ASSUME SessionsInv, CallsInv, NEW c \in Calls, NEW i \in DOMAIN task[c],
         call[c].pc = "running", UNCHANGED <<call, mgr, admin, raced, carried>>,
         NEW t, SetTask(c, i, t),
         raced = {} /\ t.pc \in {"connecting", "cli"} => Settled(Router(c, i), t.to),
         raced = {} => ReturnsSettled',
         \A r \in Routers : pool'[r] \in {NoAddr, pool[r]}
  PROVE  SessionsInv'
<1>1. /\ DOMAIN task[c] = Indices(c) /\ task'[c] = [task[c] EXCEPT ![i] = t]
      /\ \A d \in Calls : d # c => call'[d] = call[d] /\ task'[d] = task[d]
  BY RunningCall DEF SetTask, CallsInv
<1>2. task'[c][i] = t /\ \A j \in Indices(c) : j # i => task'[c][j] = task[c][j]
  BY <1>1
<1>3. Indices(c)' = Indices(c) /\ \A j : Router(c, j)' = Router(c, j)
  BY DEF Indices, Router
<1>4. \A r, addr : Settled(r, addr)' <=> Settled(r, addr)
  BY DEF Settled, Dropping
<1>5. raced = {} => \A r \in Routers : Settled(r, pool'[r])
  BY DEF SessionsInv, Settled
<1>6. ASSUME raced = {} PROVE CallSettled(c)'
  <2>1. CallSettled(c)
    BY <1>6 DEF SessionsInv
  <2> QED
    BY <1>2, <1>3, <1>4, <1>6, <2>1 DEF CallSettled
<1> QED
  BY <1>1, <1>5, <1>6, CallFrame

\* The session a task has, if it has one.
LEMMA TaskSettled ==
  ASSUME SessionsInv, CallsInv, NEW c \in Calls, NEW i \in DOMAIN task[c],
         call[c].pc = "running", raced = {}, task[c][i].pc \in {"connecting", "cli"}
  PROVE  Settled(Router(c, i), task[c][i].to)
BY RunningCall DEF SessionsInv, CallSettled

\* A permit of the batch moves no session.
LEMMA AcquireSessions ==
  ASSUME SessionsInv, CallsInv, PoolTypes, NEW c \in Calls, NEW i \in DOMAIN task[c],
         Acquire(c, i)
  PROVE  SessionsInv'
<1> DEFINE t == [task[c][i] EXCEPT !.pc = "open"]
<1>1. /\ call[c].pc = "running" /\ task[c][i].pc # "done" /\ SetTask(c, i, t)
      /\ UNCHANGED <<call, mgr, admin, raced, returning, carried, pool>>
  BY DEF Acquire, inventoryVars
<1>2. t.pc = "open"
  BY <1>1, Unfinished DEF TaskRecs
<1> HIDE DEF t
<1>3. raced = {} => ReturnsSettled'
  BY <1>1, SameReturns DEF SessionsInv
<1> QED
  BY <1>1, <1>2, <1>3, TaskSessions

\* A pooled session, whatever the inventory says by now.
LEMMA OpenPooledSessions ==
  ASSUME SessionsInv, CallsInv, PoolTypes, NEW c \in Calls, NEW i \in DOMAIN task[c],
         OpenPooled(c, i)
  PROVE  SessionsInv'
<1> DEFINE r == Router(c, i)
           t == [task[c][i] EXCEPT !.pc = "cli", !.to = pool[r]]
<1>1. /\ call[c].pc = "running" /\ task[c][i].pc # "done" /\ SetTask(c, i, t)
      /\ UNCHANGED <<call, mgr, admin, raced, returning, carried>>
      /\ pool' = [pool EXCEPT ![r] = NoAddr]
  BY DEF OpenPooled, KeepInventory
<1>2. r \in Routers
  BY <1>1, RouterType
<1>3. t.to = pool[r]
  BY <1>1, Unfinished DEF TaskRecs
<1> HIDE DEF t
<1>4. raced = {} => Settled(r, t.to)
  BY <1>2, <1>3 DEF SessionsInv
<1>5. \A q \in Routers : pool'[q] \in {NoAddr, pool[q]}
  BY <1>1 DEF PoolTypes
<1>6. raced = {} => ReturnsSettled'
  BY <1>1, SameReturns DEF SessionsInv
<1> QED
  BY <1>1, <1>4, <1>5, <1>6, TaskSessions

\* A fresh session, to the address the inventory gives now.
LEMMA OpenFreshSessions ==
  ASSUME SessionsInv, CallsInv, PoolTypes, NEW c \in Calls, NEW i \in DOMAIN task[c],
         OpenFresh(c, i)
  PROVE  SessionsInv'
<1> DEFINE r == Router(c, i)
           t == [task[c][i] EXCEPT !.pc = "connecting", !.to = mgr.inventory.devices[r].ip]
           u == [task[c][i] EXCEPT !.pc = "done", !.outs = Failed(c, i, "unknown")]
<1>1. /\ call[c].pc = "running" /\ task[c][i].pc # "done"
      /\ SetTask(c, i, t) \/ SetTask(c, i, u)
      /\ UNCHANGED <<call, mgr, admin, raced, returning, carried>>
      /\ pool' = [pool EXCEPT ![r] = NoAddr]
  BY DEF OpenFresh, KeepInventory
<1>2. t.to = mgr.inventory.devices[r].ip /\ u.pc = "done"
  BY <1>1, Unfinished DEF TaskRecs
<1> HIDE DEF t, u
<1>3. Settled(r, t.to)
  BY <1>2 DEF Settled
<1>4. \A q \in Routers : pool'[q] \in {NoAddr, pool[q]}
  BY <1>1 DEF PoolTypes
<1>5. raced = {} => ReturnsSettled'
  BY <1>1, SameReturns DEF SessionsInv
<1>6. CASE SetTask(c, i, t)
  BY <1>1, <1>3, <1>4, <1>5, <1>6, TaskSessions
<1>7. CASE SetTask(c, i, u)
  BY <1>1, <1>2, <1>4, <1>5, <1>7, TaskSessions
<1> QED
  BY <1>1, <1>6, <1>7

\* A connection that comes up or fails leaves the pool alone.
LEMMA ConnectSessions ==
  ASSUME SessionsInv, CallsInv, PoolTypes, NEW c \in Calls, NEW i \in DOMAIN task[c],
         Connect(c, i)
  PROVE  SessionsInv'
<1> DEFINE t == [task[c][i] EXCEPT !.pc = "cli"]
           u == [task[c][i] EXCEPT !.pc = "done", !.outs = Failed(c, i, "connect")]
<1>1. /\ call[c].pc = "running" /\ task[c][i].pc = "connecting"
      /\ SetTask(c, i, t) \/ SetTask(c, i, u)
      /\ UNCHANGED <<call, mgr, admin, raced, returning, carried, pool>>
  BY DEF Connect, inventoryVars
<1>2. t.to = task[c][i].to /\ u.pc = "done"
  BY <1>1, Unfinished DEF TaskRecs
<1> HIDE DEF t, u
<1>3. raced = {} => Settled(Router(c, i), t.to)
  BY <1>1, <1>2, TaskSettled
<1>4. raced = {} => ReturnsSettled'
  BY <1>1, SameReturns DEF SessionsInv
<1>5. CASE SetTask(c, i, t)
  BY <1>1, <1>3, <1>4, <1>5, TaskSessions
<1>6. CASE SetTask(c, i, u)
  BY <1>1, <1>2, <1>4, <1>6, TaskSessions
<1> QED
  BY <1>1, <1>5, <1>6

\* A command: the session goes on, or is handed to be returned.
LEMMA CliSessions ==
  ASSUME SessionsInv, CallsInv, PoolTypes, NEW c \in Calls, NEW i \in DOMAIN task[c],
         NEW outcome, Cli(c, i, outcome)
  PROVE  SessionsInv'
<1> DEFINE t    == task[c][i]
           r    == Router(c, i)
           outs == Append(t.outs, outcome)
           retry == [t EXCEPT !.pc = "open", !.to = NoAddr, !.retried = TRUE]
           done == [t EXCEPT !.pc = "done", !.to = NoAddr, !.outs = outs]
           go   == [t EXCEPT !.outs = outs]
           n    == [s \in Sessions |-> IF s = SessionOf(c, i) THEN 1 ELSE 0]
<1>1. /\ call[c].pc = "running" /\ t.pc = "cli"
      /\ UNCHANGED <<call, mgr, admin, raced, carried, pool>>
  BY DEF Cli, KeepInventory
<1>2. t \in TaskRecs
  BY <1>1, Unfinished
<1>3. \/ SetTask(c, i, retry) /\ SpawnReturns(n)
      \/ SetTask(c, i, done) /\ SpawnReturns(n)
      \/ SetTask(c, i, go) /\ UNCHANGED returning
  BY DEF Cli
<1>4. raced = {} => Settled(r, t.to)
  BY <1>1, TaskSettled
<1> HIDE DEF outs
<1>5. retry.pc = "open" /\ done.pc = "done" /\ go.to = t.to
  BY <1>2 DEF TaskRecs
<1> HIDE DEF retry, done, go
<1>6. ASSUME raced = {} PROVE ReturnsSettled'
  <2>1. ReturnsSettled
    BY <1>6 DEF SessionsInv
  <2>2. \A s \in Sessions : n[s] = 0 \/ Settled(s[1], s[2])
    BY <1>4, <1>6 DEF SessionOf
  <2> HIDE DEF n
  <2>3. CASE SpawnReturns(n)
    BY <1>1, <2>1, <2>2, <2>3, SpawnSettled
  <2>4. CASE UNCHANGED returning
    BY <1>1, <2>1, <2>4, SameReturns
  <2> QED
    BY <1>3, <2>3, <2>4
<1> QED
  BY <1>1, <1>3, <1>4, <1>5, <1>6, TaskSessions

\* A timeout: the guards of the dropped tasks hand their sessions to be returned.
LEMMA TimeoutSessions ==
  ASSUME SessionsInv, CallsInv, PoolTypes, NEW c \in Calls, Timeout(c)
  PROVE  SessionsInv'
<1> DEFINE held(s) == {i \in {j \in Indices(c) : task[c][j].pc = "cli"} : SessionOf(c, i) = s}
           n == [s \in Sessions |-> Cardinality(held(s))]
<1>1. /\ call[c].pc = "running" /\ UNCHANGED <<mgr, admin, raced, carried, pool>>
      /\ call'[c].pc = "replied"
      /\ \A d \in Calls : d # c => call'[d] = call[d] /\ task'[d] = task[d]
  BY DEF Timeout, KeepInventory, Reply, CallsInv
<1>2. SpawnReturns(n)
  BY DEF Timeout
<1>3. ASSUME raced = {} PROVE ReturnsSettled'
  <2>1. ASSUME NEW s \in Sessions, held(s) # {} PROVE Settled(s[1], s[2])
    <3>1. PICK i \in Indices(c) : task[c][i].pc = "cli" /\ SessionOf(c, i) = s
      BY <2>1
    <3>2. Settled(Router(c, i), task[c][i].to)
      BY <1>1, <1>3, <3>1, RunningCall, TaskSettled
    <3> QED
      BY <3>1, <3>2 DEF SessionOf
  <2> HIDE DEF held
  <2>2. \A s \in Sessions : n[s] = 0 \/ Settled(s[1], s[2])
    BY <2>1, FS_EmptySet
  <2> HIDE DEF n
  <2> QED
    BY <1>1, <1>2, <1>3, <2>2, SpawnSettled DEF SessionsInv
<1>4. CallSettled(c)'
  BY <1>1 DEF CallSettled
<1>5. raced = {} => \A r \in Routers : Settled(r, pool'[r])
  BY <1>1 DEF SessionsInv
<1> QED
  BY <1>1, <1>3, <1>4, <1>5, CallFrame

\* The task that gives a session back puts it in the slot of its name, or closes it.
LEMMA ReturnSessions ==
  ASSUME SessionsInv, PoolTypes, NEW s \in Sessions, ReturnSession(s)
  PROVE  SessionsInv'
<1>1. /\ UNCHANGED <<mgr, admin, raced, carried, call, task>> /\ returning[s] > 0
      /\ returning' = [returning EXCEPT ![s] = @ - 1]
      /\ pool' = pool \/ pool' = [pool EXCEPT ![s[1]] = s[2]]
  BY DEF ReturnSession, KeepInventory
<1>2. \A r, addr : Settled(r, addr)' <=> Settled(r, addr)
  BY <1>1 DEF Settled, Dropping
<1>3. SUFFICES ASSUME raced = {} PROVE /\ \A r \in Routers : Settled(r, pool'[r])
                                       /\ ReturnsSettled'
  <2>1. \A c \in Calls : CallSettled(c)' <=> CallSettled(c)
    <3>1. \A c, i : Indices(c)' = Indices(c) /\ Router(c, i)' = Router(c, i)
      BY <1>1 DEF Indices, Router
    <3> QED
      BY <1>1, <1>2, <3>1 DEF CallSettled
  <2>2. \A a \in Admins : PlanInv(a)' <=> PlanInv(a)
    BY <1>1 DEF PlanInv
  <2>3. \A r \in Routers : Settled(r, pool'[r]) => Settled(r, pool[r])'
    BY <1>1 DEF Settled, Dropping
  <2> QED
    BY <1>1, <2>1, <2>2, <2>3 DEF SessionsInv
<1>4. Settled(s[1], s[2])
  BY <1>1, <1>3 DEF SessionsInv, ReturnsSettled
<1>5. \A r \in Routers : pool'[r] = pool[r] \/ (r = s[1] /\ pool'[r] = s[2])
  BY <1>1 DEF PoolTypes
<1>6. \A x \in Sessions : returning'[x] > 0 => returning[x] > 0
  BY <1>1 DEF PoolTypes
<1>7. ReturnsSettled'
  BY <1>2, <1>3, <1>6 DEF SessionsInv, ReturnsSettled
<1> QED
  BY <1>3, <1>4, <1>5, <1>7 DEF SessionsInv

\* In every step, a session that stops leading where the inventory says is known to be stale.
LEMMA StepSessions ==
  ASSUME InventoryInv, CallsInv, PoolTypes, SessionsInv, [Next]_vars
  PROVE  SessionsInv'
<1>1. CASE AdminNext(scenario.admins, scenario.edits, scenario.devices, Out)
           /\ UNCHANGED callVars
  <2>0. /\ scenario.admins \subseteq Admins /\ scenario.devices \subseteq NewDevices
        /\ UNCHANGED <<call, task, returning>>
    BY <1>1, ScenariosAssumption DEF InventoryInv, InventoryTypes, callVars
  <2>1. ASSUME NEW f \in Files, NEW content \in scenario.edits, EditFile(f, content)
        PROVE  SessionsInv'
    <3>1. /\ UNCHANGED <<mgr, pool, carried, call, task, returning, admin>>
          /\ raced' = {} => raced = {}
      BY <2>0, <2>1 DEF EditFile
    <3>2. \A r : Dropping(r) => Dropping(r)'
      BY <3>1 DEF Dropping
    <3>3. raced' = {} => \A a \in Admins : PlanInv(a)'
      BY <3>1 DEF SessionsInv, PlanInv
    <3> QED
      BY <3>1, <3>2, <3>3, AdminFrame
  <2>2. ASSUME NEW a \in scenario.admins, NEW op \in {"reload_devices", "sighup"},
               NEW f \in Files \cup {Outside}, ReloadStart(a, op, f)
        PROVE  SessionsInv'
    BY <2>0, <2>2, PlainSessions
  <2>3. ASSUME NEW a \in scenario.admins, NEW dev \in scenario.devices, AddValidate(a, dev)
        PROVE  SessionsInv'
    BY <2>0, <2>3, PlainSessions
  <2>4. ASSUME NEW a \in scenario.admins,
               \/ ReloadLoad(a) \/ ReloadHash(a) \/ StoreInventory(a) \/ StorePolicy(a)
               \/ ReloadInvalidate(a, Out) \/ AddCheckHash(a) \/ AddStage(a) \/ AddPersist(a)
        PROVE  SessionsInv'
    BY <2>0, <2>4, ReloadLoadSessions, ReloadHashSessions, StoreInventorySessions,
       StorePolicySessions, InvalidateSessions, PlainSessions, AddStageSessions,
       AddPersistSessions
  <2> QED
    BY <1>1, <2>1, <2>2, <2>3, <2>4 DEF AdminNext
<1>2. CASE CrashAll
  <2>1. /\ \A r \in Routers : pool'[r] = NoAddr
        /\ \A c \in Calls : call'[c].pc = "idle"
        /\ \A a \in Admins : admin'[a].pc = "idle"
        /\ \A s \in Sessions : returning'[s] = 0
    BY <1>2 DEF CrashAll, Crash, NoCall, AdminIdle
  <2>2. ReturnsSettled'
    BY <2>1 DEF ReturnsSettled
  <2> QED
    BY <2>1, <2>2, NoPlan DEF SessionsInv, Settled, CallSettled
<1>3. CASE UNCHANGED vars
  <2>1. UNCHANGED <<mgr, pool, carried, call, task, returning, raced, admin>>
    BY <1>3 DEF vars, callVars, inventoryVars
  <2>2. /\ \A r : Dropping(r) => Dropping(r)'
        /\ raced = {} => \A a \in Admins : PlanInv(a)'
    BY <2>1 DEF SessionsInv, Dropping, PlanInv
  <2> QED
    BY <2>1, <2>2, AdminFrame
<1>4. ASSUME NEW c \in Calls, NEW req \in scenario.requests, LoadPolicy(c, req)
      PROVE  SessionsInv'
  <2>1. req \in ToolRequests
    BY ScenariosAssumption DEF InventoryInv, InventoryTypes
  <2> QED
    BY <1>4, <2>1, NoSessionStep
<1>5. ASSUME NEW c \in Calls,
             CheckBatch(c) \/ CheckSingle(c) \/ Collect(c) \/ Timeout(c) \/ Leave(c)
      PROVE  SessionsInv'
  BY <1>5, NoSessionStep, TimeoutSessions
<1>6. ASSUME NEW c \in Calls, NEW i \in DOMAIN task[c],
             \/ Acquire(c, i) \/ OpenPooled(c, i) \/ OpenFresh(c, i) \/ Connect(c, i)
             \/ \E outcome \in {"ok", "error", "transient"} : Cli(c, i, outcome)
      PROVE  SessionsInv'
  BY <1>6, AcquireSessions, OpenPooledSessions, OpenFreshSessions, ConnectSessions, CliSessions
<1>7. ASSUME NEW s \in Sessions, ReturnSession(s)
      PROVE  SessionsInv'
  BY <1>7, ReturnSessions
<1> QED
  BY <1>1, <1>2, <1>3, <1>4, <1>5, <1>6, <1>7 DEF Next

\* SessionsFollowInventory: outside a reload, an idle session leads to the address its name has in
\* the inventory, unless that very session was being opened, in use or on its way back to the pool
\* when its name was invalidated, or an editor saved a file under a reload or an addition. Any
\* number of spawned returns may be under way, each landing whenever it likes.
THEOREM SessionsFollow == Spec => []SessionsFollowInventory
<1>1. Init => SessionsInv
  <2>1. Init => /\ \A r \in Routers : pool[r] = NoAddr
                /\ \A c \in Calls : call[c].pc = "idle"
                /\ \A a \in Admins : admin[a].pc = "idle"
                /\ \A s \in Sessions : returning[s] = 0
    BY DEF Init, CallsInit, InventoryInit, NoCall, AdminIdle
  <2>2. Init => ReturnsSettled
    BY <2>1 DEF ReturnsSettled
  <2> QED
    BY <2>1, <2>2 DEF SessionsInv, Settled, CallSettled, PlanInv
<1>2. InventoryInv /\ CallsInv /\ PoolTypes /\ SessionsInv /\ [Next]_vars => SessionsInv'
  BY StepSessions
<1>3. ASSUME InventoryInv, SessionsInv PROVE SessionsFollowInventory
  <2>1. lock = Free => \A r : ~Dropping(r)
    BY <1>3, LockAssumption DEF Dropping, InventoryInv, LockInv, LockedPcs
  <2> QED
    BY <1>3, <2>1 DEF SessionsInv, Settled, SessionsFollowInventory
<1> QED
  BY <1>1, <1>2, <1>3, InventoryIsConsistent, CallsAreChecked, PTL DEF Spec
=============================================================================
