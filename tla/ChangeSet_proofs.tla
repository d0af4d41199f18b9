------------------------- MODULE ChangeSet_proofs --------------------------
(***************************************************************************)
(* Proofs about change sets, for any number of change sets, sessions,       *)
(* operators and crashes.                                                   *)
(***************************************************************************)
EXTENDS ChangeSet, TLAPS

-----------------------------------------------------------------------------
(* The inductive invariant *)

\* The positions at which a task holds a session.
SessPcs == {"lock", "fingerprint", "unlock", "stage", "unstage", "validate", "precommit",
            "commit", "commitUnlock", "record", "release", "readBack", "unlockGood",
            "unlockBad", "confirm", "closeGood", "closeBad", "sweepUnlock"}

\* What the proofs need of the types.
Shapes ==
  /\ op \in [Calls -> OperationRecord]
  /\ DOMAIN csState = Calls /\ DOMAIN pre = Calls /\ DOMAIN outcome = Calls
  /\ DOMAIN commitLog = Calls /\ DOMAIN at = Tasks /\ DOMAIN sess = Tasks
  /\ DOMAIN sst = Sessions /\ DOMAIN alive = Sessions
  /\ up \in BOOLEAN

\* A session belongs to one task, which holds its guard.
SessionsInv ==
  /\ \A a \in Tasks : IF at[a] \in SessPcs
                      THEN sess[a] \in Sessions /\ sst[sess[a]] = "held"
                      ELSE sess[a] = NoSession
  /\ \A a, b \in Tasks : sess[a] = sess[b] /\ sess[a] \in Sessions => a = b

\* The server that is down runs nothing.
DownInv == ~up => \A a \in Tasks : at[a] = "idle"

\* While its session lives, an apply has the candidate to itself.
LockInv(k) ==
  LET s == sess[Apl(k)] IN
  /\ at[Apl(k)] \in {"fingerprint", "stage"} /\ alive[s] => lockHolder = s /\ candidate = {}
  /\ at[Apl(k)] \in {"validate", "precommit", "commit"} /\ alive[s] =>
       lockHolder = s /\ candidate = {k}

\* Neither in the running configuration nor in the candidate.
Clean(k) == k \notin running /\ k \notin candidate

\* A commit that no rollback timer can take back.
Permanent(k) == k \in running /\ k \notin winEdits /\ k \notin candidate

\* Nobody else is concerned with a change set before its commit.
Alone(k) ==
  /\ at[Cfm(k)] = "idle" /\ at[Swp(k)] \in {"idle", "snapshot"}
  /\ commitLog[k] = "none" /\ op[k].deadline = "none"

\* The positions after the commit, and those of the cleanup.
PastStaging == {"commitUnlock", "record", "release", "readRecord", "markUnknown", "readBack",
                "unlockGood", "unlockBad", "settleOp", "settleSet"}

\* The record a position of the apply goes with.
RecordInv(k) ==
  /\ at[Apl(k)] \in {"fingerprint", "unlock", "stage", "unstage", "fail"} => op[k].state = "Staging"
  /\ at[Apl(k)] = "validate" => op[k].state = "Staged"
  /\ at[Apl(k)] = "precommit" => op[k].state = "Validated"
  /\ at[Apl(k)] = "commit" => op[k].state = "Committing"
  /\ at[Apl(k)] \in PastStaging => op[k].state # "Staging"
  /\ at[Apl(k)] \in {"commitUnlock", "record"} => op[k].state \notin {"Staged", "Validated"}
  /\ at[Apl(k)] = "record" => outcome[k] \in {"committed", "awaiting", "notCommitted", "unknown"}

Fresh == {"none", "Planned", "Approved", "Cancelled"}
AloneInv(k) ==
  /\ csState[k] \in Fresh => op[k].state = "none" /\ at[Apl(k)] = "idle" /\ Clean(k) /\ Alone(k)
  /\ op[k].state \in {"Staging", "Staged", "Validated"} => Alone(k)
  /\ at[Apl(k)] = "commit" => Alone(k)

\* Where the change is gone, or not there yet, and where it is there to stay.
CleanInv(k) ==
  /\ op[k].state = "Staging" /\ at[Apl(k)] \in {"open", "lock", "fingerprint", "stage"} => Clean(k)
  /\ k \notin pre[k]
  /\ at[Apl(k)] \in {"unlockGood", "settleOp"} => Clean(k)
  /\ op[k].state = "Discarded" => Clean(k)
  /\ commitLog[k] = "plain" => Permanent(k)
  /\ at[Swp(k)] \in {"reread", "open", "lock", "sweepUnlock", "sweepFree", "sweepWrite"} =>
       commitLog[k] = "plain"

KInv(k) == LockInv(k) /\ RecordInv(k) /\ AloneInv(k) /\ CleanInv(k)

Inv == Shapes /\ SessionsInv /\ DownInv /\ \A k \in Calls : KInv(k)

-----------------------------------------------------------------------------
(* Tasks, the device, and what a step leaves alone *)

\* The three tasks of a change set.
LEMMA TaskFacts ==
  /\ \A k \in Calls : Apl(k) \in Tasks /\ Cfm(k) \in Tasks /\ Swp(k) \in Tasks
  /\ \A k : Apl(k)[1] = k /\ Cfm(k)[1] = k /\ Swp(k)[1] = k
  /\ \A k : Apl(k)[2] = "apply" /\ Cfm(k)[2] = "confirm" /\ Swp(k)[2] = "sweep"
  /\ \A a \in Tasks : a[1] \in Calls
  /\ \A a \in Tasks : a = Apl(a[1]) \/ a = Cfm(a[1]) \/ a = Swp(a[1])
BY DEF Tasks, Apl, Cfm, Swp

\* A change that is gone stays gone, and one that is permanent stays permanent.
Calm(k) == (Clean(k) => Clean(k)') /\ (Permanent(k) => Permanent(k)')

\* A session that has the candidate locked keeps it locked and unchanged, while it lives.
Keeps(s) ==
  /\ alive'[s] => alive[s]
  /\ alive'[s] /\ lockHolder = s => lockHolder' = s /\ candidate' = candidate

\* The device carries out an RPC of session s0 that loads nothing, or ends it.
LEMMA DeviceStep ==
  ASSUME NEW s0 \in Sessions, NEW owner,
         \/ UNCHANGED devVars \/ DevLock(s0) \/ DevUnlock(s0) \/ DevRevert(s0)
         \/ DevCommit(s0) \/ DevOpenWindow(s0, owner) \/ DevEndSession(s0)
  PROVE  /\ \A k \in Calls : Calm(k)
         /\ \A s \in Sessions : s # s0 /\ lockHolder = s => lockHolder' = s /\ candidate' = candidate
<1>1. NoSession \notin Sessions
  BY DeviceAssumption
<1>2. CASE UNCHANGED devVars
  BY <1>2 DEF Calm, Clean, Permanent, devVars
<1>3. CASE DevLock(s0) \/ DevUnlock(s0)
  BY <1>1, <1>3 DEF Calm, Clean, Permanent, DevLock, DevUnlock
<1>4. CASE DevRevert(s0)
  BY <1>1, <1>4 DEF Calm, Clean, Permanent, DevRevert, MayWrite
<1>5. CASE DevCommit(s0)
  BY <1>1, <1>5 DEF Calm, Clean, Permanent, DevCommit, MayWrite
<1>6. CASE DevOpenWindow(s0, owner)
  BY <1>1, <1>6 DEF Calm, Clean, Permanent, DevOpenWindow, MayWrite
<1>7. CASE DevEndSession(s0)
  BY <1>1, <1>7 DEF Calm, Clean, Permanent, DevEndSession
<1> QED
  BY <1>2, <1>3, <1>4, <1>5, <1>6, <1>7

\* Loading change set k disturbs no other change set and no other session.
LEMMA LoadStep ==
  ASSUME NEW s0 \in Sessions, NEW k \in Calls, DevLoad(s0, k)
  PROVE  /\ \A j \in Calls : j # k => Calm(j)
         /\ \A s \in Sessions : s # s0 /\ lockHolder = s => lockHolder' = s /\ candidate' = candidate
BY DeviceAssumption DEF Calm, Clean, Permanent, DevLoad, MayWrite

\* Nor do the device's timer and the operators.
LEMMA WorldStep ==
  ASSUME WindowExpires \/ \E o \in Operators : OperatorEdit(o) \/ OperatorFinish(o)
  PROVE  /\ \A k \in Calls : Calm(k)
         /\ \A s \in Sessions : lockHolder = s => lockHolder' = s /\ candidate' = candidate
<1>1. NoSession \notin Sessions /\ Operators \cap Calls = {}
  BY DeviceAssumption
<1>2. CASE WindowExpires
  BY <1>2 DEF WindowExpires, Calm, Clean, Permanent
<1>3. ASSUME NEW o \in Operators, OperatorEdit(o)
      PROVE  /\ \A k \in Calls : Calm(k)
             /\ \A s \in Sessions : lockHolder = s => lockHolder' = s /\ candidate' = candidate
  BY <1>1, <1>3 DEF OperatorEdit, Calm, Clean, Permanent
<1>4. ASSUME NEW o \in Operators, OperatorFinish(o)
      PROVE  /\ \A k \in Calls : Calm(k)
             /\ \A s \in Sessions : lockHolder = s => lockHolder' = s /\ candidate' = candidate
  BY <1>1, <1>4 DEF OperatorFinish, Calm, Clean, Permanent
<1> QED
  BY <1>2, <1>3, <1>4

\* A change set none of whose own state changes.
LEMMA OtherChange ==
  ASSUME NEW k \in Calls, KInv(k), Calm(k), at[Apl(k)] \in SessPcs => Keeps(sess[Apl(k)]),
         op'[k] = op[k], csState'[k] = csState[k], pre'[k] = pre[k], outcome'[k] = outcome[k],
         commitLog'[k] = commitLog[k], at'[Apl(k)] = at[Apl(k)], at'[Cfm(k)] = at[Cfm(k)],
         at'[Swp(k)] = at[Swp(k)], sess'[Apl(k)] = sess[Apl(k)]
  PROVE  KInv(k)'
<1>1. LockInv(k)'
  BY DEF KInv, LockInv, Keeps, SessPcs
<1>2. RecordInv(k)'
  BY DEF KInv, RecordInv
<1>3. AloneInv(k)'
  BY DEF KInv, AloneInv, Alone, Calm
<1>4. CleanInv(k)'
  BY DEF KInv, CleanInv, Calm
<1> QED
  BY <1>1, <1>2, <1>3, <1>4 DEF KInv

\* A step of task a of change set a[1].
LEMMA TaskStep ==
  ASSUME Inv, NEW a \in Tasks, up, up' = up, Shapes',
         \A b \in Tasks : b # a => at'[b] = at[b] /\ sess'[b] = sess[b],
         \A j \in Calls : j # a[1] =>
            /\ op'[j] = op[j] /\ csState'[j] = csState[j] /\ pre'[j] = pre[j]
            /\ outcome'[j] = outcome[j] /\ commitLog'[j] = commitLog[j] /\ Calm(j),
         \A b \in Tasks : b # a /\ at[b] \in SessPcs => Keeps(sess[b]) /\ sst'[sess[b]] = "held",
         IF at'[a] \in SessPcs
         THEN /\ sess'[a] \in Sessions /\ sst'[sess'[a]] = "held"
              /\ sess'[a] = sess[a] \/ sst[sess'[a]] # "held"
         ELSE sess'[a] = NoSession,
         KInv(a[1])'
  PROVE  Inv'
<1>1. DownInv'
  BY DEF DownInv
<1>2. SessionsInv'
  <2>1. \A b \in Tasks : IF at'[b] \in SessPcs
                         THEN sess'[b] \in Sessions /\ sst'[sess'[b]] = "held"
                         ELSE sess'[b] = NoSession
    BY DEF Inv, SessionsInv
  <2>2. ASSUME NEW b \in Tasks, NEW c \in Tasks, sess'[b] = sess'[c], sess'[b] \in Sessions
        PROVE  b = c
    <3>1. CASE b # a /\ c # a
      BY <2>2, <3>1 DEF Inv, SessionsInv
    <3>2. ASSUME NEW d \in Tasks, d # a, sess'[d] = sess'[a], sess'[a] \in Sessions PROVE FALSE
      <4>1. sess[d] = sess'[a] /\ at'[a] \in SessPcs
        BY <3>2, DeviceAssumption
      <4>2. at[d] \in SessPcs /\ sst[sess[d]] = "held"
        BY <3>2, <4>1, DeviceAssumption DEF Inv, SessionsInv
      <4>3. sess'[a] = sess[a]
        BY <4>1, <4>2
      <4> QED
        BY <3>2, <4>1, <4>3 DEF Inv, SessionsInv
    <3> QED
      BY <2>2, <3>1, <3>2
  <2> QED
    BY <2>1, <2>2 DEF SessionsInv
<1>3. ASSUME NEW j \in Calls, j # a[1] PROVE KInv(j)'
  <2>1. Apl(j) \in Tasks /\ Cfm(j) \in Tasks /\ Swp(j) \in Tasks
        /\ Apl(j) # a /\ Cfm(j) # a /\ Swp(j) # a
    BY <1>3, TaskFacts
  <2>2. KInv(j)
    BY DEF Inv
  <2> QED
    BY <1>3, <2>1, <2>2, OtherChange
<1> QED
  BY <1>1, <1>2, <1>3 DEF Inv

\* The server is up while a task runs.
LEMMA UpWhenBusy ==
  ASSUME Inv, NEW a \in Tasks, at[a] # "idle"
  PROVE  up
BY DEF Inv, DownInv

\* A task that has a session has it to itself.
LEMMA OwnSession ==
  ASSUME Inv, NEW a \in Tasks, at[a] \in SessPcs
  PROVE  /\ sess[a] \in Sessions /\ sst[sess[a]] = "held"
         /\ \A b \in Tasks : b # a /\ at[b] \in SessPcs =>
              sess[b] # sess[a] /\ sess[b] \in Sessions /\ sst[sess[b]] = "held"
BY DEF Inv, SessionsInv

\* A step on the session of task a: the other tasks' sessions are not disturbed.
LEMMA OnOwnSession ==
  ASSUME Inv, NEW a \in Tasks, at[a] \in SessPcs, alive' = alive,
         \A s \in Sessions : s # sess[a] =>
            sst'[s] = sst[s] /\ (lockHolder = s => lockHolder' = s /\ candidate' = candidate)
  PROVE  \A b \in Tasks : b # a /\ at[b] \in SessPcs => Keeps(sess[b]) /\ sst'[sess[b]] = "held"
BY OwnSession DEF Keeps

\* A step that touches no session and not the device.
LEMMA NoSessionStep ==
  ASSUME Inv, UNCHANGED <<devVars, sst, alive>>
  PROVE  /\ \A j \in Calls : Calm(j)
         /\ \A b \in Tasks : at[b] \in SessPcs => Keeps(sess[b]) /\ sst'[sess[b]] = "held"
BY OwnSession DEF Keeps, Calm, Clean, Permanent, devVars, Inv, SessionsInv

-----------------------------------------------------------------------------
(* Steps of a task *)

\* Where the sweep has the commit log's word for it.
Sweeping == {"reread", "open", "lock", "sweepUnlock", "sweepFree", "sweepWrite"}

\* A step of the confirm or the sweep of a change set that is not alone any more,
\* and that leaves its record or settles it.
LEMMA SideStep ==
  ASSUME NEW k \in Calls, KInv(k), Calm(k), at[Apl(k)] \in SessPcs => Keeps(sess[Apl(k)]),
         op'[k].state \in {op[k].state, "Committed"}, csState'[k] = csState[k], pre'[k] = pre[k], outcome'[k] = outcome[k],
         commitLog'[k] = commitLog[k], at'[Apl(k)] = at[Apl(k)], sess'[Apl(k)] = sess[Apl(k)],
         ~Alone(k), at'[Swp(k)] \in Sweeping => at[Swp(k)] \in Sweeping \/ commitLog[k] = "plain"
  PROVE  KInv(k)'
<1>1. LockInv(k)'
  BY DEF KInv, LockInv, Keeps, SessPcs
<1>2. RecordInv(k)'
  BY DEF KInv, RecordInv, AloneInv, PastStaging
<1>3. AloneInv(k)'
  BY DEF KInv, AloneInv
<1>4. CleanInv(k)'
  BY DEF KInv, CleanInv, Calm, Sweeping
<1> QED
  BY <1>1, <1>2, <1>3, <1>4 DEF KInv

\* Every change set is calm and no other task's session is disturbed when a task
\* has the device do something on its own session.
LEMMA OwnRpc ==
  ASSUME Inv, NEW a \in Tasks, at[a] \in SessPcs, alive' = alive, NEW owner,
         LET s == sess[a] IN
         \/ UNCHANGED devVars \/ DevLock(s) \/ DevUnlock(s) \/ DevRevert(s)
         \/ DevCommit(s) \/ DevOpenWindow(s, owner),
         \A s \in Sessions : s # sess[a] => sst'[s] = sst[s]
  PROVE  /\ \A j \in Calls : Calm(j)
         /\ \A b \in Tasks : b # a /\ at[b] \in SessPcs => Keeps(sess[b]) /\ sst'[sess[b]] = "held"
<1>1. sess[a] \in Sessions
  BY OwnSession
<1>2. /\ \A j \in Calls : Calm(j)
      /\ \A s \in Sessions : s # sess[a] /\ lockHolder = s => lockHolder' = s /\ candidate' = candidate
  BY <1>1, DeviceStep
<1> QED
  BY <1>2, OnOwnSession

\* Where a task goes, by its kind.
LEMMA Destinations ==
  ASSUME NEW a \in Tasks
  PROVE  /\ a = Cfm(a[1]) => WithoutSession(a) = "idle"
         /\ a = Swp(a[1]) => WithoutSession(a) = "sweepWrite" /\ WithLock(a) = "sweepUnlock"
         /\ a = Apl(a[1]) /\ op[a[1]].state = "Staging" =>
              WithoutSession(a) = "fail" /\ WithLock(a) = "fingerprint"
         /\ a = Apl(a[1]) /\ op[a[1]].state # "Staging" =>
              WithoutSession(a) = "settleSet" /\ WithLock(a) = "readBack"
         /\ WithoutSession(a) \notin SessPcs
         /\ WithLock(a) \in SessPcs
BY TaskFacts DEF WithoutSession, WithLock, Staging, SessPcs

\* lock(), of the apply, of the probe of its cleanup and of the sweep.
LEMMA LockStep ==
  ASSUME Inv, NEW a \in Tasks, Lock(a)
  PROVE  Inv'
<1> DEFINE k == a[1]
           s == sess[a]
<1>1. k \in Calls /\ up /\ at[a] = "lock" /\ at[a] \in SessPcs
  BY TaskFacts, UpWhenBusy DEF Lock, SessPcs
<1>2. s \in Sessions /\ sst[s] = "held"
  BY <1>1, OwnSession
<1>3. PICK reply \in Replies :
        /\ TxLock(s, reply)
        /\ IF reply = "ok"
             THEN /\ Goes(a, WithLock(a))
                  /\ op' = [op EXCEPT ![a[1]].lock = @ \/ Staging(a)]
             ELSE Drops(a, WithoutSession(a)) /\ UNCHANGED op
  BY DEF Lock
<1>4. UNCHANGED <<commitLog, csState, pre, outcome, up, alive>>
  BY <1>3 DEF Lock, srvVars, TxLock
<1>5. UNCHANGED devVars \/ DevLock(s)
  BY <1>3 DEF TxLock, Rpc
<1>6. /\ DOMAIN sst' = Sessions /\ \A t \in Sessions : t # s => sst'[t] = sst[t]
      /\ reply = "ok" => sst' = sst
  BY <1>3 DEF TxLock, Inv, Shapes
<1>7. /\ \A j \in Calls : Calm(j)
      /\ \A b \in Tasks : b # a /\ at[b] \in SessPcs => Keeps(sess[b]) /\ sst'[sess[b]] = "held"
  BY <1>1, <1>4, <1>5, <1>6, OwnRpc
<1>8. /\ \A b \in Tasks : b # a => at'[b] = at[b] /\ sess'[b] = sess[b]
      /\ DOMAIN at' = Tasks /\ DOMAIN sess' = Tasks
      /\ reply = "ok" => at'[a] = WithLock(a) /\ sess'[a] = s
      /\ reply # "ok" => at'[a] = WithoutSession(a) /\ sess'[a] = NoSession
  BY <1>3 DEF Goes, Drops, Inv, Shapes
<1>9. /\ op' \in [Calls -> OperationRecord] /\ \A j \in Calls : j # k => op'[j] = op[j]
      /\ op'[k].state = op[k].state /\ op'[k].deadline = op[k].deadline
  <2>1. CASE reply = "ok"
    <3> DEFINE held == op[k].lock \/ Staging(a)
    <3>1. op' = [op EXCEPT ![k].lock = held]
      BY <1>3, <2>1
    <3>2. held \in BOOLEAN
      BY Zenon DEF Staging
    <3> HIDE DEF held, k
    <3>3. op \in [Calls -> OperationRecord]
      BY DEF Inv, Shapes
    <3> QED
      BY <1>1, <3>1, <3>2, <3>3 DEF OperationRecord
  <2>2. CASE reply # "ok"
    BY <1>1, <1>3, <2>2 DEF Inv, Shapes
  <2> QED
    BY <2>1, <2>2
<1>10. Shapes'
  BY <1>4, <1>6, <1>8, <1>9 DEF Inv, Shapes
<1>11. KInv(k)'
  <2>0. KInv(k)
    BY <1>1 DEF Inv
  <2>1. CASE a = Apl(k)
    <3>1. /\ at'[Cfm(k)] = at[Cfm(k)] /\ at'[Swp(k)] = at[Swp(k)]
          /\ op[k].state = "Staging" => at'[a] \in {"fingerprint", "fail"}
          /\ op[k].state # "Staging" => at'[a] \in {"readBack", "settleSet"}
          /\ at'[a] = "fingerprint" => reply = "ok"
      BY <1>1, <1>8, <2>1, Destinations, TaskFacts
    <3>2. at'[a] = "fingerprint" => lockHolder' = s /\ candidate' = {}
      BY <1>3, <3>1 DEF TxLock, Rpc, DevLock
    <3>3. LockInv(k)'
      BY <1>8, <2>1, <3>1, <3>2 DEF LockInv
    <3>4. RecordInv(k)'
      BY <1>9, <2>1, <3>1 DEF RecordInv, PastStaging
    <3>5. AloneInv(k)'
      BY <1>1, <1>4, <1>7, <1>9, <2>0, <2>1, <3>1 DEF KInv, AloneInv, Alone, Calm
    <3>6. CleanInv(k)'
      BY <1>1, <1>4, <1>7, <1>9, <2>0, <2>1, <3>1 DEF KInv, CleanInv, Calm
    <3> QED
      BY <3>3, <3>4, <3>5, <3>6 DEF KInv
  <2>2. CASE a # Apl(k)
    <3>1. /\ Apl(k) \in Tasks /\ at'[Apl(k)] = at[Apl(k)] /\ sess'[Apl(k)] = sess[Apl(k)]
          /\ at[Apl(k)] \in SessPcs => Keeps(sess[Apl(k)])
          /\ ~Alone(k)
          /\ at'[Swp(k)] \in Sweeping => at[Swp(k)] \in Sweeping
      BY <1>1, <1>7, <1>8, <2>2, TaskFacts DEF Alone, Sweeping
    <3>2. op'[k] = op[k]
      <4>1. a[2] # "apply"
        BY <2>2, TaskFacts
      <4>2. ~Staging(a)
        BY <4>1 DEF Staging
      <4> QED
        BY <1>1, <1>3, <4>2 DEF Inv, Shapes, OperationRecord
    <3> QED
      BY <1>1, <1>4, <1>7, <2>0, <3>1, <3>2, SideStep
  <2> QED
    BY <2>1, <2>2
<1>12. IF at'[a] \in SessPcs
       THEN /\ sess'[a] \in Sessions /\ sst'[sess'[a]] = "held"
            /\ sess'[a] = sess[a] \/ sst[sess'[a]] # "held"
       ELSE sess'[a] = NoSession
  BY <1>2, <1>6, <1>8, Destinations
<1> HIDE DEF k
<1>13. \A j \in Calls : j # a[1] =>
            /\ op'[j] = op[j] /\ csState'[j] = csState[j] /\ pre'[j] = pre[j]
            /\ outcome'[j] = outcome[j] /\ commitLog'[j] = commitLog[j] /\ Calm(j)
  BY <1>4, <1>7, <1>9 DEF k
<1> QED
  BY <1>1, <1>4, <1>7, <1>8, <1>10, <1>11, <1>12, <1>13, TaskStep DEF k

\* What a step of task a leaves of the other tasks and change sets.
Others(a) ==
  /\ \A b \in Tasks : b # a => at'[b] = at[b] /\ sess'[b] = sess[b]
  /\ \A j \in Calls : j # a[1] =>
       /\ op'[j] = op[j] /\ csState'[j] = csState[j] /\ pre'[j] = pre[j]
       /\ outcome'[j] = outcome[j] /\ commitLog'[j] = commitLog[j]

\* The session of task a after its step.
Holds(a) ==
  IF at'[a] \in SessPcs
  THEN /\ sess'[a] \in Sessions /\ sst'[sess'[a]] = "held"
       /\ sess'[a] = sess[a] \/ sst[sess'[a]] # "held"
  ELSE sess'[a] = NoSession

\* A step of task a on the session it has.
LEMMA OwnTask ==
  ASSUME Inv, NEW a \in Tasks, at[a] \in SessPcs, up' = up, Shapes', Others(a), Holds(a),
         \A j \in Calls : j # a[1] => Calm(j),
         \A b \in Tasks : b # a /\ at[b] \in SessPcs => Keeps(sess[b]) /\ sst'[sess[b]] = "held",
         KInv(a[1])'
  PROVE  Inv'
<1>1. up
  BY UpWhenBusy DEF SessPcs
<1> QED
  BY <1>1, TaskStep DEF Others, Holds

\* A step of task a that touches no session and not the device.
LEMMA QuietTask ==
  ASSUME Inv, NEW a \in Tasks, up, up' = up, Others(a), Shapes', at[a] \notin SessPcs, 
         UNCHANGED <<devVars, sst, alive>>,
         at'[a] \notin SessPcs, sess'[a] = sess[a], KInv(a[1])'
  PROVE  Inv'
<1>1. sess'[a] = NoSession
  BY DEF Inv, SessionsInv
<1>2. /\ \A j \in Calls : Calm(j)
      /\ \A b \in Tasks : at[b] \in SessPcs => Keeps(sess[b]) /\ sst'[sess[b]] = "held"
  BY NoSessionStep
<1> QED
  BY <1>1, <1>2, TaskStep DEF Others

\* The positions of an apply that claim nothing about the device.
Late == {"idle", "release", "readRecord", "markUnknown", "readBack", "unlockBad", "settleSet",
         "commitUnlock", "record", "fail"}

\* A step of the apply to such a position.
LEMMA LateStep ==
  ASSUME NEW k \in Calls, KInv(k), Calm(k), at[Apl(k)] # "idle", at'[Apl(k)] \in Late,
         at'[Apl(k)] = "record" => outcome'[k] \in {"committed", "awaiting", "notCommitted", "unknown"},
         at'[Apl(k)] = "fail" => op'[k].state = "Staging",
         at'[Apl(k)] \in PastStaging => op'[k].state # "Staging",
         at'[Apl(k)] \in {"commitUnlock", "record"} => op'[k].state \notin {"Staged", "Validated"},
         \/ op'[k].state \notin {"Staging", "Staged", "Validated", "Discarded"}
         \/ op'[k].state = op[k].state /\ op'[k].deadline = op[k].deadline,
         csState'[k] = csState[k] \/ csState'[k] = "Failed",
         pre'[k] = pre[k], commitLog'[k] = commitLog[k],
         at'[Cfm(k)] = at[Cfm(k)], at'[Swp(k)] = at[Swp(k)]
  PROVE  KInv(k)'
<1>1. LockInv(k)'
  BY DEF LockInv, Late
<1>2. RecordInv(k)'
  BY DEF KInv, RecordInv, Late
<1>3. AloneInv(k)'
  BY DEF KInv, AloneInv, Alone, Late, Fresh
<1>4. CleanInv(k)'
  BY DEF KInv, CleanInv, Calm, Late
<1> QED
  BY <1>1, <1>2, <1>3, <1>4 DEF KInv

\* unlock(), of the apply, of the probe of its cleanup and of the sweep.
LEMMA UnlockStep ==
  ASSUME Inv, NEW a \in Tasks, Unlock(a)
  PROVE  Inv'
<1> DEFINE k == a[1]
           s == sess[a]
<1>1. k \in Calls /\ at[a] \in SessPcs /\ at[a] \in {"unlock", "unlockGood", "unlockBad", "sweepUnlock"}
  BY TaskFacts DEF Unlock, SessPcs
<1>2. s \in Sessions /\ sst[s] = "held"
  BY <1>1, OwnSession
<1>3. PICK reply \in Replies : TxUnlock(s, reply) /\ Drops(a, AfterUnlock(at[a], reply = "ok"))
  BY DEF Unlock
<1>4. UNCHANGED <<commitLog, op, csState, pre, outcome, up, alive>>
  BY <1>3 DEF Unlock, srvVars, recVars, TxUnlock
<1>5. UNCHANGED devVars \/ DevUnlock(s)
  BY <1>3 DEF TxUnlock, Rpc
<1>6. DOMAIN sst' = Sessions /\ \A t \in Sessions : t # s => sst'[t] = sst[t]
  BY <1>3 DEF TxUnlock, Inv, Shapes
<1>7. /\ \A j \in Calls : Calm(j)
      /\ \A b \in Tasks : b # a /\ at[b] \in SessPcs => Keeps(sess[b]) /\ sst'[sess[b]] = "held"
  BY <1>1, <1>4, <1>5, <1>6, OwnRpc
<1>8. /\ \A b \in Tasks : b # a => at'[b] = at[b] /\ sess'[b] = sess[b]
      /\ DOMAIN at' = Tasks /\ DOMAIN sess' = Tasks
      /\ at'[a] = AfterUnlock(at[a], reply = "ok") /\ sess'[a] = NoSession
  BY <1>3 DEF Drops, Inv, Shapes
<1>9. /\ at[a] = "unlock" => at'[a] = "fail"
      /\ at[a] = "unlockGood" => at'[a] \in {"settleOp", "settleSet"}
      /\ at[a] = "unlockBad" => at'[a] = "settleSet"
      /\ at[a] = "sweepUnlock" => at'[a] \in {"sweepFree", "sweepWrite"}
  <2>1. CASE at[a] = "unlock"
    BY <1>8, <2>1 DEF AfterUnlock
  <2>2. CASE at[a] = "unlockGood"
    BY <1>8, <2>2 DEF AfterUnlock
  <2>3. CASE at[a] = "unlockBad"
    BY <1>8, <2>3 DEF AfterUnlock
  <2>4. CASE at[a] = "sweepUnlock"
    BY <1>8, <2>4 DEF AfterUnlock
  <2> QED
    BY <1>1, <2>1, <2>2, <2>3, <2>4
<1>10. Shapes' /\ Others(a) /\ Holds(a)
  BY <1>1, <1>4, <1>6, <1>8, <1>9 DEF Inv, Shapes, Others, Holds, SessPcs
<1>11. KInv(k)'
  <2>0. KInv(k)
    BY <1>1 DEF Inv
  <2>1. CASE a = Apl(k)
    <3>0. /\ at'[Cfm(k)] = at[Cfm(k)] /\ at'[Swp(k)] = at[Swp(k)] /\ Calm(k)
          /\ at[Apl(k)] = "sweepUnlock" => at'[Apl(k)] \in {"sweepFree", "sweepWrite"}
      BY <1>1, <1>7, <1>8, <1>9, <2>1, TaskFacts
    <3>1. LockInv(k)'
      BY <1>1, <1>9, <2>1 DEF LockInv
    <3>2. RecordInv(k)'
      BY <1>1, <1>4, <1>9, <2>0, <2>1 DEF KInv, RecordInv, PastStaging
    <3>3. AloneInv(k)'
      BY <1>1, <1>4, <1>9, <2>0, <2>1, <3>0 DEF KInv, AloneInv, Alone, Calm
    <3>4. CleanInv(k)'
      BY <1>1, <1>4, <1>9, <2>0, <2>1, <3>0 DEF KInv, CleanInv, Calm
    <3> QED
      BY <3>1, <3>2, <3>3, <3>4 DEF KInv
  <2>2. CASE a # Apl(k)
    <3>1. /\ Apl(k) \in Tasks /\ at'[Apl(k)] = at[Apl(k)] /\ sess'[Apl(k)] = sess[Apl(k)]
          /\ at[Apl(k)] \in SessPcs => Keeps(sess[Apl(k)])
          /\ ~Alone(k)
      BY <1>1, <1>7, <1>8, <2>2, TaskFacts DEF Alone
    <3>2. at'[Swp(k)] \in Sweeping => at[Swp(k)] \in Sweeping
      BY <1>1, <1>8, <1>9, <2>2, TaskFacts DEF Sweeping
    <3> QED
      BY <1>1, <1>4, <1>7, <2>0, <3>1, <3>2, SideStep
  <2> QED
    BY <2>1, <2>2
<1> HIDE DEF k
<1> QED
  BY <1>1, <1>4, <1>7, <1>10, <1>11, OwnTask DEF k

\* device_manager.open: the pooled session, a fresh one, or none.
LEMMA OpenStep ==
  ASSUME Inv, NEW a \in Tasks, Open(a)
  PROVE  Inv'
<1> DEFINE k == a[1]
           p == IF a[2] = "confirm" THEN "confirm" ELSE "lock"
<1>1. k \in Calls /\ at[a] = "open" /\ at[a] \notin SessPcs /\ up
  BY TaskFacts, UpWhenBusy DEF Open, SessPcs
<1>2. UNCHANGED <<commitLog, op, csState, pre, outcome, up>>
  BY DEF Open, srvVars, recVars
<1>3. KInv(k)
  BY <1>1 DEF Inv
<1>4. CASE Drops(a, WithoutSession(a)) /\ UNCHANGED <<devVars, poolVars>>
  <2>1. UNCHANGED <<devVars, sst, alive>>
    BY <1>4 DEF poolVars
  <2>2. /\ \A b \in Tasks : b # a => at'[b] = at[b] /\ sess'[b] = sess[b]
        /\ DOMAIN at' = Tasks /\ DOMAIN sess' = Tasks
        /\ at'[a] = WithoutSession(a) /\ sess'[a] = sess[a]
    BY <1>1, <1>4 DEF Drops, Inv, Shapes, SessionsInv
  <2>3. Shapes' /\ Others(a) /\ at'[a] \notin SessPcs
    BY <1>2, <2>1, <2>2, Destinations DEF Inv, Shapes, Others
  <2>4. Calm(k) /\ (at[Apl(k)] \in SessPcs => Keeps(sess[Apl(k)]))
    BY <1>1, <2>1, NoSessionStep, TaskFacts
  <2>5. CASE a = Apl(k)
    <3>1. /\ at'[Apl(k)] \in Late /\ at'[Apl(k)] \notin {"commitUnlock", "record"}
          /\ at'[Apl(k)] = "fail" => op[k].state = "Staging"
          /\ at'[Apl(k)] \in PastStaging => op[k].state # "Staging"
          /\ at'[Cfm(k)] = at[Cfm(k)] /\ at'[Swp(k)] = at[Swp(k)]
      BY <1>1, <2>2, <2>5, Destinations, TaskFacts DEF Late, PastStaging
    <3>2. KInv(k)'
      BY <1>1, <1>2, <1>3, <2>4, <2>5, <3>1, LateStep
    <3> QED
      BY <1>1, <1>2, <2>1, <2>2, <2>3, <3>2, QuietTask
  <2>6. CASE a # Apl(k)
    <3>1. /\ at'[Apl(k)] = at[Apl(k)] /\ sess'[Apl(k)] = sess[Apl(k)] /\ ~Alone(k)
          /\ at'[Swp(k)] \in Sweeping => at[Swp(k)] \in Sweeping
      BY <1>1, <2>2, <2>6, TaskFacts DEF Alone, Sweeping
    <3>2. KInv(k)'
      BY <1>1, <1>2, <1>3, <2>4, <3>1, SideStep
    <3> QED
      BY <1>1, <1>2, <2>1, <2>2, <2>3, <3>2, QuietTask
  <2> QED
    BY <2>5, <2>6
<1>5. ASSUME NEW s \in Sessions, OpenSession(s), sess' = [sess EXCEPT ![a] = s],
             at' = [at EXCEPT ![a] = p]
      PROVE  Inv'
  <2>1. /\ sst[s] # "held" /\ sst'[s] = "held" /\ DOMAIN sst' = Sessions /\ DOMAIN alive' = Sessions
        /\ UNCHANGED devVars
        /\ \A t \in Sessions : t # s => sst'[t] = sst[t] /\ alive'[t] = alive[t]
    BY <1>5 DEF OpenSession, CheckoutHit, ConnectFresh, Inv, Shapes
  <2>2. /\ \A b \in Tasks : b # a => at'[b] = at[b] /\ sess'[b] = sess[b]
        /\ DOMAIN at' = Tasks /\ DOMAIN sess' = Tasks
        /\ at'[a] = p /\ sess'[a] = s
    BY <1>5 DEF Inv, Shapes
  <2>3. Shapes' /\ Others(a) /\ Holds(a)
    BY <1>2, <2>1, <2>2 DEF Inv, Shapes, Others, Holds, SessPcs
  <2>4. /\ \A j \in Calls : Calm(j)
        /\ \A b \in Tasks : at[b] \in SessPcs => Keeps(sess[b]) /\ sst'[sess[b]] = "held"
    <3>1. \A b \in Tasks : at[b] \in SessPcs => sess[b] # s /\ sess[b] \in Sessions
      BY <2>1, OwnSession
    <3> QED
      BY <2>1, <3>1, OwnSession DEF Calm, Clean, Permanent, Keeps, devVars
  <2>5. KInv(k)'
    <3>1. CASE a = Apl(k)
      <4>0. /\ at'[Apl(k)] = "lock" /\ at'[Cfm(k)] = at[Cfm(k)] /\ at'[Swp(k)] = at[Swp(k)]
            /\ Calm(k)
        BY <1>1, <2>2, <2>4, <3>1, TaskFacts
      <4>1. LockInv(k)'
        BY <4>0 DEF LockInv
      <4>2. RecordInv(k)'
        BY <4>0 DEF RecordInv, PastStaging
      <4>3. AloneInv(k)'
        BY <1>1, <1>2, <1>3, <3>1, <4>0 DEF KInv, AloneInv, Alone, Calm
      <4>4. CleanInv(k)'
        BY <1>1, <1>2, <1>3, <3>1, <4>0 DEF KInv, CleanInv, Calm
      <4> QED
        BY <4>1, <4>2, <4>3, <4>4 DEF KInv
    <3>2. CASE a # Apl(k)
      <4>1. /\ at'[Apl(k)] = at[Apl(k)] /\ sess'[Apl(k)] = sess[Apl(k)] /\ ~Alone(k)
            /\ at'[Swp(k)] \in Sweeping => at[Swp(k)] \in Sweeping
            /\ at[Apl(k)] \in SessPcs => Keeps(sess[Apl(k)])
        BY <1>1, <2>2, <2>4, <3>2, TaskFacts DEF Alone, Sweeping
      <4> QED
        BY <1>1, <1>2, <1>3, <2>4, <4>1, SideStep
    <3> QED
      BY <3>1, <3>2
  <2> QED
    BY <1>1, <1>2, <2>3, <2>4, <2>5, TaskStep DEF Others, Holds
<1> QED
  BY <1>4, <1>5 DEF Open

\* The reads of the apply under its lock: the fingerprint, the diff and the commit
\* check, and the fingerprint again.
LEMMA ReadSteps ==
  ASSUME Inv, NEW k \in Calls, CheckFingerprint(k) \/ Validate(k) \/ ReadBack(k)
  PROVE  Inv'
<1> DEFINE a == Apl(k)
           s == sess[a]
<1>1. /\ a \in Tasks /\ a[1] = k /\ at[a] \in SessPcs
      /\ at[a] \in {"fingerprint", "validate", "readBack"}
  BY TaskFacts DEF CheckFingerprint, Validate, ReadBack, SessPcs
<1>2. s \in Sessions /\ sst[s] = "held"
  BY <1>1, OwnSession
<1>3. UNCHANGED <<devVars, poolVars, sst, alive, commitLog, csState, up>>
  BY DEF CheckFingerprint, Validate, ReadBack, recVars, srvVars, poolVars, ReadRpc
<1>4. KInv(k)
  BY DEF Inv
<1>5. /\ at'[a] \in {"stage", "unlock", "precommit", "release", "unlockGood", "unlockBad"}
      /\ DOMAIN at' = Tasks /\ sess' = sess /\ \A b \in Tasks : b # a => at'[b] = at[b]
  BY <1>1 DEF CheckFingerprint, Validate, ReadBack, Goes, Abandons, Inv, Shapes
<1>6. /\ op' \in [Calls -> OperationRecord]
      /\ \A j \in Calls : j # k => op'[j] = op[j] /\ pre'[j] = pre[j] /\ outcome'[j] = outcome[j]
      /\ DOMAIN pre' = Calls /\ DOMAIN outcome' = Calls
      /\ op'[k].deadline = op[k].deadline
  BY DEF CheckFingerprint, Validate, ReadBack, SetState, Abandons, Inv, Shapes, OperationRecord,
         LifecycleStates, recVars
<1>7. Shapes' /\ Others(a) /\ Holds(a)
  BY <1>1, <1>2, <1>3, <1>5, <1>6 DEF Inv, Shapes, Others, Holds, SessPcs
<1>8. /\ \A j \in Calls : Calm(j)
      /\ \A b \in Tasks : at[b] \in SessPcs => Keeps(sess[b]) /\ sst'[sess[b]] = "held"
  BY <1>3, NoSessionStep
<1>9. Calm(k) /\ Keeps(s)
  BY <1>1, <1>8
<1>10. at'[Cfm(k)] = at[Cfm(k)] /\ at'[Swp(k)] = at[Swp(k)]
  BY <1>5, TaskFacts
<1>11. KInv(k)'
  <2>1. CASE CheckFingerprint(k)
    <3>1. /\ op' = op /\ at[a] = "fingerprint"
          /\ \/ at'[a] = "stage" /\ pre'[k] = Fingerprint
             \/ at'[a] = "unlock" /\ pre'[k] = pre[k]
      BY <1>1, <2>1 DEF CheckFingerprint, Goes, recVars, Inv, Shapes
    <3>2. LockInv(k)'
      BY <1>3, <1>4, <1>5, <1>9, <3>1 DEF KInv, LockInv, Keeps
    <3>3. RecordInv(k)'
      BY <1>4, <3>1 DEF KInv, RecordInv, PastStaging
    <3>4. AloneInv(k)'
      BY <1>3, <1>4, <1>9, <1>10, <3>1 DEF KInv, AloneInv, Alone, Calm
    <3>5. Clean(k)
      BY <1>4, <3>1 DEF KInv, CleanInv, RecordInv
    <3>6. k \notin pre'[k]
      BY <1>4, <3>1, <3>5 DEF KInv, CleanInv, Clean, Fingerprint
    <3>7. CleanInv(k)'
      BY <1>3, <1>4, <1>9, <1>10, <3>1, <3>5, <3>6 DEF KInv, CleanInv, Calm
    <3> QED
      BY <3>2, <3>3, <3>4, <3>7 DEF KInv
  <2>2. CASE Validate(k)
    <3>1. pre' = pre /\ at[a] = "validate" /\ op[k].state = "Staged"
      BY <1>4, <2>2 DEF Validate, KInv, RecordInv
    <3>2. CASE at'[a] = "precommit" /\ op'[k].state = "Validated"
      <4>2. LockInv(k)'
        BY <1>3, <1>4, <1>5, <1>9, <3>1, <3>2 DEF KInv, LockInv, Keeps
      <4>3. RecordInv(k)'
        BY <3>2 DEF RecordInv, PastStaging
      <4>4. AloneInv(k)'
        BY <1>3, <1>4, <1>6, <1>9, <1>10, <3>1, <3>2 DEF KInv, AloneInv, Alone, Calm
      <4>5. CleanInv(k)'
        BY <1>3, <1>4, <1>9, <1>10, <3>1, <3>2 DEF KInv, CleanInv, Calm
      <4> QED
        BY <4>2, <4>3, <4>4, <4>5 DEF KInv
    <3>3. CASE at'[a] = "release" /\ op' = op
      <4>1. at'[Apl(k)] \in Late /\ at'[Apl(k)] \notin {"commitUnlock", "record", "fail"}
        BY <3>3 DEF Late
      <4> QED
        BY <1>3, <1>4, <1>9, <1>10, <3>1, <3>3, <4>1, LateStep
    <3> QED
      BY <1>1, <2>2, <3>2, <3>3 DEF Validate, Goes, Abandons, SetState, Inv, Shapes, OperationRecord
  <2>3. CASE ReadBack(k)
    <3>1. /\ op' = op /\ pre' = pre /\ outcome' = outcome /\ at[a] = "readBack"
          /\ at'[a] = "unlockBad" \/ (at'[a] = "unlockGood" /\ Reverted(k))
          /\ op[k].state # "Staging"
      BY <1>1, <1>4, <2>3 DEF ReadBack, Goes, recVars, Inv, Shapes, KInv, RecordInv, PastStaging
    <3>2. CASE at'[a] = "unlockBad"
      <4>1. at'[Apl(k)] \in Late /\ at'[Apl(k)] \notin {"commitUnlock", "record", "fail"}
        BY <3>2 DEF Late
      <4> QED
        BY <1>3, <1>4, <1>9, <1>10, <3>1, <3>2, <4>1, LateStep
    <3>3. CASE at'[a] = "unlockGood" /\ Reverted(k)
      <4>1. Clean(k)
        BY <1>4, <3>3 DEF KInv, CleanInv, Clean, Reverted, Fingerprint
      <4>2. LockInv(k)'
        BY <3>3 DEF LockInv
      <4>3. RecordInv(k)'
        BY <3>1, <3>3 DEF RecordInv, PastStaging
      <4>4. AloneInv(k)'
        BY <1>3, <1>4, <1>9, <1>10, <3>1, <3>3 DEF KInv, AloneInv, Alone, Calm
      <4>5. CleanInv(k)'
        BY <1>3, <1>4, <1>9, <1>10, <3>1, <3>3, <4>1 DEF KInv, CleanInv, Calm
      <4> QED
        BY <4>2, <4>3, <4>4, <4>5 DEF KInv
    <3> QED
      BY <3>1, <3>2, <3>3
  <2> QED
    BY <2>1, <2>2, <2>3
<1> HIDE DEF a
<1> QED
  BY <1>1, <1>3, <1>7, <1>8, <1>11, OwnTask

\* stage(): the loads and the diff.
LEMMA StageStep ==
  ASSUME Inv, NEW k \in Calls, Stage(k)
  PROVE  Inv'
<1> DEFINE a == Apl(k)
           s == sess[a]
<1>1. a \in Tasks /\ a[1] = k /\ at[a] \in SessPcs /\ at[a] = "stage"
  BY TaskFacts DEF Stage, SessPcs
<1>2. s \in Sessions /\ sst[s] = "held"
  BY <1>1, OwnSession
<1>3. UNCHANGED <<commitLog, pre, outcome, up, alive>>
  BY DEF Stage, srvVars, TxLoad
<1>4. KInv(k) /\ op[k].state = "Staging"
  BY <1>1 DEF Inv, KInv, RecordInv
<1>5. UNCHANGED devVars \/ DevLoad(s, k)
  BY DEF Stage, TxLoad, Rpc
<1>6. \/ /\ at'[a] = "validate" /\ alive[s] /\ DevLoad(s, k) /\ sess'[a] = sess[a] /\ sst' = sst
         /\ op' = [op EXCEPT ![k].state = "Staged"]
         /\ csState' = [csState EXCEPT ![k] = "Applied"]
      \/ at'[a] = "unstage" /\ sess'[a] = sess[a] /\ sst' = sst /\ op' = op /\ csState' = csState
      \/ /\ at'[a] = "fail" /\ sess'[a] = NoSession /\ sst' = [sst EXCEPT ![s] = "closing"]
         /\ op' = op /\ csState' = csState
  BY <1>1 DEF Stage, TxLoad, Rpc, Goes, Drops, SetState, recVars, Inv, Shapes
<1>7. /\ \A b \in Tasks : b # a => at'[b] = at[b] /\ sess'[b] = sess[b]
      /\ DOMAIN at' = Tasks /\ DOMAIN sess' = Tasks
  BY <1>1 DEF Stage, Goes, Drops, Inv, Shapes
<1>8. Shapes' /\ Others(a) /\ Holds(a)
  <2>1. /\ op' \in [Calls -> OperationRecord] /\ DOMAIN csState' = Calls /\ DOMAIN sst' = Sessions
        /\ \A j \in Calls : j # k => op'[j] = op[j] /\ csState'[j] = csState[j]
    BY <1>6 DEF Inv, Shapes, OperationRecord, LifecycleStates
  <2> QED
    BY <1>1, <1>2, <1>3, <1>6, <1>7, <2>1 DEF Inv, Shapes, Others, Holds, SessPcs
<1>9. /\ \A j \in Calls : j # k => Calm(j)
      /\ \A t \in Sessions : t # s => 
           sst'[t] = sst[t] /\ (lockHolder = t => lockHolder' = t /\ candidate' = candidate)
  <2>1. \A t \in Sessions : t # s => sst'[t] = sst[t]
    BY <1>6 DEF Inv, Shapes
  <2>2. CASE UNCHANGED devVars
    BY <1>2, <2>1, <2>2, DeviceStep
  <2>3. CASE DevLoad(s, k)
    BY <1>2, <2>1, <2>3, LoadStep
  <2> QED
    BY <1>5, <2>2, <2>3
<1>10. \A b \in Tasks : b # a /\ at[b] \in SessPcs => Keeps(sess[b]) /\ sst'[sess[b]] = "held"
  BY <1>1, <1>3, <1>9, OnOwnSession
<1>11. KInv(k)'
  <2>0. at'[Cfm(k)] = at[Cfm(k)] /\ at'[Swp(k)] = at[Swp(k)]
    BY <1>7, TaskFacts
  <2>1. op'[k].deadline = op[k].deadline /\ op'[k].state = (IF at'[a] = "validate" THEN "Staged" ELSE "Staging")
    BY <1>4, <1>6 DEF Inv, Shapes, OperationRecord
  <2>2. commitLog[k] # "plain" /\ csState[k] \notin Fresh /\ Alone(k) /\ csState'[k] \notin Fresh
    <3>1. Alone(k) /\ csState[k] \notin Fresh
      BY <1>4 DEF KInv, AloneInv
    <3>2. csState'[k] \notin Fresh
      BY <1>6, <3>1 DEF Fresh, Inv, Shapes
    <3> QED
      BY <3>1, <3>2 DEF Alone
  <2>3. LockInv(k)'
    <3>1. at'[a] = "validate" => lockHolder' = s /\ candidate' = {k} /\ sess'[a] = s
      BY <1>1, <1>2, <1>4, <1>6 DEF KInv, LockInv, DevLoad
    <3> QED
      BY <1>6, <3>1 DEF LockInv
  <2>4. RecordInv(k)'
    BY <1>6, <2>1 DEF RecordInv, PastStaging
  <2>5. AloneInv(k)'
    BY <1>3, <1>6, <2>0, <2>1, <2>2 DEF AloneInv, Alone
  <2>6. CleanInv(k)'
    BY <1>3, <1>4, <1>6, <2>0, <2>1, <2>2 DEF KInv, CleanInv, Alone
  <2> QED
    BY <2>3, <2>4, <2>5, <2>6 DEF KInv
<1> HIDE DEF a
<1> QED
  BY <1>1, <1>3, <1>8, <1>9, <1>10, <1>11, OwnTask

\* The sessions that are closed, or dropped, on the way out.
LEMMA CloseSteps ==
  ASSUME Inv, NEW k \in Calls, Unstage(k) \/ Release(k)
  PROVE  Inv'
<1> DEFINE a == Apl(k)
           s == sess[a]
<1>1. a \in Tasks /\ a[1] = k /\ at[a] \in SessPcs /\ at[a] \in {"unstage", "release"}
  BY TaskFacts DEF Unstage, Release, SessPcs
<1>2. s \in Sessions /\ sst[s] = "held"
  BY <1>1, OwnSession
<1>3. UNCHANGED <<commitLog, op, csState, pre, outcome, up, alive>>
  BY DEF Unstage, Release, srvVars, recVars, TxUnstage, TxRelease, Shut
<1>4. KInv(k)
  BY DEF Inv
<1>5. UNCHANGED devVars \/ DevRevert(s)
  BY DEF Unstage, Release, TxUnstage, TxRelease, Shut, CloseEffect
<1>6. DOMAIN sst' = Sessions /\ \A t \in Sessions : t # s => sst'[t] = sst[t]
  BY DEF Unstage, Release, TxUnstage, TxRelease, Shut, Inv, Shapes
<1>7. /\ \A j \in Calls : Calm(j)
      /\ \A b \in Tasks : b # a /\ at[b] \in SessPcs => Keeps(sess[b]) /\ sst'[sess[b]] = "held"
  BY <1>1, <1>3, <1>5, <1>6, OwnRpc
<1>8. /\ \A b \in Tasks : b # a => at'[b] = at[b] /\ sess'[b] = sess[b]
      /\ DOMAIN at' = Tasks /\ DOMAIN sess' = Tasks /\ sess'[a] = NoSession
      /\ at[a] = "unstage" => at'[a] = "fail"
      /\ at[a] = "release" => at'[a] \in {"readRecord", "settleSet"}
  BY <1>1 DEF Unstage, Release, Drops, Inv, Shapes
<1>9. Shapes' /\ Others(a) /\ Holds(a)
  BY <1>1, <1>3, <1>6, <1>8 DEF Inv, Shapes, Others, Holds, SessPcs
<1>10. KInv(k)'
  <2>1. at'[Cfm(k)] = at[Cfm(k)] /\ at'[Swp(k)] = at[Swp(k)] /\ Calm(k) /\ at[Apl(k)] # "idle"
    BY <1>1, <1>7, <1>8, TaskFacts
  <2>2. /\ at'[Apl(k)] \in Late /\ at'[Apl(k)] \notin {"commitUnlock", "record"}
        /\ at'[Apl(k)] = "fail" => op'[k].state = "Staging"
        /\ at'[Apl(k)] \in PastStaging => op'[k].state # "Staging"
    BY <1>1, <1>3, <1>4, <1>8 DEF Late, KInv, RecordInv, PastStaging
  <2> QED
    BY <1>3, <1>4, <2>1, <2>2, LateStep
<1> HIDE DEF a
<1> QED
  BY <1>1, <1>3, <1>7, <1>9, <1>10, OwnTask

\* commit(), plain or confirmed.
LEMMA CommitStep ==
  ASSUME Inv, NEW k \in Calls, Commit(k)
  PROVE  Inv'
<1> DEFINE a == Apl(k)
           s == sess[a]
<1>1. a \in Tasks /\ a[1] = k /\ at[a] \in SessPcs /\ at[a] = "commit"
  BY TaskFacts DEF Commit, SessPcs
<1>2. s \in Sessions /\ sst[s] = "held"
  BY <1>1, OwnSession
<1>3. PICK confirmed \in BOOLEAN, reply \in Replies \ {"dropped"} :
        /\ TxCommit(s, k, confirmed, reply)
        /\ outcome' = [outcome EXCEPT ![k] = CommitOutcome(confirmed, reply)]
        /\ Goes(a, CASE reply = "ok" /\ ~confirmed -> "commitUnlock"
                     [] reply = "refused" /\ confirmed -> "release"
                     [] OTHER -> "record")
  BY DEF Commit
<1>4. UNCHANGED <<op, csState, pre, up, sst, alive>>
  BY <1>3 DEF Commit, srvVars, recVars, TxCommit
<1>5. KInv(k) /\ Alone(k) /\ op[k].state = "Committing" /\ csState[k] \notin Fresh
  BY <1>1 DEF Inv, KInv, AloneInv, RecordInv
<1>6. /\ DOMAIN commitLog' = Calls /\ \A j \in Calls : j # k => commitLog'[j] = commitLog[j]
      /\ \/ UNCHANGED <<devVars, commitLog>>
         \/ alive[s] /\ DevCommit(s) /\ commitLog'[k] = "plain"
         \/ alive[s] /\ DevOpenWindow(s, TheDevice) /\ commitLog'[k] = "confirmed"
  <2>1. PICK done \in BOOLEAN :
          /\ done => alive[s]
          /\ IF done
             THEN /\ IF confirmed THEN DevCommitNative(s) ELSE DevCommit(s)
                  /\ commitLog' = [commitLog EXCEPT ![k] = IF confirmed THEN "confirmed" ELSE "plain"]
             ELSE UNCHANGED <<devVars, commitLog>>
    BY <1>3 DEF TxCommit, MayHappen
  <2>2. CASE done
    BY <2>1, <2>2 DEF DevCommitNative, Inv, Shapes
  <2>3. CASE ~done
    BY <2>1, <2>3 DEF Inv, Shapes
  <2> QED
    BY <2>2, <2>3
<1>7. /\ \A j \in Calls : Calm(j)
      /\ \A b \in Tasks : b # a /\ at[b] \in SessPcs => Keeps(sess[b]) /\ sst'[sess[b]] = "held"
  BY <1>1, <1>4, <1>6, OwnRpc
<1>8. /\ \A b \in Tasks : b # a => at'[b] = at[b]
      /\ DOMAIN at' = Tasks /\ sess' = sess
      /\ at'[a] \in {"commitUnlock", "release", "record"}
  BY <1>1, <1>3 DEF Goes, Inv, Shapes
<1>9. /\ DOMAIN outcome' = Calls /\ \A j \in Calls : j # k => outcome'[j] = outcome[j]
      /\ outcome'[k] \in {"committed", "awaiting", "notCommitted", "unknown"}
  BY <1>3 DEF CommitOutcome, Inv, Shapes
<1>10. Shapes' /\ Others(a) /\ Holds(a)
  BY <1>1, <1>2, <1>4, <1>6, <1>8, <1>9 DEF Inv, Shapes, Others, Holds, SessPcs
<1>11. KInv(k)'
  <2>1. at'[Cfm(k)] = at[Cfm(k)] /\ at'[Swp(k)] \in {"idle", "snapshot"} /\ commitLog[k] = "none"
    BY <1>5, <1>8, TaskFacts DEF Alone
  <2>2. LockInv(k)'
    BY <1>8 DEF LockInv
  <2>3. RecordInv(k)'
    BY <1>4, <1>5, <1>8, <1>9 DEF RecordInv, PastStaging
  <2>4. AloneInv(k)'
    BY <1>4, <1>5, <1>8 DEF AloneInv
  <2>5. commitLog'[k] = "plain" => Permanent(k)'
    <3>1. alive[s] => candidate = {k}
      BY <1>1, <1>5 DEF KInv, LockInv
    <3> QED
      BY <1>6, <2>1, <3>1 DEF DevCommit, Permanent
  <2>6. CleanInv(k)'
    BY <1>4, <1>5, <1>8, <2>1, <2>5 DEF KInv, CleanInv
  <2> QED
    BY <2>2, <2>3, <2>4, <2>6 DEF KInv
<1> HIDE DEF a
<1> QED
  BY <1>1, <1>4, <1>7, <1>10, <1>11, OwnTask

\* What commit_operation records of an outcome it knows.
LEMMA RecordedFacts ==
  ASSUME NEW r \in OperationRecord, NEW known \in {"committed", "awaiting", "notCommitted", "unknown"}
  PROVE  /\ Recorded(r, known) \in OperationRecord
         /\ \/ Recorded(r, known).state \in {"Committed", "Failed", "Indeterminate"}
            \/ Recorded(r, known).state = r.state /\ known = "awaiting"
<1>1. CASE known = "committed"
  <2>1. Recorded(r, known) = [r EXCEPT !.state = "Committed", !.lock = FALSE]
    BY <1>1 DEF Recorded
  <2> QED
    BY <1>1, <2>1 DEF OperationRecord, LifecycleStates, Terminal
<1>2. CASE known = "awaiting"
  <2>1. Recorded(r, known) = [r EXCEPT !.deadline = "open"]
    BY <1>2 DEF Recorded
  <2> QED
    BY <1>2, <2>1 DEF OperationRecord, LifecycleStates, Terminal
<1>3. CASE known = "notCommitted"
  <2>1. Recorded(r, known) = [r EXCEPT !.state = "Failed"]
    BY <1>3 DEF Recorded
  <2> QED
    BY <1>3, <2>1 DEF OperationRecord, LifecycleStates, Terminal
<1>4. CASE known = "unknown"
  <2>1. Recorded(r, known) = [r EXCEPT !.state = "Indeterminate"]
    BY <1>4 DEF Recorded
  <2> QED
    BY <1>4, <2>1 DEF OperationRecord, LifecycleStates, Terminal
<1> QED
  BY <1>1, <1>2, <1>3, <1>4

\* The lock release of a plain commit, and the write of the outcome.
LEMMA OutcomeSteps ==
  ASSUME Inv, NEW k \in Calls, CommitUnlock(k) \/ RecordOutcome(k)
  PROVE  Inv'
<1> DEFINE a == Apl(k)
           s == sess[a]
<1>1. a \in Tasks /\ a[1] = k /\ at[a] \in SessPcs /\ at[a] \in {"commitUnlock", "record"}
  BY TaskFacts DEF CommitUnlock, RecordOutcome, SessPcs
<1>2. s \in Sessions /\ sst[s] = "held"
  BY <1>1, OwnSession
<1>3. UNCHANGED <<commitLog, csState, pre, up, alive>>
  BY DEF CommitUnlock, RecordOutcome, recVars, srvVars, TxCommitUnlock
<1>4. KInv(k) /\ op[k].state \notin {"Staging", "Staged", "Validated"}
  BY <1>1 DEF Inv, KInv, RecordInv, PastStaging
<1>5. UNCHANGED devVars \/ DevUnlock(s)
  BY DEF CommitUnlock, RecordOutcome, TxCommitUnlock, Rpc
<1>6. \/ /\ at'[a] = "record" /\ sess'[a] = s /\ sst' = sst /\ op' = op
         /\ outcome'[k] \in {"committed", "unknown"}
      \/ /\ at'[a] = "idle" /\ sess'[a] = NoSession /\ sst' = [sst EXCEPT ![s] = DropTo(s, TRUE)]
         /\ op' = [op EXCEPT ![k] = Recorded(op[k], outcome[k])]
         /\ outcome[k] \in {"committed", "awaiting", "notCommitted", "unknown"}
      \/ /\ at'[a] = "release" /\ sess'[a] = s /\ sst' = sst
         /\ op' = op \/ /\ op' = [op EXCEPT ![k] = Recorded(op[k], outcome[k])]
                        /\ outcome[k] \in {"committed", "awaiting", "notCommitted", "unknown"}
  <2>1. CASE CommitUnlock(k)
    BY <1>1, <2>1 DEF CommitUnlock, TxCommitUnlock, Goes, recVars, Inv, Shapes
  <2>2. CASE RecordOutcome(k)
    <3>1. outcome[k] \in {"committed", "awaiting", "notCommitted", "unknown"}
      BY <1>4, <2>2 DEF RecordOutcome, KInv, RecordInv
    <3> QED
      BY <1>1, <2>2, <3>1 DEF RecordOutcome, Goes, Drops, Abandons, Inv, Shapes
  <2> QED
    BY <2>1, <2>2
<1>7. /\ \A b \in Tasks : b # a => at'[b] = at[b] /\ sess'[b] = sess[b]
      /\ DOMAIN at' = Tasks /\ DOMAIN sess' = Tasks
      /\ DOMAIN outcome' = Calls /\ \A j \in Calls : j # k => outcome'[j] = outcome[j]
  BY <1>1 DEF CommitUnlock, RecordOutcome, Goes, Drops, Abandons, Inv, Shapes
<1>8. /\ op' \in [Calls -> OperationRecord] /\ \A j \in Calls : j # k => op'[j] = op[j]
      /\ op'[k] = op[k] \/ op'[k].state \notin {"Staging", "Staged", "Validated", "Discarded"}
           \/ op'[k].state = op[k].state
  <2>1. op[k] \in OperationRecord /\ op \in [Calls -> OperationRecord]
    BY DEF Inv, Shapes
  <2>2. CASE op' = op
    BY <2>1, <2>2
  <2>3. CASE /\ op' = [op EXCEPT ![k] = Recorded(op[k], outcome[k])]
             /\ outcome[k] \in {"committed", "awaiting", "notCommitted", "unknown"}
    <3>1. /\ Recorded(op[k], outcome[k]) \in OperationRecord
          /\ \/ Recorded(op[k], outcome[k]).state \in {"Committed", "Failed", "Indeterminate"}
             \/ Recorded(op[k], outcome[k]).state = op[k].state
      BY <2>1, <2>3, RecordedFacts
    <3> QED
      BY <2>1, <2>3, <3>1
  <2> QED
    BY <1>6, <2>2, <2>3
<1>9. DOMAIN sst' = Sessions /\ \A t \in Sessions : t # s => sst'[t] = sst[t]
  BY <1>6 DEF Inv, Shapes
<1>10. /\ \A j \in Calls : Calm(j)
       /\ \A b \in Tasks : b # a /\ at[b] \in SessPcs => Keeps(sess[b]) /\ sst'[sess[b]] = "held"
  BY <1>1, <1>3, <1>5, <1>9, OwnRpc
<1>11. Shapes' /\ Others(a) /\ Holds(a)
  BY <1>1, <1>2, <1>3, <1>6, <1>7, <1>8, <1>9 DEF Inv, Shapes, Others, Holds, SessPcs
<1>12. KInv(k)'
  <2>1. at'[Cfm(k)] = at[Cfm(k)] /\ at'[Swp(k)] = at[Swp(k)] /\ Calm(k) /\ at[Apl(k)] # "idle"
    BY <1>1, <1>7, <1>10, TaskFacts
  <2>2. /\ at'[Apl(k)] \in {"idle", "record", "release"}
        /\ at'[Apl(k)] = "record" => outcome'[k] \in {"committed", "unknown"}
        /\ op'[k].state \notin {"Staging", "Staged", "Validated"}
    BY <1>4, <1>6, <1>8
  <2>3. /\ op'[k].state = "Discarded" => op[k].state = "Discarded"
    BY <1>8
  <2>4. LockInv(k)'
    BY <2>2 DEF LockInv
  <2>5. RecordInv(k)'
    BY <2>2 DEF RecordInv
  <2>6. AloneInv(k)'
    BY <1>3, <1>4, <2>1, <2>2 DEF KInv, AloneInv
  <2>7. CleanInv(k)'
    BY <1>3, <1>4, <2>1, <2>2, <2>3 DEF KInv, CleanInv, Calm
  <2> QED
    BY <2>4, <2>5, <2>6, <2>7 DEF KInv
<1> HIDE DEF a
<1> QED
  BY <1>1, <1>3, <1>10, <1>11, <1>12, OwnTask

\* confirm_commit() and its close.
LEMMA ConfirmSteps ==
  ASSUME Inv, NEW k \in Calls, ConfirmCommit(k) \/ ConfirmClose(k)
  PROVE  Inv'
<1> DEFINE a == Cfm(k)
           s == sess[a]
<1>1. a \in Tasks /\ a[1] = k /\ at[a] \in SessPcs /\ at[a] # "idle"
  BY TaskFacts DEF ConfirmCommit, ConfirmClose, SessPcs
<1>2. s \in Sessions /\ sst[s] = "held"
  BY <1>1, OwnSession
<1>3. UNCHANGED <<commitLog, op, csState, pre, outcome, up, alive>>
  BY DEF ConfirmCommit, ConfirmClose, recVars, srvVars, poolVars, TxConfirmCommit, TxConfirmClose, Shut
<1>4. UNCHANGED devVars \/ DevRevert(s) \/ DevCommit(s)
  BY DEF ConfirmCommit, ConfirmClose, TxConfirmCommit, Rpc, TxConfirmClose, Shut, CloseEffect
<1>5. /\ DOMAIN sst' = Sessions /\ \A t \in Sessions : t # s => sst'[t] = sst[t]
      /\ at'[a] \in {"closeGood", "closeBad"} => sst'[s] = "held" /\ sess'[a] = s
      /\ \/ at'[a] \in {"closeGood", "closeBad"}
         \/ at'[a] \in {"confirmWrite", "idle"} /\ sess'[a] = NoSession
  <2>1. CASE ConfirmCommit(k)
    BY <1>1, <1>2, <2>1 DEF ConfirmCommit, TxConfirmCommit, poolVars, Goes, Inv, Shapes
  <2>2. CASE ConfirmClose(k)
    BY <1>1, <2>2 DEF ConfirmClose, TxConfirmClose, Shut, Drops, Inv, Shapes
  <2> QED
    BY <2>1, <2>2
<1>6. /\ \A j \in Calls : Calm(j)
      /\ \A b \in Tasks : b # a /\ at[b] \in SessPcs => Keeps(sess[b]) /\ sst'[sess[b]] = "held"
  BY <1>1, <1>3, <1>4, <1>5, OwnRpc
<1>7. /\ \A b \in Tasks : b # a => at'[b] = at[b] /\ sess'[b] = sess[b]
      /\ DOMAIN at' = Tasks /\ DOMAIN sess' = Tasks
  BY <1>1 DEF ConfirmCommit, ConfirmClose, Goes, Drops, Inv, Shapes
<1>8. Shapes' /\ Others(a) /\ Holds(a)
  BY <1>1, <1>2, <1>3, <1>5, <1>7 DEF Inv, Shapes, Others, Holds, SessPcs
<1>9. KInv(k)'
  <2>1. /\ at'[Apl(k)] = at[Apl(k)] /\ sess'[Apl(k)] = sess[Apl(k)] /\ ~Alone(k)
        /\ at'[Swp(k)] = at[Swp(k)]
        /\ at[Apl(k)] \in SessPcs => Keeps(sess[Apl(k)])
    BY <1>1, <1>6, <1>7, TaskFacts DEF Alone
  <2>2. KInv(k)
    BY DEF Inv
  <2> QED
    BY <1>3, <1>6, <2>1, <2>2, SideStep
<1> HIDE DEF a
<1> QED
  BY <1>1, <1>3, <1>6, <1>8, <1>9, OwnTask

\* Committing is persisted just before the RPC, or the apply is abandoned.
LEMMA PersistStep ==
  ASSUME Inv, NEW k \in Calls, PersistCommitting(k)
  PROVE  Inv'
<1> DEFINE a == Apl(k)
           s == sess[a]
<1>1. a \in Tasks /\ a[1] = k /\ at[a] \in SessPcs /\ at[a] = "precommit"
  BY TaskFacts DEF PersistCommitting, SessPcs
<1>2. s \in Sessions /\ sst[s] = "held"
  BY <1>1, OwnSession
<1>3. UNCHANGED <<devVars, sst, alive, commitLog, csState, pre, up>>
  BY DEF PersistCommitting, poolVars, srvVars
<1>4. KInv(k) /\ op[k].state = "Validated" /\ csState[k] \notin Fresh /\ Alone(k)
  BY <1>1 DEF Inv, KInv, RecordInv, AloneInv
<1>5. /\ DOMAIN at' = Tasks /\ sess' = sess /\ \A b \in Tasks : b # a => at'[b] = at[b]
      /\ DOMAIN outcome' = Calls /\ \A j \in Calls : j # k => outcome'[j] = outcome[j]
  BY <1>1 DEF PersistCommitting, Goes, Abandons, Inv, Shapes
<1>6. /\ op' \in [Calls -> OperationRecord] /\ \A j \in Calls : j # k => op'[j] = op[j]
      /\ op'[k].deadline = op[k].deadline
      /\ \/ at'[a] = "commit" /\ op'[k].state = "Committing"
         \/ at'[a] = "release" /\ op' = op
  BY <1>1 DEF PersistCommitting, Goes, Abandons, Inv, Shapes, OperationRecord, LifecycleStates
<1>7. Shapes' /\ Others(a) /\ Holds(a)
  BY <1>1, <1>2, <1>3, <1>5, <1>6 DEF Inv, Shapes, Others, Holds, SessPcs
<1>8. /\ \A j \in Calls : Calm(j)
      /\ \A b \in Tasks : at[b] \in SessPcs => Keeps(sess[b]) /\ sst'[sess[b]] = "held"
  BY <1>3, NoSessionStep
<1>9. KInv(k)'
  <2>1. at'[Cfm(k)] = at[Cfm(k)] /\ at'[Swp(k)] = at[Swp(k)] /\ Calm(k) /\ Keeps(s)
    BY <1>1, <1>5, <1>8, TaskFacts
  <2>2. LockInv(k)'
    BY <1>1, <1>3, <1>4, <1>5, <1>6, <2>1 DEF KInv, LockInv, Keeps
  <2>3. RecordInv(k)'
    BY <1>4, <1>6 DEF RecordInv, PastStaging
  <2>4. AloneInv(k)'
    BY <1>3, <1>4, <1>6, <2>1 DEF AloneInv, Alone
  <2>5. CleanInv(k)'
    BY <1>3, <1>4, <1>6, <2>1 DEF KInv, CleanInv, Calm
  <2> QED
    BY <2>2, <2>3, <2>4, <2>5 DEF KInv
<1> HIDE DEF a
<1> QED
  BY <1>1, <1>3, <1>7, <1>8, <1>9, OwnTask

\* The ends of an apply and the steps of its cleanup that need no session.
LEMMA CleanupSteps ==
  ASSUME Inv, NEW k \in Calls,
         \/ StageFailed(k) \/ ReadRecord(k) \/ MarkUnknown(k)
         \/ SettleDiscarded(k) \/ SettleChangeSet(k)
  PROVE  Inv'
<1> DEFINE a == Apl(k)
<1>1. /\ a \in Tasks /\ a[1] = k /\ at[a] \notin SessPcs /\ at[a] # "idle" /\ up
      /\ at[a] \in {"fail", "readRecord", "markUnknown", "settleOp", "settleSet"}
  <2>1. a \in Tasks /\ a[1] = k /\ at[a] \in {"fail", "readRecord", "markUnknown", "settleOp", "settleSet"}
    BY TaskFacts DEF StageFailed, ReadRecord, MarkUnknown, SettleDiscarded, SettleChangeSet
  <2> QED
    BY <2>1, UpWhenBusy DEF SessPcs
<1>2. UNCHANGED <<devVars, sst, alive, commitLog, pre, up>>
  BY DEF StageFailed, ReadRecord, MarkUnknown, SettleDiscarded, SettleChangeSet, poolVars, srvVars
<1>3. KInv(k)
  BY DEF Inv
<1>4. /\ DOMAIN at' = Tasks /\ sess' = sess /\ \A b \in Tasks : b # a => at'[b] = at[b]
      /\ DOMAIN outcome' = Calls /\ \A j \in Calls : j # k => outcome'[j] = outcome[j]
      /\ DOMAIN csState' = Calls /\ \A j \in Calls : j # k => csState'[j] = csState[j]
      /\ csState'[k] = csState[k] \/ csState'[k] = "Failed"
  BY <1>1 DEF StageFailed, ReadRecord, MarkUnknown, SettleDiscarded, SettleChangeSet, Goes,
              Persists, recVars, Inv, Shapes
<1>5. /\ op' \in [Calls -> OperationRecord] /\ \A j \in Calls : j # k => op'[j] = op[j]
      /\ \/ at[a] = "fail" /\ at'[a] = "idle" /\ op'[k].state \in {"none", "Failed"}
         \/ at[a] = "readRecord" /\ at'[a] \in {"markUnknown", "open", "settleSet"} /\ op' = op
         \/ at[a] = "markUnknown" /\ at'[a] = "settleSet" /\ (op' = op \/ op'[k].state = "Indeterminate")
         \/ at[a] = "settleOp" /\ at'[a] = "settleSet" /\ (op' = op \/ op'[k].state = "Discarded")
         \/ at[a] = "settleSet" /\ at'[a] = "idle" /\ op' = op
  <2>1. CASE StageFailed(k)
    <3>1. NoOp \in OperationRecord /\ NoOp.state = "none"
      BY DEF NoOp, OperationRecord, LifecycleStates
    <3>2. op \in [Calls -> OperationRecord] /\ DOMAIN at = Tasks
      BY DEF Inv, Shapes
    <3>3. at[a] = "fail" /\ at'[a] = "idle"
      BY <1>1, <2>1, <3>2 DEF StageFailed, Goes
    <3>4. CASE op' = [op EXCEPT ![k] = NoOp]
      BY <3>1, <3>2, <3>3, <3>4
    <3>5. CASE op' = [op EXCEPT ![k].state = "Failed"]
      BY <3>2, <3>3, <3>5 DEF OperationRecord, LifecycleStates
    <3> QED
      BY <2>1, <3>4, <3>5 DEF StageFailed
  <2>2. CASE ReadRecord(k)
    BY <1>1, <2>2 DEF ReadRecord, Goes, recVars, Inv, Shapes
  <2>3. CASE MarkUnknown(k)
    BY <1>1, <2>3 DEF MarkUnknown, Goes, Persists, Inv, Shapes, OperationRecord, LifecycleStates
  <2>4. CASE SettleDiscarded(k)
    BY <1>1, <2>4 DEF SettleDiscarded, Goes, Persists, Inv, Shapes, OperationRecord, LifecycleStates,
                      Terminal
  <2>5. CASE SettleChangeSet(k)
    BY <1>1, <2>5 DEF SettleChangeSet, Goes, Inv, Shapes
  <2> QED
    BY <2>1, <2>2, <2>3, <2>4, <2>5
<1>6. Shapes' /\ Others(a) /\ at'[a] \notin SessPcs
  BY <1>1, <1>2, <1>4, <1>5 DEF Inv, Shapes, Others, SessPcs
<1>7. KInv(k)'
  <2>1. at'[Cfm(k)] = at[Cfm(k)] /\ at'[Swp(k)] = at[Swp(k)] /\ Calm(k)
    BY <1>2, <1>4, TaskFacts, NoSessionStep
  <2>2. csState'[k] \notin Fresh /\ csState[k] \notin Fresh
    BY <1>1, <1>3, <1>4 DEF KInv, AloneInv, Fresh
  <2>3. LockInv(k)'
    BY <1>5 DEF LockInv
  <2>4. RecordInv(k)'
    BY <1>3, <1>5 DEF KInv, RecordInv, PastStaging
  <2>5. op'[k] = op[k] \/ op'[k].state \in {"none", "Failed", "Indeterminate", "Discarded"}
    BY <1>5
  <2>6. AloneInv(k)'
    BY <1>2, <1>3, <1>5, <2>1, <2>2, <2>5 DEF KInv, AloneInv, Alone
  <2>7. CleanInv(k)'
    <3>1. at[a] \in {"readRecord"} => op[k].state # "Staging"
      BY <1>3 DEF KInv, RecordInv, PastStaging
    <3>2. at'[a] = "idle" \/ at'[a] \in {"markUnknown", "open", "settleSet"}
      BY <1>5
    <3>3. op'[k].state = "Discarded" => Clean(k)
      BY <1>3, <1>5 DEF KInv, CleanInv
    <3>4. at'[a] = "open" => op'[k].state # "Staging"
      BY <1>5, <3>1
    <3> QED
      BY <1>2, <1>3, <2>1, <3>2, <3>3, <3>4 DEF KInv, CleanInv, Calm
  <2> QED
    BY <2>3, <2>4, <2>6, <2>7 DEF KInv
<1> HIDE DEF a
<1> QED
  BY <1>1, <1>2, <1>4, <1>6, <1>7, QuietTask

\* create, approve and cancel.
LEMMA SetsStep ==
  ASSUME Inv, NEW k \in Calls, CreateChangeSet(k) \/ ApproveChangeSet(k) \/ CancelChangeSet(k)
  PROVE  Inv'
<1> DEFINE a == Apl(k)
<1>1. PICK to \in {"Planned", "Approved", "Cancelled"} : Sets(k, {"none", "Planned", "Approved"}, to)
  BY DEF CreateChangeSet, ApproveChangeSet, CancelChangeSet, Sets
<1>2. /\ up /\ up' = up /\ UNCHANGED <<devVars, sst, alive, commitLog, op, pre, outcome, at, sess>>
      /\ csState[k] \in Fresh /\ csState'[k] \in Fresh
      /\ DOMAIN csState' = Calls /\ \A j \in Calls : j # k => csState'[j] = csState[j]
  BY <1>1 DEF Sets, poolVars, srvVars, taskVars, Fresh, Inv, Shapes
<1>3. KInv(k)
  BY DEF Inv
<1>4. a \in Tasks /\ a[1] = k /\ at[a] = "idle" /\ at[a] \notin SessPcs
  BY <1>2, <1>3, TaskFacts DEF KInv, AloneInv, SessPcs
<1>5. Shapes' /\ Others(a)
  BY <1>2, <1>4 DEF Inv, Shapes, Others
<1>6. KInv(k)'
  <2>1. Clean(k)' = Clean(k) /\ Alone(k)' = Alone(k) /\ Permanent(k)' = Permanent(k)
    BY <1>2 DEF Clean, Alone, Permanent, devVars
  <2>2. LockInv(k)'
    BY <1>2, <1>4 DEF LockInv
  <2>3. RecordInv(k)'
    BY <1>2, <1>3 DEF KInv, RecordInv
  <2>4. AloneInv(k)'
    BY <1>2, <1>3, <2>1 DEF KInv, AloneInv
  <2>5. CleanInv(k)'
    BY <1>2, <1>3, <2>1 DEF KInv, CleanInv
  <2> QED
    BY <2>2, <2>3, <2>4, <2>5 DEF KInv
<1> HIDE DEF a
<1> QED
  BY <1>2, <1>4, <1>5, <1>6, QuietTask

\* apply_change_set claims the device.
LEMMA ApplyStep ==
  ASSUME Inv, NEW k \in Calls, ApplyChangeSet(k)
  PROVE  Inv'
<1> DEFINE a == Apl(k)
           new == [NoOp EXCEPT !.state = "Staging"]
<1>1. /\ up /\ up' = up /\ UNCHANGED <<devVars, sst, alive, commitLog, pre, outcome, sess>>
      /\ csState[k] \in Fresh /\ csState'[k] = "Applying"
      /\ DOMAIN csState' = Calls /\ \A j \in Calls : j # k => csState'[j] = csState[j]
  BY DEF ApplyChangeSet, Goes, poolVars, srvVars, Fresh, Inv, Shapes
<1>2. KInv(k)
  BY DEF Inv
<1>3. a \in Tasks /\ a[1] = k /\ at[a] = "idle" /\ at[a] \notin SessPcs /\ Clean(k) /\ Alone(k)
  BY <1>1, <1>2, TaskFacts DEF KInv, AloneInv, SessPcs
<1>4. at'[a] = "open" /\ DOMAIN at' = Tasks /\ \A b \in Tasks : b # a => at'[b] = at[b]
  BY <1>3 DEF ApplyChangeSet, Goes, Inv, Shapes
<1>5. new \in OperationRecord /\ new.state = "Staging" /\ new.deadline = "none"
  BY DEF NoOp, OperationRecord, LifecycleStates
<1>6. op' = [op EXCEPT ![k] = new]
  BY DEF ApplyChangeSet
<1>7. /\ op' \in [Calls -> OperationRecord] /\ \A j \in Calls : j # k => op'[j] = op[j]
      /\ op'[k].state = "Staging" /\ op'[k].deadline = "none"
  <2> HIDE DEF new
  <2>1. op \in [Calls -> OperationRecord]
    BY DEF Inv, Shapes
  <2> QED
    BY <1>5, <1>6, <2>1
<1>8. Shapes' /\ Others(a) /\ at'[a] \notin SessPcs
  BY <1>1, <1>3, <1>4, <1>7 DEF Inv, Shapes, Others, SessPcs
<1>9. KInv(k)'
  <2>1. Clean(k)' /\ Alone(k)'
    BY <1>1, <1>3, <1>4, <1>7, TaskFacts DEF Clean, Alone, devVars
  <2>2. LockInv(k)'
    BY <1>4 DEF LockInv
  <2>3. RecordInv(k)'
    BY <1>4 DEF RecordInv, PastStaging
  <2>4. AloneInv(k)'
    BY <1>1, <2>1 DEF AloneInv, Fresh
  <2>5. CleanInv(k)'
    BY <1>1, <1>2, <1>4, <1>7, <2>1 DEF KInv, CleanInv, Alone
  <2> QED
    BY <2>2, <2>3, <2>4, <2>5 DEF KInv
<1> HIDE DEF a
<1> QED
  BY <1>1, <1>3, <1>4, <1>8, <1>9, QuietTask

\* A step of the confirm or of the sweep that needs no session.
LEMMA SideSteps ==
  ASSUME Inv, NEW k \in Calls,
         \/ ConfirmChangeSet(k) \/ ConfirmRecord(k)
         \/ Reprobe(k) \/ Reread(k) \/ SweepWrite(k)
  PROVE  Inv'
<1>1. PICK a \in {Cfm(k), Swp(k)} :
        /\ at[a] \in {"idle", "confirmWrite", "reprobe", "reread", "sweepFree", "sweepWrite"}
        /\ at[a] = "idle" => op[k].deadline = "open"
        /\ a = Cfm(k) \/ at[a] # "idle"
        /\ \E p \in {"open", "idle", "reread"} : Goes(a, p)
        /\ at'[a] \in {"open", "idle", "reread"}
        /\ a = Swp(k) /\ at'[a] \in {"open", "reread"} => at[a] = "reread" \/ commitLog[k] = "plain"
        /\ up
  <2>0. Cfm(k) \in Tasks /\ Swp(k) \in Tasks /\ DOMAIN at = Tasks /\ Cfm(k) # Swp(k)
    BY TaskFacts DEF Inv, Shapes
  <2>1. CASE ConfirmChangeSet(k)
    BY <2>0, <2>1 DEF ConfirmChangeSet, Goes
  <2>2. CASE ConfirmRecord(k)
    BY <2>0, <2>2, UpWhenBusy DEF ConfirmRecord, Goes
  <2>3. CASE Reprobe(k)
    BY <2>0, <2>3, UpWhenBusy DEF Reprobe, Goes, Settles
  <2>4. CASE Reread(k)
    BY <2>0, <2>4, UpWhenBusy DEF Reread, Goes
  <2>5. CASE SweepWrite(k)
    BY <2>0, <2>5, UpWhenBusy DEF SweepWrite, Goes
  <2> QED
    BY <2>1, <2>2, <2>3, <2>4, <2>5
<1>2. a \in Tasks /\ a[1] = k /\ at[a] \notin SessPcs /\ at'[a] \notin SessPcs /\ a # Apl(k)
  BY <1>1, TaskFacts DEF SessPcs
<1>3. /\ up' = up /\ UNCHANGED <<devVars, sst, alive, commitLog, csState, pre, outcome>>
      /\ sess' = sess /\ DOMAIN at' = Tasks /\ \A b \in Tasks : b # a => at'[b] = at[b]
  BY <1>1 DEF ConfirmChangeSet, ConfirmRecord, Reprobe, Reread, SweepWrite, Goes, poolVars, srvVars,
              recVars, Inv, Shapes
<1>4. /\ op' \in [Calls -> OperationRecord] /\ \A j \in Calls : j # k => op'[j] = op[j]
      /\ op'[k].state \in {op[k].state, "Committed"}
  <2>0. op \in [Calls -> OperationRecord]
    BY DEF Inv, Shapes
  <2>1. CASE op' = op
    BY <2>0, <2>1
  <2>2. CASE ConfirmRecord(k)
    BY <2>0, <2>2 DEF ConfirmRecord, Persists, OperationRecord, LifecycleStates, Terminal
  <2>3. CASE SweepWrite(k) /\ op' # op
    <3> DEFINE held == op[k].lock /\ ~(at[Swp(k)] = "sweepFree")
    <3>1. op' = [op EXCEPT ![k] = [op[k] EXCEPT !.state = "Committed", !.lock = held]]
      BY <2>3 DEF SweepWrite, Persists, settle_from_outcome
    <3>2. held \in BOOLEAN
      BY Zenon
    <3> HIDE DEF held
    <3> QED
      BY <2>0, <3>1, <3>2 DEF OperationRecord, LifecycleStates, Terminal
  <2> QED
    BY <2>1, <2>2, <2>3 DEF ConfirmChangeSet, Reprobe, Reread, recVars
<1>5. Shapes' /\ Others(a)
  BY <1>2, <1>3, <1>4 DEF Inv, Shapes, Others
<1>6. KInv(k)'
  <2>1. KInv(k) /\ Calm(k) /\ (at[Apl(k)] \in SessPcs => Keeps(sess[Apl(k)]))
    BY <1>3, NoSessionStep, TaskFacts DEF Inv
  <2>2. at'[Apl(k)] = at[Apl(k)] /\ ~Alone(k)
    BY <1>1, <1>2, <1>3, TaskFacts DEF Alone
  <2>3. at'[Swp(k)] \in Sweeping => at[Swp(k)] \in Sweeping \/ commitLog[k] = "plain"
    BY <1>1, <1>3, TaskFacts DEF Sweeping
  <2> QED
    BY <1>3, <1>4, <2>1, <2>2, <2>3, SideStep
<1> QED
  BY <1>1, <1>2, <1>3, <1>5, <1>6, QuietTask

-----------------------------------------------------------------------------
(* Steps of the environment, the crash and the restart *)

\* The pool's background tasks, the end of a session, the device's timer and the
\* operators.
LEMMA EnvironmentStep ==
  ASSUME Inv, Environment, UNCHANGED <<commitLog, recVars, taskVars, srvVars>>
  PROVE  Inv'
<1>1. UNCHANGED <<commitLog, csState, op, pre, outcome, at, sess, up>>
  BY DEF recVars, taskVars, srvVars
<1>2. NoSession \notin Sessions
  BY DeviceAssumption
<1>3. /\ DOMAIN sst' = Sessions /\ DOMAIN alive' = Sessions
      /\ \A j \in Calls : Calm(j)
      /\ \A s \in Sessions : sst[s] = "held" => Keeps(s) /\ sst'[s] = "held"
  <2>0. DOMAIN sst = Sessions /\ DOMAIN alive = Sessions
    BY DEF Inv, Shapes
  <2>1. ASSUME NEW s \in Sessions, ReturnSession(s)
        PROVE  /\ DOMAIN sst' = Sessions /\ DOMAIN alive' = Sessions
               /\ \A j \in Calls : Calm(j)
               /\ \A t \in Sessions : sst[t] = "held" => Keeps(t) /\ sst'[t] = "held"
    BY <2>0, <2>1 DEF ReturnSession, Invalidated, Calm, Clean, Permanent, Keeps, devVars
  <2>2. ASSUME NEW s \in Sessions, CloseSession(s) \/ DeviceEnds(s) \/ SessionDies(s)
        PROVE  /\ DOMAIN sst' = Sessions /\ DOMAIN alive' = Sessions
               /\ \A j \in Calls : Calm(j)
               /\ \A t \in Sessions : sst[t] = "held" => Keeps(t) /\ sst'[t] = "held"
    <3>1. UNCHANGED devVars \/ DevRevert(s) \/ DevEndSession(s)
      BY <2>2 DEF CloseSession, Shut, CloseEffect, DeviceEnds, SessionDies
    <3>2. /\ \A j \in Calls : Calm(j)
          /\ \A t \in Sessions : t # s /\ lockHolder = t => lockHolder' = t /\ candidate' = candidate
      BY <3>1, DeviceStep
    <3>3. /\ DOMAIN sst' = Sessions /\ DOMAIN alive' = Sessions
          /\ \A t \in Sessions : sst[t] = "held" => sst'[t] = "held" /\ (alive'[t] => alive[t] /\ t # s)
      BY <2>0, <2>2 DEF CloseSession, Shut, DeviceEnds, SessionDies
    <3> QED
      BY <3>2, <3>3 DEF Keeps
  <2>3. CASE EvictExpired
    BY <2>0, <2>3 DEF EvictExpired, Invalidated, Calm, Clean, Permanent, Keeps, devVars
  <2>4. CASE /\ WindowExpires \/ \E o \in Operators : OperatorEdit(o) \/ OperatorFinish(o)
             /\ UNCHANGED poolVars
    BY <2>0, <2>4, WorldStep DEF Keeps, poolVars
  <2> QED
    BY <2>1, <2>2, <2>3, <2>4 DEF Environment, PoolTasks
<1>4. Shapes' /\ DownInv'
  BY <1>1, <1>3 DEF Inv, Shapes, DownInv
<1>5. SessionsInv'
  BY <1>1, <1>3 DEF Inv, SessionsInv
<1>6. ASSUME NEW k \in Calls PROVE KInv(k)'
  <2>1. at[Apl(k)] \in SessPcs => Keeps(sess[Apl(k)])
    BY <1>3, OwnSession, TaskFacts
  <2>2. KInv(k) /\ Calm(k)
    BY <1>3 DEF Inv
  <2> QED
    BY <1>1, <2>1, <2>2, OtherChange
<1> QED
  BY <1>4, <1>5, <1>6 DEF Inv

\* The recorded deadline passes.
LEMMA DeadlineStep ==
  ASSUME Inv, NEW k \in Calls, DeadlinePasses(k)
  PROVE  Inv'
<1>1. UNCHANGED <<devVars, sst, alive, commitLog, csState, pre, outcome, at, sess, up>>
  BY DEF DeadlinePasses, poolVars, taskVars, srvVars
<1>2. /\ op' \in [Calls -> OperationRecord] /\ \A j \in Calls : j # k => op'[j] = op[j]
      /\ op'[k].state = op[k].state /\ ~Alone(k)
  BY DEF DeadlinePasses, Inv, Shapes, OperationRecord, Alone
<1>3. Shapes' /\ DownInv' /\ SessionsInv'
  BY <1>1, <1>2 DEF Inv, Shapes, DownInv, SessionsInv
<1>4. ASSUME NEW j \in Calls PROVE KInv(j)'
  <2>1. KInv(j) /\ Calm(j) /\ (at[Apl(j)] \in SessPcs => Keeps(sess[Apl(j)]))
    BY <1>1, NoSessionStep, TaskFacts DEF Inv
  <2>2. CASE j = k
    BY <1>1, <1>2, <2>1, <2>2, SideStep
  <2>3. CASE j # k
    BY <1>1, <1>2, <2>1, <2>3, OtherChange
  <2> QED
    BY <2>2, <2>3
<1> QED
  BY <1>3, <1>4 DEF Inv

\* The crash: tasks and sessions go, records stay.
LEMMA CrashStep ==
  ASSUME Inv, Crash
  PROVE  Inv'
<1>1. /\ UNCHANGED <<devVars, alive, commitLog, csState, op>>
      /\ up' = FALSE /\ at' = [a \in Tasks |-> "idle"] /\ sess' = [a \in Tasks |-> NoSession]
      /\ pre' = [k \in Calls |-> {}] /\ DOMAIN outcome' = Calls /\ DOMAIN sst' = Sessions
  BY DEF Crash, recVars
<1>2. Shapes' /\ DownInv'
  BY <1>1 DEF Inv, Shapes, DownInv
<1>3. SessionsInv'
  BY <1>1, DeviceAssumption DEF SessionsInv, SessPcs
<1>4. ASSUME NEW k \in Calls PROVE KInv(k)'
  <2>1. KInv(k) /\ Clean(k)' = Clean(k) /\ Permanent(k)' = Permanent(k)
    BY <1>1 DEF Inv, Clean, Permanent, devVars
  <2>2. at'[Apl(k)] = "idle" /\ at'[Cfm(k)] = "idle" /\ at'[Swp(k)] = "idle" /\ pre'[k] = {}
    BY <1>1, TaskFacts
  <2>3. LockInv(k)' /\ RecordInv(k)'
    BY <2>2 DEF LockInv, RecordInv, PastStaging
  <2>4. AloneInv(k)'
    BY <1>1, <2>1, <2>2 DEF KInv, AloneInv, Alone
  <2>5. CleanInv(k)'
    BY <1>1, <2>1, <2>2 DEF KInv, CleanInv
  <2> QED
    BY <2>3, <2>4, <2>5 DEF KInv
<1> QED
  BY <1>2, <1>3, <1>4 DEF Inv

\* An operator settles a record of the stopped server.
LEMMA ResolveStep ==
  ASSUME Inv, NEW k \in Calls, StateResolve(k)
  PROVE  Inv'
<1>1. UNCHANGED <<devVars, sst, alive, commitLog, csState, pre, outcome, at, sess, up>> /\ ~up
  BY DEF StateResolve, poolVars, taskVars, srvVars
<1>2. /\ op' \in [Calls -> OperationRecord] /\ \A j \in Calls : j # k => op'[j] = op[j]
      /\ op'[k].state \in {"Committed", "Discarded"} /\ op'[k].deadline = op[k].deadline
      /\ op'[k].state = "Discarded" => Clean(k)
      /\ op[k].state # "none"
  <2>0. op \in [Calls -> OperationRecord]
    BY DEF Inv, Shapes
  <2>1. PICK st \in Terminal :
          /\ st = "Discarded" => k \notin running \cup candidate
          /\ op' = [op EXCEPT ![k].state = st, ![k].lock = FALSE]
    BY DEF StateResolve
  <2>2. op[k].state # "none"
    BY DEF StateResolve, Active
  <2> QED
    BY <2>0, <2>1, <2>2 DEF Terminal, OperationRecord, LifecycleStates, Clean
<1>3. Shapes' /\ DownInv' /\ SessionsInv'
  BY <1>1, <1>2 DEF Inv, Shapes, DownInv, SessionsInv
<1>4. ASSUME NEW j \in Calls PROVE KInv(j)'
  <2>1. KInv(j) /\ Calm(j) /\ (at[Apl(j)] \in SessPcs => Keeps(sess[Apl(j)]))
    BY <1>1, NoSessionStep, TaskFacts DEF Inv
  <2>2. CASE j = k
    <3>1. at'[Apl(k)] = "idle"
      BY <1>1, TaskFacts DEF Inv, DownInv
    <3>2. LockInv(k)' /\ RecordInv(k)'
      BY <3>1 DEF LockInv, RecordInv, PastStaging
    <3>3. AloneInv(k)'
      BY <1>1, <1>2, <2>1, <2>2, <3>1 DEF KInv, AloneInv
    <3>4. CleanInv(k)'
      BY <1>1, <1>2, <2>1, <2>2, <3>1 DEF KInv, CleanInv, Calm
    <3> QED
      BY <2>2, <3>2, <3>3, <3>4 DEF KInv
  <2>3. CASE j # k
    BY <1>1, <1>2, <2>1, <2>3, OtherChange
  <2> QED
    BY <2>2, <2>3
<1> QED
  BY <1>3, <1>4 DEF Inv

\* ChangesetCoordinator::load at the start.
LEMMA StartStep ==
  ASSUME Inv, Start
  PROVE  Inv'
<1>1. /\ UNCHANGED <<devVars, sst, alive, commitLog, pre, outcome, sess>> /\ ~up /\ up' = TRUE
      /\ at' = [a \in Tasks |-> IF a[2] = "sweep" THEN "snapshot" ELSE "idle"]
  BY DEF Start, poolVars
<1>2. /\ op' \in [Calls -> OperationRecord]
      /\ \A k \in Calls : \/ op'[k] = op[k] /\ op[k].state \in {"none", "Committed", "Discarded"}
                          \/ op'[k].state = "Indeterminate" /\ op[k].state # "none"
  BY DEF Start, Inv, Shapes, OperationRecord, LifecycleStates, Active, Terminal
<1>3. /\ DOMAIN csState' = Calls
      /\ \A k \in Calls : csState'[k] = csState[k] \/ csState'[k] = "Failed"
  BY DEF Start, Inv, Shapes
<1>4. Shapes' /\ DownInv'
  BY <1>1, <1>2, <1>3 DEF Inv, Shapes, DownInv
<1>5. SessionsInv'
  BY <1>1 DEF Inv, SessionsInv, DownInv, SessPcs
<1>6. ASSUME NEW k \in Calls PROVE KInv(k)'
  <2>1. KInv(k) /\ Clean(k)' = Clean(k) /\ Permanent(k)' = Permanent(k)
    BY <1>1 DEF Inv, Clean, Permanent, devVars
  <2>2. /\ at'[Apl(k)] = "idle" /\ at'[Cfm(k)] = "idle" /\ at'[Swp(k)] = "snapshot"
        /\ at[Apl(k)] = "idle"
    BY <1>1, TaskFacts DEF Inv, DownInv
  <2>3. LockInv(k)' /\ RecordInv(k)'
    BY <2>2 DEF LockInv, RecordInv, PastStaging
  <2>4. AloneInv(k)'
    BY <1>1, <1>2, <1>3, <2>1, <2>2 DEF KInv, AloneInv, Alone, Fresh
  <2>5. CleanInv(k)'
    BY <1>1, <1>2, <2>1, <2>2 DEF KInv, CleanInv
  <2> QED
    BY <2>3, <2>4, <2>5 DEF KInv
<1> QED
  BY <1>4, <1>5, <1>6 DEF Inv

\* The sweep takes its list of candidates.
LEMMA SnapshotStep ==
  ASSUME Inv, SweepSnapshot
  PROVE  Inv'
<1>1. UNCHANGED <<devVars, sst, alive, commitLog, op, csState, pre, outcome, sess, up>>
  BY DEF SweepSnapshot, poolVars, recVars, srvVars
<1>2. /\ DOMAIN at' = Tasks
      /\ \A a \in Tasks :
           \/ at'[a] = at[a] /\ at[a] # "snapshot"
           \/ at[a] = "snapshot" /\ at'[a] = "reprobe" /\ is_reprobe_candidate(a[1])
           \/ at[a] = "snapshot" /\ at'[a] = "idle"
  BY DEF SweepSnapshot
<1>3. Shapes' /\ DownInv'
  BY <1>1, <1>2 DEF Inv, Shapes, DownInv
<1>4. SessionsInv'
  BY <1>1, <1>2 DEF Inv, SessionsInv, SessPcs
<1>5. ASSUME NEW k \in Calls PROVE KInv(k)'
  <2>1. /\ KInv(k) /\ Clean(k)' = Clean(k) /\ Permanent(k)' = Permanent(k)
    BY <1>1 DEF Inv, Clean, Permanent, devVars
  <2>2. /\ at'[Apl(k)] = at[Apl(k)] \/ at'[Apl(k)] \in {"reprobe", "idle"}
        /\ at'[Cfm(k)] = at[Cfm(k)] \/ at[Cfm(k)] = "snapshot"
        /\ \/ at'[Swp(k)] = at[Swp(k)]
           \/ at'[Swp(k)] = "idle"
           \/ at'[Swp(k)] = "reprobe" /\ op[k].state = "Indeterminate"
        /\ at[Apl(k)] = "idle" => at'[Apl(k)] = "idle"
    BY <1>2, TaskFacts DEF is_reprobe_candidate
  <2>3. LockInv(k)'
    BY <1>1, <2>1, <2>2 DEF KInv, LockInv, devVars
  <2>4. RecordInv(k)'
    BY <1>1, <2>1, <2>2 DEF KInv, RecordInv, PastStaging
  <2>5. AloneInv(k)'
    BY <1>1, <2>1, <2>2 DEF KInv, AloneInv, Alone, RecordInv
  <2>6. CleanInv(k)'
    BY <1>1, <2>1, <2>2 DEF KInv, CleanInv
  <2> QED
    BY <2>3, <2>4, <2>5, <2>6 DEF KInv
<1> QED
  BY <1>3, <1>4, <1>5 DEF Inv

-----------------------------------------------------------------------------
(* The invariant holds *)

\* The server starts with no change sets, and nothing runs.
LEMMA InitInv ==
  ASSUME Init
  PROVE  Inv
<1>1. /\ op = [k \in Calls |-> NoOp] /\ at = [a \in Tasks |-> "idle"]
      /\ sess = [a \in Tasks |-> NoSession] /\ pre = [k \in Calls |-> {}]
      /\ commitLog = [k \in Calls |-> "none"] /\ running = {} /\ candidate = {}
      /\ up = TRUE
  BY DEF Init, DeviceInit
<1>2. NoOp \in OperationRecord /\ NoOp.state = "none" /\ NoOp.deadline = "none"
  BY DEF NoOp, OperationRecord, LifecycleStates
<1>3. Shapes
  BY <1>2 DEF Init, PoolInit, Shapes
<1>4. SessionsInv /\ DownInv
  BY <1>1, DeviceAssumption DEF SessionsInv, DownInv, SessPcs
<1>5. ASSUME NEW k \in Calls PROVE KInv(k)
  <2>1. at[Apl(k)] = "idle" /\ at[Cfm(k)] = "idle" /\ at[Swp(k)] = "idle"
    BY <1>1, TaskFacts
  <2>2. op[k].state = "none" /\ op[k].deadline = "none" /\ commitLog[k] = "none" /\ pre[k] = {}
    BY <1>1, <1>2
  <2>3. LockInv(k) /\ RecordInv(k)
    BY <2>1 DEF LockInv, RecordInv, PastStaging
  <2>4. AloneInv(k)
    BY <1>1, <2>1, <2>2 DEF AloneInv, Alone, Clean
  <2>5. CleanInv(k)
    BY <2>1, <2>2 DEF CleanInv
  <2> QED
    BY <2>3, <2>4, <2>5 DEF KInv
<1> QED
  BY <1>3, <1>4, <1>5 DEF Inv

\* Every step of the system preserves the invariant.
LEMMA NextInv ==
  ASSUME Inv, [Next]_vars
  PROVE  Inv'
<1>1. CASE UNCHANGED vars
  <2>1. UNCHANGED <<devVars, sst, alive, commitLog, csState, op, pre, outcome, at, sess, up>>
    BY <1>1 DEF vars, poolVars, recVars, taskVars, srvVars
  <2>2. Shapes' /\ DownInv' /\ SessionsInv'
    BY <2>1 DEF Inv, Shapes, DownInv, SessionsInv
  <2>3. ASSUME NEW k \in Calls PROVE KInv(k)'
    <3>1. KInv(k) /\ Calm(k) /\ (at[Apl(k)] \in SessPcs => Keeps(sess[Apl(k)]))
      BY <2>1, NoSessionStep, TaskFacts DEF Inv
    <3> QED
      BY <2>1, <3>1, OtherChange
  <2> QED
    BY <2>2, <2>3 DEF Inv
<1>2. ASSUME NEW k \in Calls, Request(k) PROVE Inv'
  BY <1>2, SetsStep, ApplyStep, SideSteps DEF Request
<1>3. ASSUME NEW k \in Calls, Step(k) PROVE Inv'
  <2>1. ASSUME NEW a \in Tasks, Open(a) \/ Lock(a) \/ Unlock(a) PROVE Inv'
    BY <2>1, OpenStep, LockStep, UnlockStep
  <2>2. CASE CheckFingerprint(k) \/ Validate(k) \/ ReadBack(k)
    BY <2>2, ReadSteps
  <2>3. CASE Stage(k)
    BY <2>3, StageStep
  <2>4. CASE Unstage(k) \/ Release(k)
    BY <2>4, CloseSteps
  <2>5. CASE Commit(k)
    BY <2>5, CommitStep
  <2>6. CASE CommitUnlock(k) \/ RecordOutcome(k)
    BY <2>6, OutcomeSteps
  <2>7. CASE PersistCommitting(k)
    BY <2>7, PersistStep
  <2>8. CASE \/ StageFailed(k) \/ ReadRecord(k) \/ MarkUnknown(k)
             \/ SettleDiscarded(k) \/ SettleChangeSet(k)
    BY <2>8, CleanupSteps
  <2>9. CASE ConfirmCommit(k) \/ ConfirmClose(k)
    BY <2>9, ConfirmSteps
  <2>10. CASE ConfirmRecord(k) \/ Reprobe(k) \/ Reread(k) \/ SweepWrite(k)
    BY <2>10, SideSteps
  <2> QED
    BY <1>3, <2>1, <2>2, <2>3, <2>4, <2>5, <2>6, <2>7, <2>8, <2>9, <2>10 DEF Step
<1>4. ASSUME NEW k \in Calls, DeadlinePasses(k) \/ StateResolve(k) PROVE Inv'
  BY <1>4, DeadlineStep, ResolveStep
<1>5. CASE Crash
  BY <1>5, CrashStep
<1>6. CASE Start
  BY <1>6, StartStep
<1>7. CASE SweepSnapshot
  BY <1>7, SnapshotStep
<1>8. CASE Environment /\ UNCHANGED <<commitLog, recVars, taskVars, srvVars>>
  BY <1>8, EnvironmentStep
<1> QED
  BY <1>1, <1>2, <1>3, <1>4, <1>5, <1>6, <1>7, <1>8 DEF Next

\* While its session lives, an apply past its lock has the candidate to itself, a
\* record goes with the position of its task, and a change set is concerned with the
\* device only from its commit on.
THEOREM ApplyIsExclusive == Spec => []Inv
<1>1. Init => Inv
  BY InitInv
<1>2. Inv /\ [Next]_vars => Inv'
  BY NextInv
<1> QED
  BY <1>1, <1>2, PTL DEF Spec

\* abandon_failed_apply: a record that says Discarded tells the truth, through crashes,
\* lost replies, sweeps and operators on the same candidate.
THEOREM DiscardedIsGone == Spec => []DiscardedMeansGone
<1>1. Inv => DiscardedMeansGone
  BY DEF Inv, KInv, CleanInv, Clean, DiscardedMeansGone
<1> QED
  BY <1>1, ApplyIsExclusive, PTL

\* commit(): whatever operators and other change sets left in the shared candidate,
\* the commit of an apply puts at most its own change into the running configuration.
THEOREM CommitIsOwn == Spec => CommitActivatesOwnChange
<1>1. ASSUME Inv, NEW k \in Calls, Commit(k)
      PROVE  running' \ running \subseteq {k}
  <2> DEFINE s == sess[Apl(k)]
  <2>1. at[Apl(k)] = "commit" /\ KInv(k)
    BY <1>1 DEF Commit, Inv
  <2>2. alive[s] => candidate = {k}
    BY <2>1 DEF KInv, LockInv
  <2>3. \/ UNCHANGED devVars
        \/ alive[s] /\ (DevCommit(s) \/ DevOpenWindow(s, TheDevice))
    BY <1>1 DEF Commit, TxCommit, MayHappen, DevCommitNative
  <2> QED
    BY <2>2, <2>3 DEF DevCommit, DevOpenWindow, devVars
<1>2. Inv => [\A k \in Calls : Commit(k) => running' \ running \subseteq {k}]_vars
  BY <1>1
<1> QED
  BY <1>2, ApplyIsExclusive, PTL DEF CommitActivatesOwnChange

\* settle_from_outcome: a commit the sweep settles is live and no rollback timer can
\* still take it back.
THEOREM SweepSettlesOnlyPermanent == Spec => SweepSettlesPermanent
<1>1. ASSUME Inv, NEW k \in Calls, SweepWrite(k)
      PROVE  k \in running \ winEdits
  BY <1>1 DEF SweepWrite, Inv, KInv, CleanInv, Permanent
<1>2. Inv => [\A k \in Calls : SweepWrite(k) /\ op' # op => k \in running \ winEdits]_vars
  BY <1>1
<1> QED
  BY <1>2, ApplyIsExclusive, PTL DEF SweepSettlesPermanent

-----------------------------------------------------------------------------
(* Change sets implement ChangeControl *)

\* The apply from its commit to the write of an unknown outcome.
AfterCommit == {"commitUnlock", "record", "release", "readRecord", "markUnknown"}

\* How the record of a change set, its tasks and the commit log go together.
Books(k) ==
  /\ at[Cfm(k)] # "idle" => op[k].deadline # "none"
  /\ op[k].deadline # "none" => commitLog[k] = "confirmed"
  /\ at[Apl(k)] # "idle" => op[k].deadline = "none"
  /\ at[Apl(k)] = "commitUnlock" => commitLog[k] = "plain"
  /\ at[Apl(k)] = "record" => /\ outcome[k] = "committed" => commitLog[k] = "plain"
                              /\ outcome[k] = "awaiting" => commitLog[k] = "confirmed"
  /\ at[Apl(k)] \in AfterCommit /\ ~Active(k) => commitLog[k] = "plain"

\* What the device holds of a change set: no leftover of a commit, and a window only
\* while the record is unsettled.
Holdings(k) ==
  /\ commitLog[k] # "none" => k \notin candidate
  /\ k \in winEdits => Active(k) /\ k \in running /\ commitLog[k] = "confirmed"
  /\ at[Cfm(k)] \in {"closeGood", "confirmWrite"} => k \notin winEdits

\* Two change sets have the device at once only when one of them was settled by the
\* sweep and reopened; the candidate holds one change set, and none while a confirmed
\* commit waits.
Claims ==
  /\ winBy \in {NoSession, TheDevice}
  /\ \A i, j \in Calls : i # j /\ Active(i) /\ Active(j) =>
       commitLog[i] = "plain" \/ commitLog[j] = "plain"
  /\ \A i, j \in Calls : i \in candidate /\ j \in candidate => i = j
  /\ \A i, j \in Calls : Active(j) /\ commitLog[j] = "confirmed" => i \notin candidate

ControlInv == Claims /\ \A k \in Calls : Books(k) /\ Holdings(k)

\* A step of the device that loads no change set and opens no window.
Mild ==
  /\ winBy' \in {NoSession, TheDevice}
  /\ \A k \in Calls : k \in candidate' => k \in candidate
  /\ \A k \in Calls : k \in winEdits' => k \in winEdits /\ (k \in running => k \in running')

\* Every RPC but a load and a confirmed commit is such a step, and so is the end of a
\* session, for windows belong to the device.
LEMMA MildRpc ==
  ASSUME ControlInv, NEW s \in Sessions,
         \/ UNCHANGED devVars \/ DevLock(s) \/ DevUnlock(s) \/ DevRevert(s)
         \/ DevCommit(s) \/ DevEndSession(s)
  PROVE  Mild
<1>1. winBy \in {NoSession, TheDevice} /\ winBy # s
  BY DeviceAssumption DEF ControlInv, Claims
<1>2. CASE UNCHANGED devVars \/ DevLock(s) \/ DevUnlock(s) \/ DevRevert(s)
  BY <1>1, <1>2 DEF Mild, devVars, DevLock, DevUnlock, DevRevert
<1>3. CASE DevCommit(s)
  BY <1>3 DEF Mild, DevCommit
<1>4. CASE DevEndSession(s)
  BY <1>1, <1>4 DEF Mild, DevEndSession
<1> QED
  BY <1>2, <1>3, <1>4

\* So are the steps of the operators and of the device's timer.
LEMMA MildWorld ==
  ASSUME ControlInv, WindowExpires \/ \E o \in Operators : OperatorEdit(o) \/ OperatorFinish(o)
  PROVE  Mild
<1>1. winBy \in {NoSession, TheDevice} /\ Operators \cap Calls = {}
  BY DeviceAssumption DEF ControlInv, Claims
<1> QED
  BY <1>1 DEF Mild, WindowExpires, OperatorEdit, OperatorFinish

\* A mild step keeps the claims when it brings up no change set that was settled,
\* unless that has a plain commit or no other has the device.
LEMMA MildClaims ==
  ASSUME ControlInv, Mild, commitLog' = commitLog,
         \A k \in Calls : Active(k)' => \/ Active(k) \/ commitLog[k] = "plain"
                                        \/ /\ commitLog[k] = "none"
                                           /\ \A j \in Calls : j # k => ~Active(j)'
  PROVE  Claims'
BY DEF ControlInv, Claims, Mild

\* A change set whose record and tasks do not change.
LEMMA MildOther ==
  ASSUME NEW k \in Calls, Books(k), Holdings(k), Mild, op'[k] = op[k], outcome'[k] = outcome[k],
         commitLog'[k] = commitLog[k], at'[Apl(k)] = at[Apl(k)], at'[Cfm(k)] = at[Cfm(k)]
  PROVE  Books(k)' /\ Holdings(k)'
<1>1. Active(k)' = Active(k)
  BY DEF Active
<1>2. Books(k)'
  BY <1>1 DEF Books
<1>3. Holdings(k)'
  BY <1>1 DEF Holdings, Mild
<1> QED
  BY <1>2, <1>3

\* Where the tasks are after a step of task a.
LEMMA MovesTo ==
  ASSUME Inv, NEW a \in Tasks, NEW p, Goes(a, p) \/ Drops(a, p)
  PROVE  at'[a] = p /\ \A b \in Tasks : b # a => at'[b] = at[b]
BY DEF Goes, Drops, Inv, Shapes

\* A mild step of task a of change set a[1].
LEMMA ControlTask ==
  ASSUME ControlInv, NEW a \in Tasks, Mild, commitLog' = commitLog,
         \A b \in Tasks : b # a => at'[b] = at[b],
         \A j \in Calls : j # a[1] => op'[j] = op[j] /\ outcome'[j] = outcome[j],
         Active(a[1])' => Active(a[1]) \/ commitLog[a[1]] = "plain",
         Books(a[1])', Holdings(a[1])'
  PROVE  ControlInv'
<1>1. a[1] \in Calls
  BY TaskFacts
<1>2. \A j \in Calls : j # a[1] => Active(j)' = Active(j)
  BY DEF Active
<1>3. Claims'
  BY <1>1, <1>2, MildClaims
<1>4. ASSUME NEW j \in Calls, j # a[1] PROVE Books(j)' /\ Holdings(j)'
  <2>1. Apl(j) \in Tasks /\ Cfm(j) \in Tasks /\ Apl(j) # a /\ Cfm(j) # a
    BY <1>4, TaskFacts
  <2>2. Books(j) /\ Holdings(j)
    BY DEF ControlInv
  <2> QED
    BY <1>4, <2>1, <2>2, MildOther
<1> QED
  BY <1>3, <1>4 DEF ControlInv

\* A mild step of task a that leaves the state and the deadline of every record.
LEMMA ControlMove ==
  ASSUME ControlInv, NEW a \in Tasks, NEW p, Mild, commitLog' = commitLog, outcome' = outcome,
         \A j \in Calls : op'[j].state = op[j].state /\ op'[j].deadline = op[j].deadline,
         \A j \in Calls : j # a[1] => op'[j] = op[j],
         at'[a] = p, \A b \in Tasks : b # a => at'[b] = at[b],
         at[a] # "idle",
         a[2] = "apply" => p \notin {"commitUnlock", "record"} /\ (p \in AfterCommit => at[a] \in AfterCommit),
         a[2] = "confirm" /\ p \in {"closeGood", "confirmWrite"} => a[1] \notin winEdits'
  PROVE  ControlInv'
<1> DEFINE k == a[1]
<1>1. k \in Calls
  BY TaskFacts
<1>2. Active(k)' = Active(k)
  BY <1>1 DEF Active
<1>3. Books(k) /\ Holdings(k)
  BY <1>1 DEF ControlInv
<1>4. Books(k)' /\ Holdings(k)'
  <2>1. CASE a = Apl(k)
    <3>1. at'[Cfm(k)] = at[Cfm(k)] /\ a[2] = "apply"
      BY <1>1, <2>1, TaskFacts
    <3>2. Books(k)'
      BY <1>1, <1>2, <1>3, <2>1, <3>1 DEF Books
    <3>3. Holdings(k)'
      BY <1>1, <1>2, <1>3, <2>1, <3>1 DEF Holdings, Mild
    <3> QED
      BY <3>2, <3>3
  <2>2. CASE a = Cfm(k)
    <3>1. at'[Apl(k)] = at[Apl(k)] /\ a[2] = "confirm"
      BY <1>1, <2>2, TaskFacts
    <3>2. Books(k)'
      BY <1>1, <1>2, <1>3, <2>2, <3>1 DEF Books
    <3>3. Holdings(k)'
      BY <1>1, <1>2, <1>3, <2>2, <3>1 DEF Holdings, Mild
    <3> QED
      BY <3>2, <3>3
  <2>3. CASE a = Swp(k)
    <3>1. at'[Apl(k)] = at[Apl(k)] /\ at'[Cfm(k)] = at[Cfm(k)]
      BY <1>1, <2>3, TaskFacts
    <3>2. Books(k)'
      BY <1>1, <1>2, <1>3, <3>1 DEF Books
    <3>3. Holdings(k)'
      BY <1>1, <1>2, <1>3, <3>1 DEF Holdings, Mild
    <3> QED
      BY <3>2, <3>3
  <2> QED
    BY <2>1, <2>2, <2>3, TaskFacts
<1> QED
  BY <1>2, <1>4, ControlTask

\* The steps every kind of task takes.
LEMMA ControlSessions ==
  ASSUME Inv, ControlInv, NEW a \in Tasks, Open(a) \/ Lock(a) \/ Unlock(a)
  PROVE  ControlInv'
<1>0. op \in [Calls -> OperationRecord]
  BY DEF Inv, Shapes
<1>1. CASE Open(a)
  <2>1. UNCHANGED devVars /\ UNCHANGED <<commitLog, outcome, op>> /\ at[a] = "open"
    BY <1>1 DEF Open, OpenSession, recVars
  <2>2. Mild
    BY <2>1 DEF Mild, devVars, ControlInv, Claims
  <2>3. PICK p : /\ at' = [at EXCEPT ![a] = p]
                 /\ p = "confirm" \/ p = "lock" \/ p = WithoutSession(a)
    BY <1>1 DEF Open, Drops
  <2>4. p \notin AfterCommit /\ p \notin {"closeGood", "confirmWrite"}
    BY <2>3 DEF AfterCommit, WithoutSession
  <2>5. at'[a] = p /\ \A b \in Tasks : b # a => at'[b] = at[b]
    BY <2>3 DEF Inv, Shapes
  <2> QED
    BY <2>1, <2>2, <2>4, <2>5, ControlMove DEF AfterCommit
<1>2. CASE Lock(a)
  <2>1. sess[a] \in Sessions /\ UNCHANGED <<commitLog, outcome>> /\ at[a] = "lock"
    BY <1>2, OwnSession DEF Lock, SessPcs
  <2>2. Mild
    BY <1>2, <2>1, MildRpc DEF Lock, TxLock, Rpc
  <2>3. PICK p \in {WithLock(a), WithoutSession(a)} :
          /\ Goes(a, p) \/ Drops(a, p)
          /\ op' = op \/ op' = [op EXCEPT ![a[1]].lock = @ \/ Staging(a)]
    BY <1>2 DEF Lock
  <2>4. p \notin AfterCommit /\ p \notin {"closeGood", "confirmWrite"}
    BY <2>3 DEF AfterCommit, WithoutSession, WithLock
  <2>5. at'[a] = p /\ \A b \in Tasks : b # a => at'[b] = at[b]
    BY <2>3, MovesTo
  <2>6. /\ \A j \in Calls : op'[j].state = op[j].state /\ op'[j].deadline = op[j].deadline
        /\ \A j \in Calls : j # a[1] => op'[j] = op[j]
    BY <1>0, <2>3 DEF OperationRecord
  <2> QED
    BY <2>1, <2>2, <2>4, <2>5, <2>6, ControlMove DEF AfterCommit
<1>3. CASE Unlock(a)
  <2>1. /\ sess[a] \in Sessions /\ UNCHANGED <<commitLog, outcome, op>>
        /\ at[a] \in {"unlock", "unlockGood", "unlockBad", "sweepUnlock"}
    BY <1>3, OwnSession DEF Unlock, SessPcs, recVars
  <2>2. Mild
    BY <1>3, <2>1, MildRpc DEF Unlock, TxUnlock, Rpc
  <2>3. PICK b \in BOOLEAN : Drops(a, AfterUnlock(at[a], b))
    BY <1>3 DEF Unlock
  <2> DEFINE p == AfterUnlock(at[a], b)
  <2>4. p \in {"fail", "settleOp", "settleSet", "sweepFree", "sweepWrite"}
    <3>1. CASE at[a] = "unlock"
      BY <3>1 DEF AfterUnlock
    <3>2. CASE at[a] = "unlockGood"
      BY <3>2 DEF AfterUnlock
    <3>3. CASE at[a] = "unlockBad"
      BY <3>3 DEF AfterUnlock
    <3>4. CASE at[a] = "sweepUnlock"
      BY <3>4 DEF AfterUnlock
    <3> QED
      BY <2>1, <3>1, <3>2, <3>3, <3>4
  <2>5. at'[a] = p /\ \A c \in Tasks : c # a => at'[c] = at[c]
    BY <2>3, MovesTo
  <2> HIDE DEF p
  <2> QED
    BY <2>1, <2>2, <2>4, <2>5, ControlMove DEF AfterCommit
<1> QED
  BY <1>1, <1>2, <1>3

\* The steps of the apply, the confirm and the sweep that leave the records.
LEMMA ControlMoves ==
  ASSUME Inv, ControlInv, NEW k \in Calls,
         \/ CheckFingerprint(k) \/ Unstage(k) \/ Release(k) \/ ReadRecord(k) \/ ReadBack(k)
         \/ ConfirmCommit(k) \/ ConfirmClose(k) \/ Reprobe(k) \/ Reread(k)
  PROVE  ControlInv'
<1>1. UNCHANGED <<commitLog, outcome, op>>
  BY DEF CheckFingerprint, Unstage, Release, ReadRecord, ReadBack, ConfirmCommit, ConfirmClose,
         Reprobe, Reread, recVars
<1>2. Apl(k) \in Tasks /\ Cfm(k) \in Tasks /\ Swp(k) \in Tasks
  BY TaskFacts
<1>3. CASE CheckFingerprint(k) \/ Unstage(k) \/ Release(k) \/ ReadRecord(k) \/ ReadBack(k)
  <2> DEFINE a == Apl(k)
  <2>1. /\ at[a] \in {"fingerprint", "unstage", "release", "readRecord", "readBack"}
        /\ at[a] = "readRecord" \/ at[a] \in SessPcs
    BY <1>3 DEF CheckFingerprint, Unstage, Release, ReadRecord, ReadBack, SessPcs
  <2>2. UNCHANGED devVars \/ (sess[a] \in Sessions /\ DevRevert(sess[a]))
    BY <1>2, <1>3, <2>1, OwnSession DEF CheckFingerprint, Unstage, Release, ReadRecord, ReadBack,
       TxUnstage, TxRelease, Shut, CloseEffect, ReadRpc
  <2>3. Mild
    <3>1. CASE UNCHANGED devVars
      BY <3>1 DEF Mild, devVars, ControlInv, Claims
    <3>2. CASE sess[a] \in Sessions /\ DevRevert(sess[a])
      BY <3>2, MildRpc
    <3> QED
      BY <2>2, <3>1, <3>2
  <2>4. PICK p \in {"stage", "unlock", "fail", "readRecord", "settleSet", "markUnknown", "open",
                    "unlockGood", "unlockBad"} :
          /\ Goes(a, p) \/ Drops(a, p)
          /\ p \in AfterCommit => at[a] \in AfterCommit
    BY <1>3 DEF CheckFingerprint, Unstage, Release, ReadRecord, ReadBack, AfterCommit
  <2>5. at'[a] = p /\ \A b \in Tasks : b # a => at'[b] = at[b]
    BY <1>2, <2>4, MovesTo
  <2>6. a[2] = "apply" /\ a[1] = k
    BY TaskFacts
  <2> HIDE DEF a
  <2> QED
    BY <1>1, <1>2, <2>1, <2>3, <2>4, <2>5, <2>6, ControlMove DEF a
<1>4. CASE ConfirmCommit(k) \/ ConfirmClose(k)
  <2> DEFINE a == Cfm(k)
  <2>1. at[a] \in {"confirm", "closeGood", "closeBad"} /\ sess[a] \in Sessions
    BY <1>2, <1>4, OwnSession DEF ConfirmCommit, ConfirmClose, SessPcs
  <2>2. UNCHANGED devVars \/ DevRevert(sess[a]) \/ DevCommit(sess[a])
    BY <1>4 DEF ConfirmCommit, ConfirmClose, TxConfirmCommit, Rpc, TxConfirmClose, Shut, CloseEffect
  <2>3. Mild
    BY <2>1, <2>2, MildRpc
  <2>4. PICK p \in {"closeGood", "closeBad", "confirmWrite", "idle"} :
          /\ Goes(a, p) \/ Drops(a, p)
          /\ p = "closeGood" => winEdits' = {}
          /\ p = "confirmWrite" => at[a] = "closeGood"
    BY <1>4 DEF ConfirmCommit, ConfirmClose, TxConfirmCommit, Rpc, DevCommit
  <2>5. at'[a] = p /\ \A b \in Tasks : b # a => at'[b] = at[b]
    BY <1>2, <2>4, MovesTo
  <2>6. p \in {"closeGood", "confirmWrite"} => k \notin winEdits'
    BY <2>3, <2>4 DEF ControlInv, Holdings, Mild
  <2>7. a[2] = "confirm" /\ a[1] = k
    BY TaskFacts
  <2> HIDE DEF a
  <2> QED
    BY <1>1, <1>2, <2>1, <2>3, <2>4, <2>5, <2>6, <2>7, ControlMove DEF a
<1>5. CASE Reprobe(k) \/ Reread(k)
  <2> DEFINE a == Swp(k)
  <2>1. UNCHANGED devVars /\ at[a] # "idle"
    BY <1>5 DEF Reprobe, Reread
  <2>2. Mild
    BY <2>1 DEF Mild, devVars, ControlInv, Claims
  <2>3. PICK p : Goes(a, p)
    BY <1>5 DEF Reprobe, Reread
  <2>4. at'[a] = p /\ \A b \in Tasks : b # a => at'[b] = at[b]
    BY <1>2, <2>3, MovesTo
  <2>5. a[2] = "sweep"
    BY TaskFacts
  <2> HIDE DEF a
  <2> QED
    BY <1>1, <1>2, <2>1, <2>2, <2>4, <2>5, ControlMove DEF a
<1> QED
  BY <1>3, <1>4, <1>5

\* A step of the apply of k under which the device does nothing that matters here.
LEMMA ControlApply ==
  ASSUME Inv, ControlInv, NEW k \in Calls, NEW p, Mild, commitLog' = commitLog,
         \A j \in Calls : j # k => op'[j] = op[j] /\ outcome'[j] = outcome[j],
         at'[Apl(k)] = p, \A b \in Tasks : b # Apl(k) => at'[b] = at[b],
         at[Apl(k)] # "idle", op'[k].deadline = "none",
         p \notin {"commitUnlock", "record"},
         p \in AfterCommit => Active(k)' \/ commitLog[k] = "plain",
         Active(k)' => Active(k) \/ commitLog[k] = "plain",
         ~Active(k)' => k \notin winEdits
  PROVE  ControlInv'
<1>1. Apl(k) \in Tasks /\ Cfm(k) \in Tasks /\ Apl(k)[1] = k /\ at'[Cfm(k)] = at[Cfm(k)]
  BY TaskFacts
<1>2. Books(k) /\ Holdings(k)
  BY DEF ControlInv
<1>3. Books(k)'
  BY <1>1, <1>2 DEF Books
<1>4. Holdings(k)'
  BY <1>1, <1>2 DEF Holdings, Mild
<1> HIDE <1>2
<1> QED
  BY <1>1, <1>3, <1>4, ControlTask

\* The steps of the apply that write its record or forget its outcome.
LEMMA ControlRecords ==
  ASSUME Inv, ControlInv, NEW k \in Calls,
         \/ StageFailed(k) \/ Validate(k) \/ PersistCommitting(k) \/ MarkUnknown(k)
         \/ SettleDiscarded(k) \/ SettleChangeSet(k)
  PROVE  ControlInv'
<1> DEFINE a == Apl(k)
<1>0. op \in [Calls -> OperationRecord] /\ DOMAIN outcome = Calls /\ KInv(k) /\ Books(k) /\ Holdings(k)
  BY DEF Inv, Shapes, ControlInv
<1>1. UNCHANGED devVars /\ commitLog' = commitLog /\ at[a] # "idle" /\ a \in Tasks
  BY TaskFacts DEF StageFailed, Validate, PersistCommitting, MarkUnknown, SettleDiscarded,
                   SettleChangeSet, ReadRpc
<1>2. Mild
  BY <1>1 DEF Mild, devVars, ControlInv, Claims
<1>3. op[k].deadline = "none"
  BY <1>0, <1>1 DEF Books
<1>4. /\ op' \in [Calls -> OperationRecord]
      /\ \A j \in Calls : j # k => op'[j] = op[j] /\ outcome'[j] = outcome[j]
      /\ op'[k].deadline = "none"
  <2>1. CASE StageFailed(k)
    <3>1. NoOp \in OperationRecord /\ NoOp.deadline = "none"
      BY DEF NoOp, OperationRecord, LifecycleStates
    <3>2. outcome' = outcome
      BY <2>1 DEF StageFailed
    <3>3. CASE op' = [op EXCEPT ![k] = NoOp]
      BY <1>0, <3>1, <3>2, <3>3
    <3>4. CASE op' = [op EXCEPT ![k].state = "Failed"]
      BY <1>0, <1>3, <3>2, <3>4 DEF OperationRecord, LifecycleStates
    <3> QED
      BY <2>1, <3>3, <3>4 DEF StageFailed
  <2>2. CASE ~StageFailed(k)
    BY <1>0, <1>3, <2>2 DEF Validate, PersistCommitting, MarkUnknown, SettleDiscarded,
       SettleChangeSet, SetState, Abandons, Persists, OperationRecord, LifecycleStates, Terminal
  <2> QED
    BY <2>1, <2>2
<1>5. PICK p : /\ Goes(a, p)
               /\ p \in {"idle", "precommit", "release", "commit", "settleSet"}
               /\ p = "release" => Active(k) /\ op' = op
  <2>1. CASE StageFailed(k)
    BY <2>1 DEF StageFailed
  <2>2. CASE Validate(k)
    <3>1. op[k].state = "Staged"
      BY <1>0, <2>2 DEF Validate, KInv, RecordInv
    <3> QED
      BY <2>2, <3>1 DEF Validate, Abandons, Active, Terminal
  <2>3. CASE PersistCommitting(k)
    <3>1. op[k].state = "Validated"
      BY <1>0, <2>3 DEF PersistCommitting, KInv, RecordInv
    <3> QED
      BY <2>3, <3>1 DEF PersistCommitting, Abandons, Active, Terminal
  <2>4. CASE MarkUnknown(k) \/ SettleDiscarded(k) \/ SettleChangeSet(k)
    BY <2>4 DEF MarkUnknown, SettleDiscarded, SettleChangeSet
  <2> QED
    BY <2>1, <2>2, <2>3, <2>4
<1>6. at'[a] = p /\ \A b \in Tasks : b # a => at'[b] = at[b]
  BY <1>1, <1>5, MovesTo
<1>7. Active(k)' => Active(k) \/ commitLog[k] = "plain"
  <2>1. CASE at[a] = "markUnknown"
    BY <1>0, <2>1 DEF Books, AfterCommit
  <2>2. CASE at[a] \in {"fail", "validate", "precommit"}
    BY <1>0, <2>2 DEF KInv, RecordInv, Active, Terminal
  <2>3. CASE SettleDiscarded(k) \/ SettleChangeSet(k)
    BY <1>0, <2>3 DEF SettleDiscarded, SettleChangeSet, Persists, Active, Terminal, OperationRecord
  <2> QED
    BY <2>1, <2>2, <2>3 DEF StageFailed, Validate, PersistCommitting, MarkUnknown
<1>8. ~Active(k)' => k \notin winEdits
  <2>1. CASE StageFailed(k)
    BY <1>0, <2>1 DEF StageFailed, KInv, RecordInv, AloneInv, Alone, Holdings
  <2>2. CASE SettleDiscarded(k)
    BY <1>0, <2>2 DEF SettleDiscarded, KInv, CleanInv, Clean, Holdings
  <2>3. CASE ~Active(k)' => ~Active(k)
    BY <1>0, <2>3 DEF Holdings
  <2>4. CASE Validate(k) \/ PersistCommitting(k) \/ MarkUnknown(k) \/ SettleChangeSet(k)
    <3>1. \/ op'[k].state = op[k].state
          \/ op'[k].state \in {"Validated", "Committing", "Indeterminate"}
      BY <1>0, <2>4 DEF Validate, PersistCommitting, MarkUnknown, SettleChangeSet, SetState,
         Abandons, Persists, OperationRecord
    <3> QED
      BY <2>3, <3>1 DEF Active, Terminal
  <2> QED
    BY <2>1, <2>2, <2>4
<1>9. p \in AfterCommit => Active(k)'
  BY <1>5 DEF AfterCommit, Active
<1> QED
  BY <1>1, <1>2, <1>4, <1>5, <1>6, <1>7, <1>8, <1>9, ControlApply

\* The lock release of a plain commit keeps what is known of the outcome.
LEMMA ControlCommitUnlock ==
  ASSUME Inv, ControlInv, NEW k \in Calls, CommitUnlock(k)
  PROVE  ControlInv'
<1> DEFINE a == Apl(k)
<1>0. DOMAIN outcome = Calls /\ Books(k) /\ Holdings(k)
  BY DEF Inv, Shapes, ControlInv
<1>1. /\ a \in Tasks /\ a[1] = k /\ Cfm(k) \in Tasks /\ Cfm(k) # a
      /\ at[a] = "commitUnlock" /\ at[a] \in SessPcs
  BY TaskFacts DEF CommitUnlock, SessPcs
<1>2. sess[a] \in Sessions
  BY <1>1, OwnSession
<1>3. Mild
  BY <1>2, MildRpc DEF CommitUnlock, TxCommitUnlock, Rpc
<1>4. /\ UNCHANGED <<commitLog, op>> /\ Goes(a, "record")
      /\ \A j \in Calls : j # k => outcome'[j] = outcome[j]
      /\ outcome'[k] \in {"committed", "unknown"}
  BY <1>0 DEF CommitUnlock, recVars
<1>5. at'[a] = "record" /\ \A b \in Tasks : b # a => at'[b] = at[b]
  BY <1>1, <1>4, MovesTo
<1>6. Active(k)' = Active(k) /\ at'[Cfm(k)] = at[Cfm(k)]
  BY <1>1, <1>4, <1>5 DEF Active
<1>7. Books(k)'
  BY <1>0, <1>1, <1>4, <1>5, <1>6 DEF Books
<1>8. Holdings(k)'
  BY <1>0, <1>3, <1>4, <1>6 DEF Holdings, Mild
<1> HIDE DEF a
<1> QED
  BY <1>1, <1>3, <1>4, <1>5, <1>6, <1>7, <1>8, ControlTask

\* The write of the outcome.
LEMMA ControlRecordOutcome ==
  ASSUME Inv, ControlInv, NEW k \in Calls, RecordOutcome(k)
  PROVE  ControlInv'
<1> DEFINE a == Apl(k)
           new == Recorded(op[k], outcome[k])
<1>0. /\ op \in [Calls -> OperationRecord] /\ op[k] \in OperationRecord /\ DOMAIN outcome = Calls
      /\ KInv(k) /\ Books(k) /\ Holdings(k)
  BY DEF Inv, Shapes, ControlInv
<1>1. a \in Tasks /\ a[1] = k /\ Cfm(k) \in Tasks /\ Cfm(k) # a /\ at[a] = "record"
  BY TaskFacts DEF RecordOutcome
<1>2. UNCHANGED devVars /\ commitLog' = commitLog
  BY DEF RecordOutcome
<1>3. Mild
  BY <1>2 DEF Mild, devVars, ControlInv, Claims
<1>4. /\ outcome[k] \in {"committed", "awaiting", "notCommitted", "unknown"}
      /\ outcome[k] = "committed" => commitLog[k] = "plain"
      /\ outcome[k] = "awaiting" => commitLog[k] = "confirmed"
      /\ op[k].deadline = "none"
      /\ ~Active(k) => commitLog[k] = "plain"
      /\ at[Cfm(k)] = "idle"
  BY <1>0, <1>1 DEF KInv, RecordInv, Books, AfterCommit
<1>5. PICK p \in {"idle", "release"} :
        /\ Goes(a, p) \/ Drops(a, p)
        /\ \A j \in Calls : j # k => outcome'[j] = outcome[j]
        /\ \/ op' = op /\ p = "release"
           \/ /\ op' = [op EXCEPT ![k] = new]
              /\ p = "idle" <=> outcome[k] \in {"committed", "awaiting"}
  BY <1>0 DEF RecordOutcome, Abandons
<1>6. at'[a] = p /\ \A b \in Tasks : b # a => at'[b] = at[b]
  BY <1>1, <1>5, MovesTo
<1>7. at'[Cfm(k)] = "idle"
  BY <1>1, <1>4, <1>6
<1>8. /\ \A j \in Calls : j # k => op'[j] = op[j]
      /\ \/ op' = op /\ p = "release"
         \/ p = "idle" /\ commitLog[k] = "plain" /\ op'[k].state = "Committed" /\ op'[k].deadline = "none"
         \/ /\ p = "idle" /\ commitLog[k] = "confirmed" /\ op'[k].state = op[k].state
            /\ op'[k].deadline = "open"
         \/ p = "release" /\ op'[k].state \in {"Failed", "Indeterminate"} /\ op'[k].deadline = "none"
  <2>1. CASE op' = op /\ p = "release"
    BY <2>1
  <2>2. CASE /\ op' = [op EXCEPT ![k] = new]
             /\ p = "idle" <=> outcome[k] \in {"committed", "awaiting"}
    <3> HIDE DEF new
    <3>1. op'[k] = new /\ \A j \in Calls : j # k => op'[j] = op[j]
      BY <1>0, <2>2
    <3>2. CASE outcome[k] = "committed"
      <4>1. new = [op[k] EXCEPT !.state = "Committed", !.lock = FALSE]
        BY <3>2 DEF new, Recorded
      <4> QED
        BY <1>0, <1>4, <2>2, <3>1, <3>2, <4>1 DEF OperationRecord
    <3>3. CASE outcome[k] = "awaiting"
      <4>1. new = [op[k] EXCEPT !.deadline = "open"]
        BY <3>3 DEF new, Recorded
      <4> QED
        BY <1>0, <1>4, <2>2, <3>1, <3>3, <4>1 DEF OperationRecord
    <3>4. CASE outcome[k] = "notCommitted"
      <4>1. new = [op[k] EXCEPT !.state = "Failed"]
        BY <3>4 DEF new, Recorded
      <4> QED
        BY <1>0, <1>4, <1>5, <2>2, <3>1, <3>4, <4>1 DEF OperationRecord
    <3>5. CASE outcome[k] = "unknown"
      <4>1. new = [op[k] EXCEPT !.state = "Indeterminate"]
        BY <3>5 DEF new, Recorded
      <4> QED
        BY <1>0, <1>4, <1>5, <2>2, <3>1, <3>5, <4>1 DEF OperationRecord
    <3> QED
      BY <1>4, <3>2, <3>3, <3>4, <3>5
  <2> QED
    BY <1>5, <2>1, <2>2
<1>9. /\ Active(k)' => Active(k) \/ commitLog[k] = "plain"
      /\ ~Active(k)' => ~Active(k) \/ commitLog[k] = "plain"
      /\ p = "release" => op'[k].deadline = "none" /\ (Active(k)' \/ commitLog[k] = "plain")
  BY <1>4, <1>8 DEF Active, Terminal
<1>10. Books(k)'
  BY <1>1, <1>2, <1>6, <1>7, <1>8, <1>9, <1>4 DEF Books, AfterCommit
<1>11. Holdings(k)'
  BY <1>0, <1>2, <1>3, <1>7, <1>9 DEF Holdings, Mild
<1> HIDE DEF a
<1> QED
  BY <1>1, <1>2, <1>3, <1>5, <1>6, <1>8, <1>9, <1>10, <1>11, ControlTask

\* The loads of stage(): nothing else is in the candidate, and nobody waits for a
\* confirmation.
LEMMA ControlStage ==
  ASSUME Inv, ControlInv, NEW k \in Calls, Stage(k)
  PROVE  ControlInv'
<1> DEFINE a == Apl(k)
           s == sess[a]
<1>0. /\ op \in [Calls -> OperationRecord] /\ DOMAIN outcome = Calls
      /\ KInv(k) /\ Books(k) /\ Holdings(k) /\ Claims
  BY DEF Inv, Shapes, ControlInv
<1>1. a \in Tasks /\ a[1] = k /\ Cfm(k) \in Tasks /\ Cfm(k) # a /\ at[a] = "stage"
  BY TaskFacts DEF Stage
<1>2. /\ op[k].state = "Staging" /\ commitLog[k] = "none" /\ op[k].deadline = "none"
      /\ at[Cfm(k)] = "idle" /\ Active(k)
  BY <1>0, <1>1 DEF KInv, RecordInv, AloneInv, Alone, Active, Terminal
<1>3. UNCHANGED <<commitLog, outcome>>
  BY DEF Stage
<1>4. /\ UNCHANGED <<winBy, winEdits, running>>
      /\ \A j \in Calls : j \in candidate' => j \in candidate \/ (j = k /\ candidate = {})
  <2>1. UNCHANGED devVars \/ (alive[s] /\ DevLoad(s, k))
    BY DEF Stage, TxLoad, Rpc
  <2>2. alive[s] => candidate = {}
    BY <1>0, <1>1 DEF KInv, LockInv
  <2> QED
    BY <2>1, <2>2 DEF devVars, DevLoad
<1>5. PICK p \in {"validate", "unstage", "fail"} :
        /\ Goes(a, p) \/ Drops(a, p)
        /\ op' = op \/ op' = [op EXCEPT ![k].state = "Staged"]
  BY DEF Stage, SetState, recVars
<1>6. at'[a] = p /\ \A b \in Tasks : b # a => at'[b] = at[b]
  BY <1>1, <1>5, MovesTo
<1>7. /\ \A j \in Calls : j # k => op'[j] = op[j]
      /\ op'[k].deadline = "none" /\ op'[k].state \in {"Staging", "Staged"}
  BY <1>0, <1>2, <1>5 DEF OperationRecord
<1>8. \A j \in Calls : Active(j)' = Active(j)
  BY <1>2, <1>7 DEF Active, Terminal
<1>9. \A j \in Calls : Active(j) => commitLog[j] # "confirmed"
  BY <1>0, <1>2 DEF Claims
<1>10. Claims'
  BY <1>0, <1>3, <1>4, <1>8, <1>9 DEF Claims
<1>11. ASSUME NEW j \in Calls PROVE Books(j)' /\ Holdings(j)'
  <2>1. Books(j) /\ Holdings(j)
    BY DEF ControlInv
  <2>2. at'[Cfm(j)] = at[Cfm(j)]
    BY <1>6, TaskFacts
  <2>3. Holdings(j)'
    BY <1>2, <1>3, <1>4, <1>8, <2>1, <2>2 DEF Holdings
  <2>4. CASE j = k
    <3>1. Books(k)'
      BY <1>2, <1>3, <1>6, <1>7, <2>2, <2>4 DEF Books, AfterCommit
    <3> QED
      BY <2>3, <2>4, <3>1
  <2>5. CASE j # k
    <3>1. at'[Apl(j)] = at[Apl(j)]
      BY <1>6, <2>5, TaskFacts
    <3>2. Books(j)'
      BY <1>3, <1>7, <1>8, <2>1, <2>2, <2>5, <3>1 DEF Books
    <3> QED
      BY <2>3, <3>2
  <2> QED
    BY <2>4, <2>5
<1> QED
  BY <1>10, <1>11 DEF ControlInv

\* commit(): the candidate holds the change set alone, and its record is unsettled.
LEMMA ControlCommit ==
  ASSUME Inv, ControlInv, NEW k \in Calls, Commit(k)
  PROVE  ControlInv'
<1> DEFINE a == Apl(k)
           s == sess[a]
<1>0. /\ DOMAIN outcome = Calls /\ DOMAIN commitLog = Calls
      /\ KInv(k) /\ Books(k) /\ Holdings(k) /\ Claims
  BY DEF Inv, Shapes, ControlInv
<1>1. a \in Tasks /\ a[1] = k /\ Cfm(k) \in Tasks /\ Cfm(k) # a /\ at[a] = "commit"
  BY TaskFacts DEF Commit
<1>2. /\ op[k].state = "Committing" /\ commitLog[k] = "none" /\ op[k].deadline = "none"
      /\ at[Cfm(k)] = "idle" /\ Active(k) /\ k \notin winEdits
  BY <1>0, <1>1 DEF KInv, RecordInv, AloneInv, Alone, Active, Terminal, Holdings
<1>3. alive[s] => candidate = {k}
  BY <1>0, <1>1 DEF KInv, LockInv
<1>4. PICK confirmed \in BOOLEAN, reply \in Replies \ {"dropped"} :
        /\ TxCommit(s, k, confirmed, reply)
        /\ outcome' = [outcome EXCEPT ![k] = CommitOutcome(confirmed, reply)]
        /\ Goes(a, CASE reply = "ok" /\ ~confirmed -> "commitUnlock"
                     [] reply = "refused" /\ confirmed -> "release"
                     [] OTHER -> "record")
  BY DEF Commit
<1>5. op' = op /\ \A j \in Calls : j # k => outcome'[j] = outcome[j]
  BY <1>0, <1>4 DEF Commit, recVars
<1>6. /\ \A b \in Tasks : b # a => at'[b] = at[b]
      /\ at'[a] \in {"commitUnlock", "release", "record"}
      /\ at'[a] = "commitUnlock" => reply = "ok" /\ ~confirmed
  BY <1>1, <1>4, MovesTo
<1>7. \/ UNCHANGED <<devVars, commitLog>> /\ reply # "ok"
      \/ DevCommit(s) /\ ~confirmed /\ commitLog' = [commitLog EXCEPT ![k] = "plain"] /\ candidate = {k}
      \/ /\ DevOpenWindow(s, TheDevice) /\ confirmed /\ candidate = {k}
         /\ commitLog' = [commitLog EXCEPT ![k] = "confirmed"]
  <2>1. PICK done \in BOOLEAN :
          /\ done => alive[s]
          /\ reply = "ok" => done
          /\ IF done
             THEN /\ IF confirmed THEN DevCommitNative(s) ELSE DevCommit(s)
                  /\ commitLog' = [commitLog EXCEPT ![k] = IF confirmed THEN "confirmed" ELSE "plain"]
             ELSE UNCHANGED <<devVars, commitLog>>
    BY <1>4 DEF TxCommit, MayHappen
  <2>2. CASE done
    BY <1>3, <2>1, <2>2 DEF DevCommitNative
  <2>3. CASE ~done
    BY <2>1, <2>3
  <2> QED
    BY <2>2, <2>3
<1>8. /\ outcome'[k] = "committed" => reply = "ok" /\ ~confirmed
      /\ outcome'[k] = "awaiting" => reply = "ok" /\ confirmed
  BY <1>0, <1>4 DEF CommitOutcome
<1>9. /\ \A j \in Calls : j # k => commitLog'[j] = commitLog[j]
      /\ reply = "ok" => commitLog'[k] = IF confirmed THEN "confirmed" ELSE "plain"
      /\ commitLog'[k] = "none" => UNCHANGED devVars
      /\ commitLog'[k] = "plain" => winEdits' = {}
  BY <1>0, <1>2, <1>7 DEF DevCommit
<1>10. /\ winBy' \in {NoSession, TheDevice}
       /\ \A j \in Calls : j \in candidate' => j \in candidate /\ UNCHANGED <<devVars, commitLog>>
       /\ \A j \in Calls : j \in winEdits' => j \in running' /\ ((j \in winEdits /\ j # k) \/ (j = k /\ candidate' = {}))
       /\ k \in winEdits' => commitLog'[k] = "confirmed"
  BY <1>0, <1>2, <1>7, <1>9 DEF Claims, DevCommit, DevOpenWindow, devVars, ControlInv, Holdings
<1>11. \A j \in Calls : Active(j)' = Active(j)
  BY <1>5 DEF Active
<1>12. Claims'
  BY <1>0, <1>2, <1>9, <1>10, <1>11 DEF Claims
<1>13. ASSUME NEW j \in Calls PROVE Books(j)' /\ Holdings(j)'
  <2>1. Books(j) /\ Holdings(j)
    BY DEF ControlInv
  <2>2. at'[Cfm(j)] = at[Cfm(j)]
    BY <1>6, TaskFacts
  <2>3. CASE j = k
    <3>1. Books(k)'
      BY <1>1, <1>2, <1>5, <1>6, <1>8, <1>9, <1>11, <2>2, <2>3 DEF Books
    <3>2. Holdings(k)'
      BY <1>2, <1>10, <1>11, <2>1, <2>2, <2>3 DEF Holdings
    <3> QED
      BY <2>3, <3>1, <3>2
  <2>4. CASE j # k
    <3>1. at'[Apl(j)] = at[Apl(j)]
      BY <1>6, <2>4, TaskFacts
    <3>2. Books(j)'
      BY <1>5, <1>9, <1>11, <2>1, <2>2, <2>4, <3>1 DEF Books
    <3>3. Holdings(j)'
      BY <1>9, <1>10, <1>11, <2>1, <2>2, <2>4 DEF Holdings
    <3> QED
      BY <3>2, <3>3
  <2> QED
    BY <2>3, <2>4
<1> QED
  BY <1>12, <1>13 DEF ControlInv

\* The device is left alone.
LEMMA MildStutter ==
  ASSUME ControlInv, UNCHANGED devVars
  PROVE  Mild
BY DEF Mild, devVars, ControlInv, Claims

\* Requests, the records of the confirm and of the sweep, and the recorded deadline.
LEMMA ControlRequests ==
  ASSUME Inv, ControlInv, NEW k \in Calls,
         \/ Request(k) \/ ConfirmRecord(k) \/ SweepWrite(k) \/ DeadlinePasses(k)
  PROVE  ControlInv'
<1>0. /\ op \in [Calls -> OperationRecord] /\ DOMAIN at = Tasks
      /\ KInv(k) /\ Books(k) /\ Holdings(k) /\ Claims
      /\ Apl(k) \in Tasks /\ Cfm(k) \in Tasks /\ Swp(k) \in Tasks
      /\ Apl(k)[1] = k /\ Cfm(k)[1] = k /\ Swp(k)[1] = k
  BY TaskFacts DEF Inv, Shapes, ControlInv
<1>1. UNCHANGED <<devVars, commitLog, outcome>>
  BY DEF Request, CreateChangeSet, ApproveChangeSet, CancelChangeSet, Sets, ApplyChangeSet,
         ConfirmChangeSet, ConfirmRecord, SweepWrite, DeadlinePasses, taskVars
<1>2. Mild
  BY <1>1, MildStutter
<1>3. CASE CreateChangeSet(k) \/ ApproveChangeSet(k) \/ CancelChangeSet(k)
  <2>1. op' = op /\ at' = at
    BY <1>3 DEF CreateChangeSet, ApproveChangeSet, CancelChangeSet, Sets, taskVars
  <2>2. Books(k)' /\ Holdings(k)'
    BY <1>0, <1>1, <1>2, <2>1, MildOther
  <2>3. Active(k)' = Active(k)
    BY <2>1 DEF Active
  <2> QED
    BY <1>0, <1>1, <1>2, <2>1, <2>2, <2>3, ControlTask
<1>4. CASE ApplyChangeSet(k)
  <2>1. csState[k] \in Fresh /\ \A j \in Calls : ~Active(j)
    BY <1>4 DEF ApplyChangeSet, Fresh
  <2>2. Alone(k)
    BY <1>0, <2>1 DEF KInv, AloneInv
  <2>3. at'[Apl(k)] = "open" /\ \A b \in Tasks : b # Apl(k) => at'[b] = at[b]
    BY <1>0, <1>4 DEF ApplyChangeSet, Goes
  <2> DEFINE new == [NoOp EXCEPT !.state = "Staging"]
  <2>4. new.state = "Staging" /\ new.deadline = "none"
    BY DEF NoOp
  <2>5. op' = [op EXCEPT ![k] = new]
    BY <1>4 DEF ApplyChangeSet
  <2> HIDE DEF new
  <2>6. op'[k] = new /\ \A j \in Calls : j # k => op'[j] = op[j]
    BY <1>0, <2>5
  <2>7. \A j \in Calls : j # k => Active(j)' = Active(j)
    BY <2>6 DEF Active
  <2>8. Claims'
    BY <1>1, <1>2, <2>1, <2>2, <2>7, MildClaims DEF Alone
  <2>9. k \notin winEdits
    BY <1>0, <2>1 DEF Holdings
  <2>10. at'[Cfm(k)] = at[Cfm(k)]
    BY <2>3, TaskFacts
  <2>11. Books(k)'
    BY <1>0, <1>1, <2>2, <2>3, <2>4, <2>6, <2>10 DEF Books, Alone, AfterCommit
  <2>12. Holdings(k)'
    BY <1>0, <1>1, <1>2, <2>2, <2>9, <2>10 DEF Holdings, Mild, Alone
  <2>13. ASSUME NEW j \in Calls, j # k PROVE Books(j)' /\ Holdings(j)'
    <3>1. at'[Apl(j)] = at[Apl(j)] /\ at'[Cfm(j)] = at[Cfm(j)]
      BY <2>3, <2>13, TaskFacts
    <3> QED
      BY <1>1, <1>2, <2>6, <2>13, <3>1, MildOther DEF ControlInv
  <2> QED
    BY <2>8, <2>11, <2>12, <2>13 DEF ControlInv
<1>5. CASE ConfirmChangeSet(k)
  <2>1. op' = op /\ op[k].deadline = "open"
    BY <1>5 DEF ConfirmChangeSet, recVars
  <2>2. at'[Cfm(k)] = "open" /\ \A b \in Tasks : b # Cfm(k) => at'[b] = at[b]
    BY <1>0, <1>5 DEF ConfirmChangeSet, Goes
  <2>3. Active(k)' = Active(k) /\ at'[Apl(k)] = at[Apl(k)]
    BY <2>1, <2>2, TaskFacts DEF Active
  <2>4. Books(k)'
    BY <1>0, <1>1, <2>1, <2>2, <2>3 DEF Books
  <2>5. Holdings(k)'
    BY <1>0, <1>1, <1>2, <2>1, <2>2, <2>3 DEF Holdings, Mild
  <2> QED
    BY <1>0, <1>1, <1>2, <2>1, <2>2, <2>3, <2>4, <2>5, ControlTask
<1>6. CASE ConfirmRecord(k)
  <2>1. at[Cfm(k)] = "confirmWrite" /\ k \notin winEdits /\ at[Apl(k)] = "idle"
    BY <1>0, <1>6 DEF ConfirmRecord, Holdings, Books
  <2>2. at'[Cfm(k)] = "idle" /\ \A b \in Tasks : b # Cfm(k) => at'[b] = at[b]
    BY <1>0, <1>6 DEF ConfirmRecord, Goes
  <2>3. /\ \A j \in Calls : j # k => op'[j] = op[j]
        /\ op' = op \/ (op'[k].state = "Committed" /\ op'[k].deadline = "none")
    BY <1>0, <1>6 DEF ConfirmRecord, Persists, OperationRecord
  <2>4. at'[Apl(k)] = "idle" /\ (Active(k)' => Active(k))
    BY <2>1, <2>2, <2>3, TaskFacts DEF Active, Terminal
  <2>5. Books(k)'
    BY <1>0, <1>1, <2>2, <2>3, <2>4 DEF Books, AfterCommit
  <2>6. Holdings(k)'
    BY <1>0, <1>1, <1>2, <2>1, <2>2 DEF Holdings, Mild
  <2> QED
    BY <1>0, <1>1, <1>2, <2>2, <2>3, <2>4, <2>5, <2>6, ControlTask
<1>7. CASE SweepWrite(k)
  <2>1. commitLog[k] = "plain"
    BY <1>0, <1>7 DEF SweepWrite, KInv, CleanInv
  <2>2. \A b \in Tasks : b # Swp(k) => at'[b] = at[b]
    BY <1>0, <1>7 DEF SweepWrite, Goes
  <2>3. /\ \A j \in Calls : j # k => op'[j] = op[j]
        /\ op'[k].deadline = op[k].deadline
    BY <1>0, <1>7 DEF SweepWrite, Persists, settle_from_outcome, OperationRecord
  <2>4. at'[Apl(k)] = at[Apl(k)] /\ at'[Cfm(k)] = at[Cfm(k)]
    BY <2>2, TaskFacts
  <2>5. Books(k)'
    BY <1>0, <1>1, <2>1, <2>3, <2>4 DEF Books
  <2>6. Holdings(k)'
    BY <1>0, <1>1, <1>2, <2>1, <2>4 DEF Holdings, Mild
  <2> QED
    BY <1>0, <1>1, <1>2, <2>1, <2>2, <2>3, <2>5, <2>6, ControlTask
<1>8. CASE DeadlinePasses(k)
  <2>1. at' = at /\ op[k].deadline = "open"
    BY <1>8 DEF DeadlinePasses, taskVars
  <2>2. /\ \A j \in Calls : j # k => op'[j] = op[j]
        /\ op'[k].deadline = "past" /\ op'[k].state = op[k].state
    BY <1>0, <1>8 DEF DeadlinePasses, OperationRecord
  <2>3. Active(k)' = Active(k)
    BY <2>2 DEF Active
  <2>4. Books(k)'
    BY <1>0, <1>1, <2>1, <2>2, <2>3 DEF Books
  <2>5. Holdings(k)'
    BY <1>0, <1>1, <1>2, <2>1, <2>3 DEF Holdings, Mild
  <2> QED
    BY <1>0, <1>1, <1>2, <2>1, <2>2, <2>3, <2>4, <2>5, ControlTask
<1> QED
  BY <1>3, <1>4, <1>5, <1>6, <1>7, <1>8 DEF Request

\* Crash, `state resolve`, start and the list of the sweep.
LEMMA ControlRestart ==
  ASSUME Inv, ControlInv, Crash \/ (\E k \in Calls : StateResolve(k)) \/ Start \/ SweepSnapshot
  PROVE  ControlInv'
<1>0. op \in [Calls -> OperationRecord] /\ DOMAIN at = Tasks /\ Claims
  BY DEF Inv, Shapes, ControlInv
<1>1. UNCHANGED <<devVars, commitLog>>
  BY DEF Crash, StateResolve, Start, SweepSnapshot
<1>2. Mild
  BY <1>1, MildStutter
<1>3. ASSUME \A k \in Calls :
               /\ Active(k)' => Active(k)
               /\ Active(k) /\ ~Active(k)' => k \notin winEdits
               /\ op'[k].deadline = op[k].deadline
               /\ \/ at'[Apl(k)] \in {"idle", "reprobe"}
                  \/ at'[Apl(k)] = at[Apl(k)] /\ outcome'[k] = outcome[k] /\ Active(k)' = Active(k)
               /\ at'[Apl(k)] # "idle" => at[Apl(k)] # "idle"
               /\ at'[Cfm(k)] \in {"idle", "reprobe", at[Cfm(k)]}
               /\ at'[Cfm(k)] # "idle" => at[Cfm(k)] # "idle"
      PROVE  ControlInv'
  <2>1. Claims'
    BY <1>1, <1>2, <1>3, MildClaims
  <2>2. ASSUME NEW k \in Calls PROVE Books(k)' /\ Holdings(k)'
    <3>1. Books(k) /\ Holdings(k)
      BY DEF ControlInv
    <3>2. Books(k)'
      BY <1>1, <1>3, <3>1 DEF Books, AfterCommit
    <3>3. Holdings(k)'
      BY <1>1, <1>2, <1>3, <3>1 DEF Holdings, Mild
    <3> QED
      BY <3>2, <3>3
  <2> QED
    BY <2>1, <2>2 DEF ControlInv
<1>4. \A k \in Calls : Apl(k) \in Tasks /\ Cfm(k) \in Tasks /\ Apl(k)[2] = "apply" /\ Cfm(k)[2] = "confirm"
  BY TaskFacts
<1>5. CASE Crash
  <2>1. op' = op /\ at' = [a \in Tasks |-> "idle"]
    BY <1>5 DEF Crash, recVars
  <2>2. \A k \in Calls : Active(k)' = Active(k) /\ at'[Apl(k)] = "idle" /\ at'[Cfm(k)] = "idle"
    BY <1>4, <2>1 DEF Active
  <2> QED
    BY <1>3, <2>1, <2>2
<1>6. ASSUME NEW k \in Calls, StateResolve(k) PROVE ControlInv'
  <2>1. /\ at' = at /\ outcome' = outcome /\ ~up /\ Active(k)
        /\ \A j \in Calls : at[Apl(j)] = "idle" /\ at[Cfm(j)] = "idle"
    BY <1>4, <1>6 DEF StateResolve, taskVars, Inv, DownInv
  <2>2. PICK st \in Terminal :
          /\ st = "Committed" => k \in running \ winEdits
          /\ st = "Discarded" => k \notin running \cup candidate
          /\ op' = [op EXCEPT ![k].state = st, ![k].lock = FALSE]
    BY <1>6 DEF StateResolve
  <2>3. /\ \A j \in Calls : j # k => op'[j] = op[j]
        /\ op'[k].deadline = op[k].deadline /\ op'[k].state \in Terminal
    BY <1>0, <2>2 DEF OperationRecord
  <2>4. k \notin winEdits
    <3>1. Holdings(k)
      BY DEF ControlInv
    <3> QED
      BY <2>2, <3>1 DEF Terminal, Holdings
  <2>5. \A j \in Calls : /\ Active(j)' => Active(j)
                         /\ j # k => Active(j)' = Active(j)
    BY <2>3 DEF Active
  <2> QED
    BY <1>3, <2>1, <2>3, <2>4, <2>5
<1>7. CASE Start
  <2>1. /\ at' = [a \in Tasks |-> IF a[2] = "sweep" THEN "snapshot" ELSE "idle"]
        /\ \A k \in Calls : op'[k] = IF Active(k) THEN [op[k] EXCEPT !.state = "Indeterminate"] ELSE op[k]
    BY <1>7 DEF Start
  <2>2. \A k \in Calls : at'[Apl(k)] = "idle" /\ at'[Cfm(k)] = "idle"
    BY <1>4, <2>1
  <2>3. \A k \in Calls : Active(k)' = Active(k) /\ op'[k].deadline = op[k].deadline
    BY <1>0, <2>1 DEF Active, Terminal, OperationRecord
  <2> QED
    BY <1>3, <2>2, <2>3
<1>8. CASE SweepSnapshot
  <2>1. op' = op /\ outcome' = outcome
    BY <1>8 DEF SweepSnapshot, recVars
  <2>2. \A a \in Tasks : at'[a] = at[a] \/ (at[a] = "snapshot" /\ at'[a] \in {"idle", "reprobe"})
    BY <1>8 DEF SweepSnapshot
  <2>3. \A k \in Calls : Active(k)' = Active(k)
    BY <2>1 DEF Active
  <2> QED
    BY <1>3, <1>4, <2>1, <2>2, <2>3
<1> QED
  BY <1>5, <1>6, <1>7, <1>8

\* The pool's background tasks, the device's timer and the operators.
LEMMA ControlEnvironment ==
  ASSUME Inv, ControlInv, Environment, UNCHANGED <<commitLog, recVars, taskVars, srvVars>>
  PROVE  ControlInv'
<1>1. UNCHANGED <<commitLog, op, outcome, at>>
  BY DEF recVars, taskVars
<1>2. Mild
  <2>1. ASSUME NEW s \in Sessions, ReturnSession(s) PROVE Mild
    BY <2>1, MildStutter DEF ReturnSession
  <2>2. ASSUME NEW s \in Sessions, CloseSession(s) \/ DeviceEnds(s) \/ SessionDies(s) PROVE Mild
    <3>1. UNCHANGED devVars \/ DevRevert(s) \/ DevEndSession(s)
      BY <2>2 DEF CloseSession, Shut, CloseEffect, DeviceEnds, SessionDies
    <3> QED
      BY <3>1, MildRpc
  <2>3. CASE EvictExpired
    BY <2>3, MildStutter DEF EvictExpired
  <2>4. CASE WindowExpires \/ \E o \in Operators : OperatorEdit(o) \/ OperatorFinish(o)
    BY <2>4, MildWorld
  <2> QED
    BY <2>1, <2>2, <2>3, <2>4 DEF Environment, PoolTasks
<1>3. \A k \in Calls : Active(k)' = Active(k)
  BY <1>1 DEF Active
<1>4. Claims'
  BY <1>1, <1>2, <1>3, MildClaims
<1>5. \A k \in Calls : Books(k)' /\ Holdings(k)'
  BY <1>1, <1>2, MildOther DEF ControlInv
<1> QED
  BY <1>4, <1>5 DEF ControlInv

\* The records, the tasks and the device go together in every reachable state.
LEMMA ControlHolds == Spec => []ControlInv
<1>1. Init => ControlInv
  <2> SUFFICES ASSUME Init PROVE ControlInv
    OBVIOUS
  <2>1. /\ op = [k \in Calls |-> NoOp] /\ at = [a \in Tasks |-> "idle"]
        /\ commitLog = [k \in Calls |-> "none"] /\ candidate = {} /\ winEdits = {} /\ winBy = NoSession
    BY DEF Init, DeviceInit
  <2>2. NoOp.state = "none" /\ NoOp.deadline = "none"
    BY DEF NoOp
  <2>3. \A k \in Calls : at[Apl(k)] = "idle" /\ at[Cfm(k)] = "idle" /\ ~Active(k) /\ op[k].deadline = "none"
    BY <2>1, <2>2, TaskFacts DEF Active
  <2>4. \A k \in Calls : Books(k) /\ Holdings(k)
    BY <2>1, <2>3 DEF Books, Holdings, AfterCommit
  <2>5. Claims
    BY <2>1, <2>3 DEF Claims
  <2> QED
    BY <2>4, <2>5 DEF ControlInv
<1>2. Inv /\ ControlInv /\ [Next]_vars => ControlInv'
  <2> SUFFICES ASSUME Inv, ControlInv, [Next]_vars PROVE ControlInv'
    OBVIOUS
  <2>1. CASE UNCHANGED vars
    <3>1. UNCHANGED <<devVars, commitLog, op, outcome, at>>
      BY <2>1 DEF vars, recVars, taskVars
    <3>2. Mild
      BY <3>1, MildStutter
    <3>3. \A k \in Calls : Active(k)' = Active(k)
      BY <3>1 DEF Active
    <3>4. Claims'
      BY <3>1, <3>2, <3>3, MildClaims
    <3>5. \A k \in Calls : Books(k)' /\ Holdings(k)'
      BY <3>1, <3>2, MildOther DEF ControlInv
    <3> QED
      BY <3>4, <3>5 DEF ControlInv
  <2>2. ASSUME NEW k \in Calls, Request(k) \/ DeadlinePasses(k) PROVE ControlInv'
    BY <2>2, ControlRequests
  <2>3. ASSUME NEW k \in Calls, Step(k) PROVE ControlInv'
    <3>1. ASSUME NEW a \in Tasks, Open(a) \/ Lock(a) \/ Unlock(a) PROVE ControlInv'
      BY <3>1, ControlSessions
    <3>2. CASE \/ CheckFingerprint(k) \/ Unstage(k) \/ Release(k) \/ ReadRecord(k) \/ ReadBack(k)
               \/ ConfirmCommit(k) \/ ConfirmClose(k) \/ Reprobe(k) \/ Reread(k)
      BY <3>2, ControlMoves
    <3>3. CASE \/ StageFailed(k) \/ Validate(k) \/ PersistCommitting(k) \/ MarkUnknown(k)
               \/ SettleDiscarded(k) \/ SettleChangeSet(k)
      BY <3>3, ControlRecords
    <3>4. CASE Stage(k)
      BY <3>4, ControlStage
    <3>5. CASE Commit(k)
      BY <3>5, ControlCommit
    <3>6. CASE CommitUnlock(k)
      BY <3>6, ControlCommitUnlock
    <3>7. CASE RecordOutcome(k)
      BY <3>7, ControlRecordOutcome
    <3>8. CASE ConfirmRecord(k) \/ SweepWrite(k)
      BY <3>8, ControlRequests
    <3> QED
      BY <2>3, <3>1, <3>2, <3>3, <3>4, <3>5, <3>6, <3>7, <3>8 DEF Step
  <2>4. CASE Crash \/ (\E k \in Calls : StateResolve(k)) \/ Start \/ SweepSnapshot
    BY <2>4, ControlRestart
  <2>5. CASE Environment /\ UNCHANGED <<commitLog, recVars, taskVars, srvVars>>
    BY <2>5, ControlEnvironment
  <2> QED
    BY <2>1, <2>2, <2>3, <2>4, <2>5 DEF Next
<1> QED
  BY <1>1, <1>2, ApplyIsExclusive, PTL DEF Spec

-----------------------------------------------------------------------------
(* Every step is a step of ChangeControl, or none *)

PhaseKept == \A k \in Calls : phaseOf(csState[k])' = phaseOf(csState[k])
ClaimsKept == \A k \in Calls : Active(k)' = Active(k)
LiveKept == \A k \in Calls : k \in running' <=> k \in running

\* What a step is to ChangeControl.
Simulates == Control!Next \/ UNCHANGED Control!vars

\* The phase of a change set that was taken up, and of one that was not.
LEMMA Phases ==
  /\ \A st : st \notin Fresh => phaseOf(st) = "taken"
  /\ phaseOf("none") = "none" /\ phaseOf("Planned") = "planned"
  /\ phaseOf("Approved") = "approved" /\ phaseOf("Cancelled") = "cancelled"
BY DEF phaseOf, Fresh

\* A step that changes nothing ChangeControl knows of.
LEMMA SimStutter ==
  ASSUME PhaseKept, ClaimsKept, LiveKept
  PROVE  Simulates
<1>1. [k \in Calls |-> phaseOf(csState[k])]' = [k \in Calls |-> phaseOf(csState[k])]
  BY DEF PhaseKept
<1>2. {k \in Calls : Active(k)}' = {k \in Calls : Active(k)}
  BY DEF ClaimsKept
<1>3. (running \cap Calls)' = running \cap Calls
  BY DEF LiveKept
<1> QED
  BY <1>1, <1>2, <1>3 DEF Simulates, Control!vars

\* A record is settled, or one whose change is live is in doubt again.
LEMMA SimRecord ==
  ASSUME NEW k \in Calls, PhaseKept, LiveKept,
         \A j \in Calls : j # k => Active(j)' = Active(j),
         Active(k)' /\ ~Active(k) => k \in running /\ csState[k] \notin Fresh
  PROVE  Simulates
<1>1. [i \in Calls |-> phaseOf(csState[i])]' = [i \in Calls |-> phaseOf(csState[i])]
  BY DEF PhaseKept
<1>2. (running \cap Calls)' = running \cap Calls
  BY DEF LiveKept
<1>3. CASE Active(k) /\ ~Active(k)'
  <2>1. {i \in Calls : Active(i)}' = {i \in Calls : Active(i)} \ {k}
    BY <1>3
  <2>2. Control!Settle(k)
    BY <1>1, <1>2, <1>3, <2>1 DEF Control!Settle
  <2> QED
    BY <2>2 DEF Simulates, Control!Next
<1>4. CASE ~Active(k) /\ Active(k)'
  <2>1. {i \in Calls : Active(i)}' = {i \in Calls : Active(i)} \cup {k}
    BY <1>4
  <2>2. phaseOf(csState[k]) = "taken" /\ k \in running
    BY <1>4, Phases
  <2>3. Control!Reopen(k)
    BY <1>1, <1>2, <1>4, <2>1, <2>2 DEF Control!Reopen
  <2> QED
    BY <2>3 DEF Simulates, Control!Next
<1>5. CASE Active(k)' <=> Active(k)
  <2>1. ClaimsKept
    BY <1>5 DEF ClaimsKept, Active
  <2> QED
    BY <2>1, SimStutter
<1> QED
  BY <1>3, <1>4, <1>5

\* A change goes live: the one that has the device, or what a settled one left.
LEMMA SimLive ==
  ASSUME NEW k \in Calls, PhaseKept, ClaimsKept,
         \A j \in Calls : j \in running' <=> j \in running \/ j = k,
         \/ Active(k)
         \/ /\ ~Active(k) /\ csState[k] \notin Fresh
            /\ \E j \in Calls : j # k /\ csState[j] \notin Fresh /\ ~Active(j)
  PROVE  Simulates
<1>1. [i \in Calls |-> phaseOf(csState[i])]' = [i \in Calls |-> phaseOf(csState[i])]
  BY DEF PhaseKept
<1>2. {i \in Calls : Active(i)}' = {i \in Calls : Active(i)}
  BY DEF ClaimsKept
<1>3. (running \cap Calls)' = (running \cap Calls) \cup {k}
  OBVIOUS
<1>4. CASE Active(k)
  <2>1. Control!GoLive(k)
    BY <1>1, <1>2, <1>3, <1>4 DEF Control!GoLive
  <2> QED
    BY <2>1 DEF Simulates, Control!Next
<1>5. CASE ~Active(k)
  <2>1. phaseOf(csState[k]) = "taken"
    BY <1>5, Phases
  <2>2. PICK j \in Calls : j # k /\ csState[j] \notin Fresh /\ ~Active(j)
    BY <1>5
  <2>3. phaseOf(csState[j]) = "taken"
    BY <2>2, Phases
  <2>4. Control!Surface(k)
    BY <1>1, <1>2, <1>3, <1>5, <2>1, <2>2, <2>3 DEF Control!Surface
  <2> QED
    BY <2>4 DEF Simulates, Control!Next
<1> QED
  BY <1>4, <1>5

\* The device takes back the change of an open window.
LEMMA SimBack ==
  ASSUME ControlInv, PhaseKept, ClaimsKept, running' = running \ winEdits
  PROVE  Simulates
<1>1. CASE \A k \in Calls : k \notin winEdits
  BY <1>1, SimStutter DEF LiveKept
<1>2. ASSUME NEW k \in Calls, k \in winEdits PROVE Simulates
  <2>1. Active(k) /\ commitLog[k] = "confirmed"
    BY <1>2 DEF ControlInv, Holdings
  <2>2. \A j \in Calls : j \in winEdits => j = k
    BY <1>2, <2>1 DEF ControlInv, Holdings, Claims
  <2>3. (running \cap Calls)' = (running \cap Calls) \ {k}
    BY <1>2, <2>2
  <2>4. [i \in Calls |-> phaseOf(csState[i])]' = [i \in Calls |-> phaseOf(csState[i])]
    BY DEF PhaseKept
  <2>5. {i \in Calls : Active(i)}' = {i \in Calls : Active(i)}
    BY DEF ClaimsKept
  <2>6. Control!TakeBack(k)
    BY <2>1, <2>3, <2>4, <2>5 DEF Control!TakeBack
  <2> QED
    BY <2>6 DEF Simulates, Control!Next
<1> QED
  BY <1>1, <1>2

\* Steps of a task that leave the records and what is live.
LEMMA SimMoves ==
  ASSUME Inv, ControlInv, NEW a \in Tasks, NEW k \in Calls,
         \/ Open(a) \/ Lock(a) \/ Unlock(a)
         \/ CheckFingerprint(k) \/ Unstage(k) \/ Release(k) \/ ReadRecord(k) \/ ReadBack(k)
         \/ CommitUnlock(k) \/ ConfirmClose(k) \/ Reprobe(k) \/ Reread(k)
         \/ ConfirmChangeSet(k) \/ DeadlinePasses(k)
  PROVE  Simulates
<1>0. op \in [Calls -> OperationRecord]
  BY DEF Inv, Shapes
<1>1. csState' = csState /\ \A j \in Calls : op'[j].state = op[j].state
  <2>1. CASE op' = op /\ csState' = csState
    BY <2>1
  <2>2. CASE Lock(a)
    BY <1>0, <2>2, TaskFacts DEF Lock, OperationRecord
  <2>3. CASE DeadlinePasses(k)
    BY <1>0, <2>3 DEF DeadlinePasses, OperationRecord
  <2> QED
    BY <2>1, <2>2, <2>3 DEF Open, Unlock, CheckFingerprint, Unstage, Release, ReadRecord, ReadBack,
       CommitUnlock, ConfirmClose, Reprobe, Reread, ConfirmChangeSet, recVars
<1>2. running' = running
  <2>1. CASE Open(a) \/ Lock(a) \/ Unlock(a)
    BY <2>1 DEF Open, OpenSession, Lock, TxLock, Unlock, TxUnlock, Rpc, DevLock, DevUnlock, devVars
  <2>2. CASE Unstage(k) \/ Release(k) \/ CommitUnlock(k) \/ ConfirmClose(k)
    BY <2>2 DEF Unstage, TxUnstage, Release, TxRelease, ConfirmClose, TxConfirmClose, Shut,
       CloseEffect, DevRevert, CommitUnlock, TxCommitUnlock, Rpc, DevUnlock, devVars
  <2>3. CASE UNCHANGED devVars
    BY <2>3 DEF devVars
  <2> QED
    BY <2>1, <2>2, <2>3 DEF CheckFingerprint, ReadRecord, ReadBack, Reprobe, Reread,
       ConfirmChangeSet, DeadlinePasses, ReadRpc
<1>3. PhaseKept /\ ClaimsKept /\ LiveKept
  BY <1>1, <1>2 DEF PhaseKept, ClaimsKept, LiveKept, Active
<1> QED
  BY <1>3, SimStutter

\* Steps that write one record.
LEMMA SimRecords ==
  ASSUME Inv, ControlInv, NEW k \in Calls,
         \/ StageFailed(k) \/ Validate(k) \/ PersistCommitting(k) \/ RecordOutcome(k)
         \/ MarkUnknown(k) \/ SettleDiscarded(k) \/ SettleChangeSet(k) \/ Stage(k)
         \/ ConfirmRecord(k) \/ SweepWrite(k) \/ StateResolve(k)
  PROVE  Simulates
<1>0. /\ op \in [Calls -> OperationRecord] /\ DOMAIN csState = Calls /\ KInv(k) /\ Books(k)
      /\ Apl(k) \in Tasks
  BY TaskFacts DEF Inv, Shapes, ControlInv
<1>1. running' = running
  <2>1. UNCHANGED devVars \/ DevLoad(sess[Apl(k)], k)
    BY DEF StageFailed, Validate, PersistCommitting, RecordOutcome, MarkUnknown, SettleDiscarded,
           SettleChangeSet, Stage, ConfirmRecord, SweepWrite, StateResolve, ReadRpc, TxLoad, Rpc
  <2> QED
    BY <2>1 DEF devVars, DevLoad
<1>2. \A j \in Calls : j # k => op'[j] = op[j] /\ csState'[j] = csState[j]
  <2>1. CASE StageFailed(k) \/ Validate(k) \/ PersistCommitting(k) \/ RecordOutcome(k)
    BY <1>0, <2>1 DEF StageFailed, Validate, PersistCommitting, RecordOutcome, SetState, Abandons
  <2>2. CASE MarkUnknown(k) \/ SettleDiscarded(k) \/ SettleChangeSet(k) \/ Stage(k)
    BY <1>0, <2>2 DEF MarkUnknown, SettleDiscarded, SettleChangeSet, Stage, Persists, SetState, recVars
  <2>3. CASE ConfirmRecord(k) \/ SweepWrite(k) \/ StateResolve(k)
    BY <1>0, <2>3 DEF ConfirmRecord, SweepWrite, StateResolve, Persists
  <2> QED
    BY <2>1, <2>2, <2>3
<1>3. csState'[k] = csState[k] \/ (at[Apl(k)] # "idle" /\ csState'[k] \in {"Failed", "Applied"})
  BY <1>0 DEF StageFailed, Validate, PersistCommitting, RecordOutcome, MarkUnknown, SettleDiscarded,
     SettleChangeSet, Stage, ConfirmRecord, SweepWrite, StateResolve, Persists, recVars
<1>4. PhaseKept
  <2>1. at[Apl(k)] # "idle" => csState[k] \notin Fresh
    BY <1>0 DEF KInv, AloneInv
  <2>2. csState'[k] = csState[k] \/ (csState[k] \notin Fresh /\ csState'[k] \notin Fresh)
    BY <1>3, <2>1 DEF Fresh
  <2>3. phaseOf(csState[k])' = phaseOf(csState[k])
    BY <2>2, Phases
  <2> QED
    BY <1>2, <2>3 DEF PhaseKept
<1>5. Active(k)' /\ ~Active(k) => k \in running /\ csState[k] \notin Fresh
  <2>1. CASE StageFailed(k) \/ Validate(k) \/ PersistCommitting(k) \/ Stage(k)
    BY <1>0, <2>1 DEF StageFailed, Validate, PersistCommitting, Stage, KInv, RecordInv, Active, Terminal
  <2>2. CASE RecordOutcome(k) \/ MarkUnknown(k)
    <3>1. at[Apl(k)] \in AfterCommit /\ at[Apl(k)] # "idle"
      BY <2>2 DEF RecordOutcome, MarkUnknown, AfterCommit
    <3>2. ~Active(k) => commitLog[k] = "plain"
      BY <1>0, <3>1 DEF Books
    <3> QED
      BY <1>0, <3>1, <3>2 DEF KInv, CleanInv, Permanent, AloneInv
  <2>3. CASE SettleDiscarded(k) \/ SettleChangeSet(k)
    BY <1>0, <2>3 DEF SettleDiscarded, SettleChangeSet, Persists, Active, Terminal, OperationRecord
  <2>4. CASE ConfirmRecord(k) \/ SweepWrite(k)
    BY <1>0, <2>4 DEF ConfirmRecord, SweepWrite, settle_from_outcome, Persists, Active, Terminal,
                      OperationRecord
  <2>5. CASE StateResolve(k)
    BY <2>5 DEF StateResolve
  <2> QED
    BY <2>1, <2>2, <2>3, <2>4, <2>5
<1>6. LiveKept /\ \A j \in Calls : j # k => Active(j)' = Active(j)
  BY <1>1, <1>2 DEF LiveKept, Active
<1> QED
  BY <1>4, <1>5, <1>6, SimRecord

\* Planning, and the claim of the device.
LEMMA SimRequests ==
  ASSUME Inv, NEW k \in Calls,
         CreateChangeSet(k) \/ ApproveChangeSet(k) \/ CancelChangeSet(k) \/ ApplyChangeSet(k)
  PROVE  Simulates
<1> DEFINE phase == [i \in Calls |-> phaseOf(csState[i])]
           claim == {i \in Calls : Active(i)}
<1>0. op \in [Calls -> OperationRecord] /\ DOMAIN csState = Calls
  BY DEF Inv, Shapes
<1>1. (running \cap Calls)' = running \cap Calls
  BY DEF CreateChangeSet, ApproveChangeSet, CancelChangeSet, Sets, ApplyChangeSet, devVars
<1>2. \A to : csState' = [csState EXCEPT ![k] = to] => phase' = [phase EXCEPT ![k] = phaseOf(to)]
  BY <1>0
<1>3. phase[k] = phaseOf(csState[k])
  OBVIOUS
<1>4. CASE CreateChangeSet(k) \/ ApproveChangeSet(k) \/ CancelChangeSet(k)
  <2>1. claim' = claim
    BY <1>4 DEF CreateChangeSet, ApproveChangeSet, CancelChangeSet, Sets, Active
  <2>2. CASE CreateChangeSet(k)
    <3>1. csState[k] = "none" /\ csState' = [csState EXCEPT ![k] = "Planned"]
      BY <2>2 DEF CreateChangeSet, Sets
    <3>2. phase[k] = "none" /\ phase' = [phase EXCEPT ![k] = "planned"]
      BY <1>2, <1>3, <3>1, Phases
    <3>3. Control!Plan(k)
      BY <1>1, <2>1, <3>2 DEF Control!Plan, Control!Moves
    <3> QED
      BY <3>3 DEF Simulates, Control!Next
  <2>3. CASE ApproveChangeSet(k)
    <3>1. csState[k] = "Planned" /\ csState' = [csState EXCEPT ![k] = "Approved"]
      BY <2>3 DEF ApproveChangeSet, Sets
    <3>2. phase[k] = "planned" /\ phase' = [phase EXCEPT ![k] = "approved"]
      BY <1>2, <1>3, <3>1, Phases
    <3>3. Control!Approve(k)
      BY <1>1, <2>1, <3>2 DEF Control!Approve, Control!Moves
    <3> QED
      BY <3>3 DEF Simulates, Control!Next
  <2>4. CASE CancelChangeSet(k)
    <3>1. csState[k] \in {"Planned", "Approved"} /\ csState' = [csState EXCEPT ![k] = "Cancelled"]
      BY <2>4 DEF CancelChangeSet, Sets
    <3>2. phase[k] \in {"planned", "approved"} /\ phase' = [phase EXCEPT ![k] = "cancelled"]
      BY <1>2, <1>3, <3>1, Phases
    <3>3. Control!Cancel(k)
      BY <1>1, <2>1, <3>2 DEF Control!Cancel, Control!Moves
    <3> QED
      BY <3>3 DEF Simulates, Control!Next
  <2> QED
    BY <1>4, <2>2, <2>3, <2>4
<1>5. CASE ApplyChangeSet(k)
  <2>1. csState[k] = "Approved" /\ csState' = [csState EXCEPT ![k] = "Applying"] /\ claim = {}
    BY <1>5 DEF ApplyChangeSet
  <2>2. phase[k] = "approved" /\ phase' = [phase EXCEPT ![k] = "taken"]
    <3>1. phaseOf("Applying") = "taken" /\ phaseOf("Approved") = "approved"
      BY Phases DEF Fresh
    <3>2. phase' = [phase EXCEPT ![k] = phaseOf("Applying")]
      BY <1>2, <2>1
    <3> QED
      BY <1>3, <2>1, <3>1, <3>2
  <2> DEFINE new == [NoOp EXCEPT !.state = "Staging"]
  <2>3. op' = [op EXCEPT ![k] = new] /\ new.state = "Staging"
    BY <1>5 DEF ApplyChangeSet, NoOp
  <2> HIDE DEF new
  <2>4. op'[k].state = "Staging" /\ \A j \in Calls : j # k => op'[j] = op[j]
    BY <1>0, <2>3
  <2>5. claim' = {k}
    BY <2>1, <2>4 DEF Active, Terminal
  <2>6. Control!TakeUp(k)
    BY <1>1, <2>1, <2>2, <2>5 DEF Control!TakeUp, Control!Moves
  <2> QED
    BY <2>6 DEF Simulates, Control!Next
<1> QED
  BY <1>4, <1>5

\* The commit of an apply: its own change goes live, or nothing happens.
LEMMA SimCommit ==
  ASSUME Inv, NEW k \in Calls, Commit(k)
  PROVE  Simulates
<1>0. KInv(k)
  BY DEF Inv
<1>1. at[Apl(k)] = "commit" /\ UNCHANGED recVars
  BY DEF Commit
<1>2. Active(k)
  BY <1>0, <1>1 DEF KInv, RecordInv, Active, Terminal
<1>3. PhaseKept /\ ClaimsKept
  BY <1>1 DEF PhaseKept, ClaimsKept, Active, recVars
<1>4. running' = running \/ (alive[sess[Apl(k)]] /\ running' = running \cup candidate)
  BY DEF Commit, TxCommit, MayHappen, DevCommit, DevCommitNative, DevOpenWindow, devVars
<1>5. running' = running \/ running' = running \cup {k}
  BY <1>0, <1>1, <1>4 DEF KInv, LockInv
<1>6. CASE running' = running
  BY <1>3, <1>6, SimStutter DEF LiveKept
<1>7. CASE running' = running \cup {k}
  <2>1. \A j \in Calls : j \in running' <=> j \in running \/ j = k
    BY <1>7
  <2> QED
    BY <1>2, <1>3, <2>1, SimLive
<1> QED
  BY <1>5, <1>6, <1>7

\* A confirming commit takes no lock: what it finds in the candidate is the change
\* that has the device, or what a failed change left, and then the confirmation is
\* late and its own change settled.
LEMMA SimConfirmCommit ==
  ASSUME Inv, ControlInv, NEW j \in Calls, ConfirmCommit(j)
  PROVE  Simulates
<1>1. at[Cfm(j)] = "confirm" /\ UNCHANGED recVars
  BY DEF ConfirmCommit
<1>2. PhaseKept /\ ClaimsKept
  BY <1>1 DEF PhaseKept, ClaimsKept, Active, recVars
<1>3. running' = running \/ running' = running \cup candidate
  BY DEF ConfirmCommit, TxConfirmCommit, Rpc, DevCommit, devVars
<1>4. commitLog[j] = "confirmed" /\ j \notin candidate
  BY <1>1 DEF ControlInv, Books, Holdings
<1>5. CASE LiveKept
  BY <1>2, <1>5, SimStutter
<1>6. CASE ~LiveKept
  <2>1. PICK k \in Calls : k \in candidate
    BY <1>3, <1>6 DEF LiveKept
  <2>2. \A i \in Calls : i \in running' <=> i \in running \/ i = k
    <3>1. running' = running \cup candidate
      BY <1>3, <1>6 DEF LiveKept
    <3>2. \A i \in Calls : i \in candidate <=> i = k
      BY <2>1 DEF ControlInv, Claims
    <3> QED
      BY <3>1, <3>2
  <2>3. csState[k] \notin Fresh
    BY <2>1 DEF Inv, KInv, AloneInv, Clean
  <2>4. csState[j] \notin Fresh
    BY <1>1 DEF Inv, KInv, AloneInv, Alone
  <2>5. ~Active(j) /\ j # k
    BY <1>4, <2>1 DEF ControlInv, Claims
  <2> QED
    BY <1>2, <2>2, <2>3, <2>4, <2>5, SimLive
<1> QED
  BY <1>5, <1>6

\* The crash, the restart and the snapshot of the sweep.
LEMMA SimRestart ==
  ASSUME Inv, Crash \/ Start \/ SweepSnapshot
  PROVE  Simulates
<1>0. op \in [Calls -> OperationRecord] /\ DOMAIN csState = Calls
  BY DEF Inv, Shapes
<1>1. LiveKept
  BY DEF Crash, Start, SweepSnapshot, LiveKept, devVars
<1>2. CASE Crash \/ SweepSnapshot
  <2>1. UNCHANGED recVars
    BY <1>2 DEF Crash, SweepSnapshot
  <2>2. PhaseKept /\ ClaimsKept
    BY <2>1 DEF PhaseKept, ClaimsKept, Active, recVars
  <2> QED
    BY <1>1, <2>2, SimStutter
<1>3. CASE Start
  <2>1. PhaseKept
    <3>1. ASSUME NEW k \in Calls PROVE phaseOf(csState[k])' = phaseOf(csState[k])
      <4>1. csState'[k] = csState[k] \/ (csState[k] = "Applying" /\ csState'[k] = "Failed")
        BY <1>0, <1>3 DEF Start
      <4>2. phaseOf("Applying") = phaseOf("Failed")
        BY Phases DEF Fresh
      <4> QED
        BY <4>1, <4>2
    <3> QED
      BY <3>1 DEF PhaseKept
  <2>2. ClaimsKept
    <3>1. ASSUME NEW k \in Calls PROVE Active(k)' = Active(k)
      <4>1. CASE Active(k)
        <5>1. op'[k].state = "Indeterminate"
          BY <1>0, <1>3, <4>1 DEF Start, OperationRecord
        <5> QED
          BY <4>1, <5>1 DEF Active, Terminal
      <4>2. CASE ~Active(k)
        <5>1. op'[k] = op[k]
          BY <1>3, <4>2 DEF Start
        <5> QED
          BY <5>1 DEF Active
      <4> QED
        BY <4>1, <4>2
    <3> QED
      BY <3>1 DEF ClaimsKept
  <2> QED
    BY <1>1, <2>1, <2>2, SimStutter
<1> QED
  BY <1>2, <1>3

\* The pool and the device, where no operator works on it beside the server.
LEMMA SimEnvironment ==
  ASSUME Operators = {}, ControlInv, Environment,
         UNCHANGED <<commitLog, recVars, taskVars, srvVars>>
  PROVE  Simulates
<1>1. PhaseKept /\ ClaimsKept
  BY DEF PhaseKept, ClaimsKept, Active, recVars
<1>2. CASE PoolTasks
  <2>1. winBy \notin Sessions
    BY DeviceAssumption DEF ControlInv, Claims
  <2>2. UNCHANGED devVars \/ \E s \in Sessions : DevRevert(s) \/ DevEndSession(s)
    BY <1>2 DEF PoolTasks, EvictExpired, ReturnSession, CloseSession, Shut, CloseEffect, DeviceEnds,
                SessionDies
  <2>3. running' = running
    BY <2>1, <2>2 DEF devVars, DevRevert, DevEndSession
  <2> QED
    BY <1>1, <2>3, SimStutter DEF LiveKept
<1>3. CASE WindowExpires
  <2>1. running' = running \ winEdits
    BY <1>3 DEF WindowExpires
  <2> QED
    BY <1>1, <2>1, SimBack
<1> QED
  BY <1>2, <1>3 DEF Environment

\* On a device that only the server configures, the change sets implement
\* ChangeControl for any number of change sets, sessions and crashes, with every
\* reply lost, every write of a record failed and every confirmation late: an
\* approval is spent once, on a device no other change has, and what a settled
\* change did is undone by nobody.  (With operators the candidate they commit may
\* hold what a failed change left, and the statement is false.)
THEOREM ChangeSetsImplementControl ==
  ASSUME Operators = {}
  PROVE  Spec => ImplementsChangeControl
<1>1. Init => Control!Init
  <2> SUFFICES ASSUME Init PROVE Control!Init
    OBVIOUS
  <2>1. op = [k \in Calls |-> NoOp] /\ csState = [k \in Calls |-> "none"] /\ running = {}
    BY DEF Init, DeviceInit
  <2>2. NoOp.state = "none" /\ phaseOf("none") = "none"
    BY Phases DEF NoOp
  <2>3. \A k \in Calls : ~Active(k) /\ phaseOf(csState[k]) = "none"
    BY <2>1, <2>2 DEF Active
  <2> QED
    BY <2>1, <2>3 DEF Control!Init
<1>2. Inv /\ ControlInv /\ [Next]_vars => [Control!Next]_(Control!vars)
  <2> SUFFICES ASSUME Inv, ControlInv, [Next]_vars PROVE Simulates
    BY DEF Simulates
  <2>1. CASE UNCHANGED vars
    <3>1. UNCHANGED <<running, csState, op>>
      BY <2>1 DEF vars, devVars, recVars
    <3>2. PhaseKept /\ ClaimsKept /\ LiveKept
      BY <3>1 DEF PhaseKept, ClaimsKept, LiveKept, Active
    <3> QED
      BY <3>2, SimStutter
  <2>2. ASSUME NEW k \in Calls, Request(k) \/ DeadlinePasses(k) \/ StateResolve(k) PROVE Simulates
    <3>1. Apl(k) \in Tasks
      BY TaskFacts
    <3>2. CASE ConfirmChangeSet(k) \/ DeadlinePasses(k)
      BY <3>1, <3>2, SimMoves
    <3>3. CASE StateResolve(k)
      BY <3>3, SimRecords
    <3>4. CASE CreateChangeSet(k) \/ ApproveChangeSet(k) \/ CancelChangeSet(k) \/ ApplyChangeSet(k)
      BY <3>4, SimRequests
    <3> QED
      BY <2>2, <3>2, <3>3, <3>4 DEF Request
  <2>3. ASSUME NEW k \in Calls, Step(k) PROVE Simulates
    <3>1. ASSUME NEW a \in Tasks, Open(a) \/ Lock(a) \/ Unlock(a) PROVE Simulates
      BY <3>1, SimMoves
    <3>2. CASE \/ CheckFingerprint(k) \/ Unstage(k) \/ Release(k) \/ ReadRecord(k) \/ ReadBack(k)
               \/ CommitUnlock(k) \/ ConfirmClose(k) \/ Reprobe(k) \/ Reread(k)
      <4>1. Apl(k) \in Tasks
        BY TaskFacts
      <4> QED
        BY <3>2, <4>1, SimMoves
    <3>3. CASE \/ StageFailed(k) \/ Validate(k) \/ PersistCommitting(k) \/ RecordOutcome(k)
               \/ MarkUnknown(k) \/ SettleDiscarded(k) \/ SettleChangeSet(k) \/ Stage(k)
               \/ ConfirmRecord(k) \/ SweepWrite(k)
      BY <3>3, SimRecords
    <3>4. CASE Commit(k)
      BY <3>4, SimCommit
    <3>5. CASE ConfirmCommit(k)
      BY <3>5, SimConfirmCommit
    <3> QED
      BY <2>3, <3>1, <3>2, <3>3, <3>4, <3>5 DEF Step
  <2>4. CASE Crash \/ Start \/ SweepSnapshot
    BY <2>4, SimRestart
  <2>5. CASE Environment /\ UNCHANGED <<commitLog, recVars, taskVars, srvVars>>
    BY <2>5, SimEnvironment
  <2> QED
    BY <2>1, <2>2, <2>3, <2>4, <2>5 DEF Next
<1> QED
  BY <1>1, <1>2, ApplyIsExclusive, ControlHolds, PTL DEF Spec, ImplementsChangeControl, Control!Spec

-----------------------------------------------------------------------------
(* The sweep clears a lock flag only when the lock is free *)

\* Where an apply has nothing more to do with the device or its record; where a
\* cleanup whose record is Indeterminate may be; and the probe of the sweep.
Done == {"idle", "settleSet"}
Cleaning == {"idle", "release", "readRecord", "markUnknown", "settleSet"}
Probing == {"open", "lock", "sweepUnlock", "sweepFree", "sweepWrite"}
Resting == {"idle", "snapshot"}

\* Until the sweep has taken its list, an apply that is under way has the only
\* unsettled record: the load left none but Indeterminate ones, which refuse an apply.
SnapshotInv ==
  (\E k \in Calls : at[Swp(k)] = "snapshot") =>
    /\ \A k \in Calls : at[Swp(k)] = "snapshot"
    /\ \A j \in Calls : at[Apl(j)] \notin Done => Active(j) /\ \A i \in Calls \ {j} : ~Active(i)

\* While a record the sweep has on its list is unsettled, no other apply is under way.
ApartInv ==
  \A k \in Calls : at[Swp(k)] \notin Resting /\ Active(k) =>
    \A j \in Calls \ {k} : at[Apl(j)] \in Done

\* A lock that is taken again after a probe found it free was taken by another probe,
\* whose record still says so.
FreeInv ==
  (\E k \in Calls : at[Swp(k)] = "sweepFree") /\ lockHolder # NoSession =>
    \E i \in Calls : at[Swp(i)] # "sweepFree" /\ op[i].lock

\* How the record of a change set goes with its apply and with its sweep.
Swept(k) ==
  /\ op[k].state = "Indeterminate" =>
       /\ at[Apl(k)] \in Cleaning
       /\ at[Apl(k)] \in {"release", "readRecord"} => outcome[k] = "unknown"
  /\ at[Apl(k)] \in {"fingerprint", "stage", "validate", "precommit"} => op[k].lock
  /\ at[Apl(k)] \in {"commitUnlock", "record"} => op[k].state = "Committing"
  /\ Active(k) /\ op[k].attr => op[k].lock
  /\ at[Swp(k)] \in Probing => op[k].state = "Indeterminate" /\ op[k].attr
  /\ at[Swp(k)] \notin Resting /\ at[Apl(k)] # "idle" => op[k].state = "Indeterminate"
  /\ at[Cfm(k)] \in {"idle", "open", "confirm", "closeGood", "closeBad", "confirmWrite"}
  /\ at[Swp(k)] \in {"idle", "snapshot", "reprobe", "reread"} \cup Probing

SweepInv == SnapshotInv /\ ApartInv /\ FreeInv /\ \A k \in Calls : Swept(k)

\* Only change set k is concerned.
Frame(k) ==
  \A j \in Calls \ {k} :
    /\ op'[j] = op[j] /\ outcome'[j] = outcome[j]
    /\ at'[Apl(j)] = at[Apl(j)] /\ at'[Cfm(j)] = at[Cfm(j)] /\ at'[Swp(j)] = at[Swp(j)]

\* A change set whose record and tasks do not change.
LEMMA SweptSame ==
  ASSUME NEW k \in Calls, Swept(k), op'[k] = op[k], outcome'[k] = outcome[k],
         at'[Apl(k)] = at[Apl(k)], at'[Cfm(k)] = at[Cfm(k)], at'[Swp(k)] = at[Swp(k)]
  PROVE  Swept(k)' /\ Active(k)' = Active(k)
BY DEF Swept, Active

\* A step of task a concerns only its change set, and of that only the one task.
LEMMA TaskFrame ==
  ASSUME NEW a \in Tasks, \A b \in Tasks : b # a => at'[b] = at[b],
         \A j \in Calls : j # a[1] => op'[j] = op[j] /\ outcome'[j] = outcome[j]
  PROVE  Frame(a[1])
BY TaskFacts DEF Frame

\* What a step of change set k must respect for the applies and the sweep to stay apart.
Respects(k) ==
  /\ Swept(k)'
  /\ at'[Apl(k)] \in Done \/ at[Apl(k)] \notin Done
  /\ at'[Swp(k)] = "snapshot" <=> at[Swp(k)] = "snapshot"
  /\ at'[Swp(k)] \in Resting \/ at[Swp(k)] \notin Resting
  /\ Active(k)' => Active(k) \/ (at[Apl(k)] \notin Done /\ at[Swp(k)] \in Resting)
  /\ ~Active(k)' => ~Active(k) \/ at'[Apl(k)] \in Done \/ at[Swp(k)] # "snapshot"

\* A step that concerns one change set keeps the applies and the sweep apart.
LEMMA RespectKeeps ==
  ASSUME SweepInv, NEW k \in Calls, Frame(k), Respects(k)
  PROVE  SnapshotInv' /\ ApartInv' /\ \A j \in Calls : Swept(j)'
<1>1. \A j \in Calls : j # k => Swept(j)' /\ Active(j)' = Active(j)
  BY SweptSame DEF SweepInv, Frame
<1>2. \A j \in Calls : Swept(j)'
  BY <1>1 DEF Respects
<1>3. ApartInv'
  <2> SUFFICES ASSUME NEW j \in Calls, at'[Swp(j)] \notin Resting, Active(j)',
                      NEW i \in Calls \ {j}
               PROVE  at'[Apl(i)] \in Done
    BY DEF ApartInv
  <2>1. at[Swp(j)] \notin Resting /\ Active(j)
    BY <1>1 DEF Respects, Frame
  <2>2. at[Apl(i)] \in Done
    BY <2>1 DEF SweepInv, ApartInv
  <2> QED
    BY <2>2 DEF Respects, Frame
<1>4. SnapshotInv'
  <2> SUFFICES ASSUME NEW m \in Calls, at'[Swp(m)] = "snapshot"
               PROVE  /\ \A j \in Calls : at'[Swp(j)] = "snapshot"
                      /\ \A j \in Calls : at'[Apl(j)] \notin Done =>
                           Active(j)' /\ \A i \in Calls \ {j} : ~Active(i)'
    BY DEF SnapshotInv
  <2>1. \A j \in Calls : at'[Swp(j)] = "snapshot" <=> at[Swp(j)] = "snapshot"
    BY DEF Respects, Frame
  <2>2. /\ \A j \in Calls : at[Swp(j)] = "snapshot"
        /\ \A j \in Calls : at[Apl(j)] \notin Done => Active(j) /\ \A i \in Calls \ {j} : ~Active(i)
    BY <2>1 DEF SweepInv, SnapshotInv
  <2>3. ASSUME NEW j \in Calls, at'[Apl(j)] \notin Done
        PROVE  Active(j)' /\ \A i \in Calls \ {j} : ~Active(i)'
    <3>1. at[Apl(j)] \notin Done
      BY <2>3 DEF Respects, Frame
    <3>2. Active(j) /\ \A i \in Calls \ {j} : ~Active(i)
      BY <2>2, <3>1
    <3>3. at[Apl(k)] \notin Done => Active(k)
      BY <2>2
    <3>4. Active(j)'
      BY <1>1, <2>2, <2>3, <3>2 DEF Respects
    <3>5. \A i \in Calls \ {j} : ~Active(i)'
      BY <1>1, <3>2, <3>3 DEF Respects
    <3> QED
      BY <3>4, <3>5
  <2> QED
    BY <2>1, <2>2, <2>3
<1> QED
  BY <1>2, <1>3, <1>4

\* No apply is at work on the device while a probe has found the lock free.
LEMMA FreeMeansClean ==
  ASSUME SweepInv, NEW k \in Calls, at[Swp(k)] \in Probing
  PROVE  \A j \in Calls : at[Apl(j)] \in Cleaning /\ (j # k => at[Apl(j)] \in Done)
<1>1. op[k].state = "Indeterminate" /\ at[Apl(k)] \in Cleaning
  BY DEF SweepInv, Swept
<1>2. Active(k) /\ at[Swp(k)] \notin Resting
  BY <1>1 DEF Active, Terminal, Probing, Resting
<1>3. \A j \in Calls : j # k => at[Apl(j)] \in Done
  BY <1>2 DEF SweepInv, ApartInv
<1> QED
  BY <1>1, <1>3 DEF Done, Cleaning

\* A step of change set k that takes no lock.
LEMMA FreeKept ==
  ASSUME SweepInv, NEW k \in Calls, Frame(k), lockHolder' \in {lockHolder, NoSession},
         at'[Swp(k)] = "sweepFree" => at[Swp(k)] = "sweepFree" \/ lockHolder' = NoSession,
         op[k].lock => op'[k].lock \/ at[Swp(k)] = "sweepFree" \/ at[Apl(k)] \notin Cleaning
  PROVE  FreeInv'
<1> SUFFICES ASSUME NEW j \in Calls, at'[Swp(j)] = "sweepFree", lockHolder' # NoSession
             PROVE  \E i \in Calls : at'[Swp(i)] # "sweepFree" /\ op'[i].lock
  BY DEF FreeInv
<1>1. lockHolder # NoSession /\ at[Swp(j)] = "sweepFree"
  BY DEF Frame
<1>2. PICK i \in Calls : at[Swp(i)] # "sweepFree" /\ op[i].lock
  BY <1>1 DEF SweepInv, FreeInv
<1>3. at[Apl(k)] \in Cleaning
  BY <1>1, FreeMeansClean DEF Probing
<1>4. at'[Swp(i)] # "sweepFree" /\ op'[i].lock
  BY <1>2, <1>3 DEF Frame
<1> QED
  BY <1>4

\* A step of the apply of k that takes no lock.
LEMMA ApplyKeeps ==
  ASSUME SweepInv, NEW k \in Calls, NEW p, at[Apl(k)] # "idle",
         at'[Apl(k)] = p, \A b \in Tasks : b # Apl(k) => at'[b] = at[b],
         \A j \in Calls : j # k => op'[j] = op[j] /\ outcome'[j] = outcome[j],
         lockHolder' \in {lockHolder, NoSession},
         p \in Done \/ at[Apl(k)] \notin Done,
         Active(k)' => Active(k) \/ at[Apl(k)] \notin Done,
         ~Active(k)' => ~Active(k) \/ p \in Done,
         op'[k].state = "Indeterminate" =>
           p \in Cleaning /\ (p \in {"release", "readRecord"} => outcome'[k] = "unknown"),
         p \in {"fingerprint", "stage", "validate", "precommit"} => op'[k].lock,
         p \in {"commitUnlock", "record"} => op'[k].state = "Committing",
         Active(k)' /\ op'[k].attr => op'[k].lock,
         op[k].state = "Indeterminate" =>
           op'[k].state = "Indeterminate" /\ (op[k].attr => op'[k].attr),
         op[k].lock => op'[k].lock \/ at[Apl(k)] \notin Cleaning
  PROVE  SweepInv'
<1>1. /\ Apl(k) \in Tasks /\ Apl(k)[1] = k
      /\ at'[Cfm(k)] = at[Cfm(k)] /\ at'[Swp(k)] = at[Swp(k)]
  BY TaskFacts
<1>2. Frame(k)
  BY <1>1, TaskFrame
<1>3. Swept(k)
  BY DEF SweepInv
<1>4. Swept(k)'
  BY <1>1, <1>3 DEF Swept
<1>5. at[Swp(k)] \notin Resting => Active(k)
  BY <1>3 DEF Swept, Active, Terminal
<1>6. Respects(k)
  BY <1>1, <1>4, <1>5 DEF Respects
<1>7. FreeInv'
  BY <1>1, <1>2, FreeKept
<1> QED
  BY <1>2, <1>6, <1>7, RespectKeeps DEF SweepInv

\* A step of the confirm or of the sweep of k that takes no lock and leaves the record.
LEMMA SideKeeps ==
  ASSUME SweepInv, NEW k \in Calls, Frame(k), op'[k] = op[k], outcome'[k] = outcome[k],
         at'[Apl(k)] = at[Apl(k)], lockHolder' \in {lockHolder, NoSession},
         at'[Cfm(k)] \in {"idle", "open", "confirm", "closeGood", "closeBad", "confirmWrite"},
         at'[Swp(k)] \in {"idle", "snapshot", "reprobe", "reread"} \cup Probing,
         at'[Swp(k)] \in Probing => at[Swp(k)] \in Probing \/ is_reprobe_candidate(k),
         at'[Swp(k)] = "snapshot" <=> at[Swp(k)] = "snapshot",
         at'[Swp(k)] \in Resting \/ at[Swp(k)] \notin Resting,
         at'[Swp(k)] = "sweepFree" => at[Swp(k)] = "sweepFree" \/ lockHolder' = NoSession
  PROVE  SweepInv'
<1>1. Swept(k)
  BY DEF SweepInv
<1>2. Active(k)' = Active(k)
  BY DEF Active
<1>3. Swept(k)'
  BY <1>1, <1>2 DEF Swept, is_reprobe_candidate
<1>4. Respects(k)
  BY <1>2, <1>3 DEF Respects
<1>5. FreeInv'
  BY FreeKept
<1> QED
  BY <1>4, <1>5, RespectKeeps DEF SweepInv

\* A step that leaves the records and the tasks and takes no lock.
LEMMA StillKeeps ==
  ASSUME SweepInv, op' = op, outcome' = outcome, at' = at, lockHolder' \in {lockHolder, NoSession}
  PROVE  SweepInv'
<1>1. \A k \in Calls : Swept(k)' /\ Active(k)' = Active(k)
  BY SweptSame DEF SweepInv
<1>2. SnapshotInv'
  BY <1>1 DEF SweepInv, SnapshotInv
<1>3. ApartInv'
  BY <1>1 DEF SweepInv, ApartInv
<1>4. FreeInv'
  BY DEF SweepInv, FreeInv
<1> QED
  BY <1>1, <1>2, <1>3, <1>4 DEF SweepInv

\* Getting a session.
LEMMA SweepOpen ==
  ASSUME Inv, SweepInv, NEW a \in Tasks, Open(a)
  PROVE  SweepInv'
<1> DEFINE k == a[1]
<1>0. k \in Calls /\ Swept(k)
  BY TaskFacts DEF SweepInv
<1>1. UNCHANGED <<op, outcome, lockHolder>> /\ at[a] = "open"
  BY DEF Open, OpenSession, recVars, devVars
<1>2. PICK p : /\ at' = [at EXCEPT ![a] = p]
               /\ \/ a[2] = "confirm" /\ p = "confirm"
                  \/ a[2] # "confirm" /\ p = "lock"
                  \/ p = WithoutSession(a)
  BY DEF Open, Drops
<1>3. at'[a] = p /\ \A b \in Tasks : b # a => at'[b] = at[b]
  BY <1>2 DEF Inv, Shapes
<1>4. Frame(k) /\ Active(k)' = Active(k)
  BY <1>1, <1>3, TaskFrame DEF Active
<1>5. CASE a = Apl(k)
  <2>1. p \in {"lock", "fail", "settleSet"}
    BY <1>2, <1>5, Destinations, TaskFacts
  <2>2. op[k].state # "Indeterminate"
    BY <1>0, <1>1, <1>5 DEF Swept, Cleaning
  <2> HIDE DEF k
  <2> QED
    BY <1>0, <1>1, <1>3, <1>4, <1>5, <2>1, <2>2, ApplyKeeps DEF Swept, Done, Cleaning
<1>6. CASE a = Cfm(k)
  <2>1. p \in {"confirm", "idle"} /\ at'[Apl(k)] = at[Apl(k)] /\ at'[Swp(k)] = at[Swp(k)]
    BY <1>0, <1>2, <1>3, <1>6, Destinations, TaskFacts
  <2> HIDE DEF k
  <2> QED
    BY <1>0, <1>1, <1>3, <1>4, <1>6, <2>1, SideKeeps DEF Swept
<1>7. CASE a = Swp(k)
  <2>1. p \in {"lock", "sweepWrite"} /\ at'[Apl(k)] = at[Apl(k)] /\ at'[Cfm(k)] = at[Cfm(k)]
    BY <1>0, <1>2, <1>3, <1>7, Destinations, TaskFacts
  <2> HIDE DEF k
  <2> QED
    BY <1>0, <1>1, <1>3, <1>4, <1>7, <2>1, SideKeeps DEF Swept, Probing, Resting
<1> QED
  BY <1>5, <1>6, <1>7, TaskFacts

\* Giving the lock back.
LEMMA SweepUnlock ==
  ASSUME Inv, SweepInv, NEW a \in Tasks, Unlock(a)
  PROVE  SweepInv'
<1> DEFINE k == a[1]
<1>0. k \in Calls /\ Swept(k)
  BY TaskFacts DEF SweepInv
<1>1. /\ UNCHANGED <<op, outcome>>
      /\ at[a] \in {"unlock", "unlockGood", "unlockBad", "sweepUnlock"}
  BY DEF Unlock, recVars
<1>2. PICK reply \in Replies : TxUnlock(sess[a], reply) /\ Drops(a, AfterUnlock(at[a], reply = "ok"))
  BY DEF Unlock
<1> DEFINE p == AfterUnlock(at[a], reply = "ok")
<1>3. /\ lockHolder' \in {lockHolder, NoSession}
      /\ reply = "ok" => lockHolder' = NoSession
  BY <1>2 DEF TxUnlock, Rpc, devVars, DevUnlock
<1>4. /\ at[a] # "sweepUnlock" => p \in {"fail", "settleOp", "settleSet"}
      /\ at[a] = "sweepUnlock" => p \in {"sweepFree", "sweepWrite"} /\ (p = "sweepFree" => reply = "ok")
  <2>1. CASE at[a] = "unlock"
    BY <2>1 DEF AfterUnlock
  <2>2. CASE at[a] = "unlockGood"
    BY <2>2 DEF AfterUnlock
  <2>3. CASE at[a] = "unlockBad"
    BY <2>3 DEF AfterUnlock
  <2>4. CASE at[a] = "sweepUnlock"
    BY <2>4 DEF AfterUnlock
  <2> QED
    BY <1>1, <2>1, <2>2, <2>3, <2>4
<1>5. at'[a] = p /\ \A b \in Tasks : b # a => at'[b] = at[b]
  BY <1>2, MovesTo
<1> HIDE DEF p
<1>6. Frame(k) /\ Active(k)' = Active(k)
  BY <1>1, <1>5, TaskFrame DEF Active
<1>7. CASE a = Apl(k)
  <2>1. op[k].state # "Indeterminate"
    BY <1>0, <1>1, <1>7 DEF Swept, Cleaning
  <2> HIDE DEF k
  <2> QED
    BY <1>0, <1>1, <1>3, <1>4, <1>5, <1>6, <1>7, <2>1, ApplyKeeps DEF Swept, Done, Cleaning
<1>8. CASE a = Cfm(k)
  BY <1>0, <1>1, <1>8 DEF Swept
<1>9. CASE a = Swp(k)
  <2>1. at[a] = "sweepUnlock" /\ at'[Apl(k)] = at[Apl(k)] /\ at'[Cfm(k)] = at[Cfm(k)]
    BY <1>0, <1>1, <1>5, <1>9, TaskFacts DEF Swept, Probing
  <2> HIDE DEF k
  <2> QED
    BY <1>0, <1>1, <1>3, <1>4, <1>5, <1>6, <1>9, <2>1, SideKeeps DEF Swept, Probing, Resting
<1> QED
  BY <1>7, <1>8, <1>9, TaskFacts

\* Taking the lock: an apply does so only while no probe counts on it being free, and
\* a probe only for a record that says the lock is held.
LEMMA SweepLock ==
  ASSUME Inv, SweepInv, NEW a \in Tasks, Lock(a)
  PROVE  SweepInv'
<1> DEFINE k == a[1]
<1>0. k \in Calls /\ Swept(k) /\ op \in [Calls -> OperationRecord]
  BY TaskFacts DEF SweepInv, Inv, Shapes
<1>1. outcome' = outcome /\ at[a] = "lock"
  BY DEF Lock
<1>2. PICK p \in {WithLock(a), WithoutSession(a)} :
        /\ Goes(a, p) \/ Drops(a, p)
        /\ \/ op' = op /\ p = WithoutSession(a)
           \/ op' = [op EXCEPT ![k].lock = @ \/ Staging(a)] /\ p = WithLock(a)
  BY DEF Lock
<1>3. at'[a] = p /\ \A b \in Tasks : b # a => at'[b] = at[b]
  BY <1>2, MovesTo
<1>4. /\ \A j \in Calls : j # k => op'[j] = op[j]
      /\ op'[k].state = op[k].state /\ op'[k].attr = op[k].attr
      /\ op[k].lock => op'[k].lock
      /\ op' = [op EXCEPT ![k].lock = @ \/ Staging(a)] /\ Staging(a) => op'[k].lock
  <2>1. CASE op' = op /\ p = WithoutSession(a)
    <3>1. Staging(a) \in BOOLEAN /\ op[k].lock \in BOOLEAN
      BY <1>0 DEF Staging, OperationRecord
    <3>2. op' = [op EXCEPT ![k].lock = @ \/ Staging(a)] => op'[k].lock = (op[k].lock \/ Staging(a))
      BY <1>0 DEF OperationRecord
    <3> QED
      BY <2>1, <3>1, <3>2
  <2>2. CASE op' = [op EXCEPT ![k].lock = @ \/ Staging(a)]
    <3>1. /\ \A j \in Calls : j # k => op'[j] = op[j]
          /\ op'[k].state = op[k].state /\ op'[k].attr = op[k].attr
      BY <1>0, <2>2 DEF OperationRecord
    <3>2. op'[k].lock = (op[k].lock \/ Staging(a))
      BY <1>0, <2>2 DEF OperationRecord
    <3> QED
      BY <3>1, <3>2
  <2> QED
    BY <1>2, <2>1, <2>2
<1>5. Frame(k) /\ Active(k)' = Active(k)
  BY <1>1, <1>3, <1>4, TaskFrame DEF Active
<1>6. CASE a = Apl(k)
  <2>1. /\ at'[Cfm(k)] = at[Cfm(k)] /\ at'[Swp(k)] = at[Swp(k)]
        /\ p \in {"fingerprint", "readBack", "fail", "settleSet"}
        /\ p = "fingerprint" => Staging(a) /\ op' = [op EXCEPT ![k].lock = @ \/ Staging(a)]
    BY <1>0, <1>2, <1>3, <1>6, Destinations, TaskFacts DEF Staging
  <2>2. p = "fingerprint" => op'[k].lock
    BY <1>4, <2>1
  <2>3. op[k].state # "Indeterminate" /\ at[Swp(k)] \in Resting
    BY <1>0, <1>1, <1>6 DEF Swept, Cleaning
  <2> HIDE DEF k
  <2>4. Swept(k)'
    BY <1>0, <1>3, <1>4, <1>5, <1>6, <2>1, <2>2, <2>3 DEF Swept, Probing, Resting
  <2>5. Respects(k)
    BY <1>1, <1>3, <1>5, <1>6, <2>1, <2>4 DEF Respects, Done
  <2>6. \A j \in Calls : at[Swp(j)] # "sweepFree"
    BY <1>0, <1>1, <1>6, FreeMeansClean DEF Cleaning, Probing
  <2>7. \A j \in Calls : at'[Swp(j)] # "sweepFree"
    BY <1>5, <2>1, <2>6 DEF Frame
  <2>8. FreeInv'
    BY <2>7 DEF FreeInv
  <2> QED
    BY <1>0, <1>5, <2>5, <2>8, RespectKeeps DEF SweepInv
<1>7. CASE a = Cfm(k)
  BY <1>0, <1>1, <1>7 DEF Swept
<1>8. CASE a = Swp(k)
  <2>1. /\ at'[Cfm(k)] = at[Cfm(k)] /\ at'[Apl(k)] = at[Apl(k)]
        /\ p \in {"sweepUnlock", "sweepWrite"}
    BY <1>0, <1>2, <1>3, <1>8, Destinations, TaskFacts
  <2>2. op[k].state = "Indeterminate" /\ op[k].attr /\ Active(k) /\ op[k].lock
    BY <1>0, <1>1, <1>8 DEF Swept, Probing, Active, Terminal
  <2> HIDE DEF k
  <2>3. Swept(k)'
    BY <1>0, <1>1, <1>3, <1>4, <1>5, <1>8, <2>1, <2>2 DEF Swept, Probing, Resting
  <2>4. Respects(k)
    BY <1>1, <1>3, <1>5, <1>8, <2>1, <2>3 DEF Respects, Resting
  <2>5. at'[Swp(k)] # "sweepFree" /\ op'[k].lock
    BY <1>3, <1>4, <1>8, <2>1, <2>2
  <2>6. FreeInv'
    BY <1>0, <2>5 DEF FreeInv
  <2> QED
    BY <1>0, <1>5, <2>4, <2>6, RespectKeeps DEF SweepInv
<1> QED
  BY <1>6, <1>7, <1>8, TaskFacts

\* The steps of the apply that leave its record.
LEMMA SweepApplies ==
  ASSUME Inv, SweepInv, NEW k \in Calls,
         \/ CheckFingerprint(k) \/ Unstage(k) \/ Release(k) \/ ReadRecord(k) \/ ReadBack(k)
         \/ Commit(k) \/ CommitUnlock(k) \/ SettleChangeSet(k)
  PROVE  SweepInv'
<1> DEFINE a == Apl(k)
<1>0. /\ a \in Tasks /\ Swept(k) /\ KInv(k) /\ DOMAIN outcome = Calls
  BY TaskFacts DEF SweepInv, Inv, Shapes
<1>1. op' = op /\ \A j \in Calls : Active(j)' = Active(j)
  BY DEF CheckFingerprint, Unstage, Release, ReadRecord, ReadBack, Commit, CommitUnlock,
         SettleChangeSet, recVars, Active
<1>2. lockHolder' \in {lockHolder, NoSession}
  <2>1. CASE CheckFingerprint(k) \/ ReadRecord(k) \/ ReadBack(k) \/ SettleChangeSet(k)
    BY <2>1 DEF CheckFingerprint, ReadRecord, ReadBack, SettleChangeSet, ReadRpc, devVars
  <2>2. CASE Unstage(k) \/ Release(k)
    BY <2>2 DEF Unstage, Release, TxUnstage, TxRelease, Shut, CloseEffect, DevRevert, devVars
  <2>3. CASE Commit(k)
    BY <2>3 DEF Commit, TxCommit, DevCommit, DevCommitNative, DevOpenWindow, devVars
  <2>4. CASE CommitUnlock(k)
    BY <2>4 DEF CommitUnlock, TxCommitUnlock, Rpc, DevUnlock, devVars
  <2> QED
    BY <2>1, <2>2, <2>3, <2>4
<1>3. \A j \in Calls : j # k => outcome'[j] = outcome[j]
  BY <1>0 DEF CheckFingerprint, Unstage, Release, ReadRecord, ReadBack, Commit, CommitUnlock,
         SettleChangeSet
<1>4. CASE CheckFingerprint(k) \/ Unstage(k) \/ ReadBack(k)
  <2>1. PICK p \in {"stage", "unlock", "fail", "unlockGood", "unlockBad"} :
          /\ Goes(a, p) \/ Drops(a, p)
          /\ p = "stage" => at[a] = "fingerprint"
    BY <1>4 DEF CheckFingerprint, Unstage, ReadBack
  <2>2. at[a] \in {"fingerprint", "unstage", "readBack"}
    BY <1>4 DEF CheckFingerprint, Unstage, ReadBack
  <2>3. at'[a] = p /\ \A b \in Tasks : b # a => at'[b] = at[b]
    BY <1>0, <2>1, MovesTo
  <2>4. op[k].state # "Indeterminate"
    BY <1>0, <2>2 DEF Swept, Cleaning
  <2> QED
    BY <1>0, <1>1, <1>2, <1>3, <2>1, <2>2, <2>3, <2>4, ApplyKeeps DEF Swept, Done
<1>5. CASE Release(k)
  <2>1. /\ at[a] = "release" /\ outcome' = outcome
        /\ Drops(a, "readRecord") \/ Drops(a, "settleSet")
    BY <1>5 DEF Release
  <2>2. at'[a] \in {"readRecord", "settleSet"} /\ \A b \in Tasks : b # a => at'[b] = at[b]
    BY <1>0, <2>1, MovesTo
  <2> QED
    BY <1>0, <1>1, <1>2, <1>3, <2>1, <2>2, ApplyKeeps DEF Swept, Done, Cleaning
<1>6. CASE ReadRecord(k)
  <2>1. at[a] = "readRecord" /\ outcome' = outcome
    BY <1>6 DEF ReadRecord
  <2>2. PICK p \in {"markUnknown", "open", "settleSet"} :
          Goes(a, p) /\ (p = "open" => AbandonOutcome(k) # "unknown")
    BY <1>6 DEF ReadRecord
  <2>3. at'[a] = p /\ \A b \in Tasks : b # a => at'[b] = at[b]
    BY <1>0, <2>2, MovesTo
  <2>4. op[k].state = "Indeterminate" => p # "open"
    BY <1>0, <2>1, <2>2 DEF Swept, AbandonOutcome
  <2> QED
    BY <1>0, <1>1, <1>2, <1>3, <2>1, <2>2, <2>3, <2>4, ApplyKeeps DEF Swept, Done, Cleaning
<1>7. CASE Commit(k) \/ CommitUnlock(k)
  <2>1. PICK p \in {"commitUnlock", "release", "record"} : Goes(a, p)
    BY <1>7 DEF Commit, CommitUnlock
  <2>2. at[a] \in {"commit", "commitUnlock"}
    BY <1>7 DEF Commit, CommitUnlock
  <2>3. at'[a] = p /\ \A b \in Tasks : b # a => at'[b] = at[b]
    BY <1>0, <2>1, MovesTo
  <2>4. op[k].state = "Committing"
    BY <1>0, <2>2 DEF Swept, KInv, RecordInv
  <2> QED
    BY <1>0, <1>1, <1>2, <1>3, <2>1, <2>2, <2>3, <2>4, ApplyKeeps DEF Swept, Done
<1>8. CASE SettleChangeSet(k)
  <2>1. at[a] = "settleSet" /\ Goes(a, "idle")
    BY <1>8 DEF SettleChangeSet
  <2>2. at'[a] = "idle" /\ \A b \in Tasks : b # a => at'[b] = at[b]
    BY <1>0, <2>1, MovesTo
  <2> QED
    BY <1>0, <1>1, <1>2, <1>3, <2>1, <2>2, ApplyKeeps DEF Swept, Done, Cleaning
<1> QED
  BY <1>4, <1>5, <1>6, <1>7, <1>8

\* The steps of the apply that write its record, but for that of the outcome.
LEMMA SweepRecords ==
  ASSUME Inv, SweepInv, NEW k \in Calls,
         \/ Stage(k) \/ StageFailed(k) \/ Validate(k) \/ PersistCommitting(k) \/ MarkUnknown(k)
         \/ SettleDiscarded(k)
  PROVE  SweepInv'
<1> DEFINE a == Apl(k)
<1>0. /\ a \in Tasks /\ Swept(k) /\ KInv(k) /\ DOMAIN outcome = Calls
      /\ op \in [Calls -> OperationRecord] /\ op[k] \in OperationRecord
  BY TaskFacts DEF SweepInv, Inv, Shapes
<1>1. lockHolder' \in {lockHolder, NoSession}
  BY DEF Stage, TxLoad, Rpc, DevLoad, devVars, StageFailed, Validate, ReadRpc,
         PersistCommitting, MarkUnknown, SettleDiscarded
<1>2. CASE Stage(k)
  <2>1. /\ outcome' = outcome /\ at[a] = "stage" /\ op[k].state = "Staging" /\ op[k].lock
        /\ at[a] \notin Cleaning /\ at[a] \notin Done
    BY <1>0, <1>2 DEF Stage, KInv, RecordInv, Swept, Cleaning, Done
  <2>2. PICK p \in {"validate", "unstage", "fail"} :
          /\ Goes(a, p) \/ Drops(a, p)
          /\ op' = op \/ op' = [op EXCEPT ![k].state = "Staged"]
    BY <1>2 DEF Stage, SetState, recVars
  <2>3. at'[a] = p /\ \A b \in Tasks : b # a => at'[b] = at[b]
    BY <1>0, <2>2, MovesTo
  <2>4. /\ \A j \in Calls : j # k => op'[j] = op[j]
        /\ op'[k].state \in {"Staging", "Staged"} /\ op'[k].lock
    BY <1>0, <2>1, <2>2 DEF OperationRecord
  <2>5. Active(k) /\ Active(k)'
    BY <2>1, <2>4 DEF Active, Terminal
  <2> QED
    BY <1>0, <1>1, <2>1, <2>2, <2>3, <2>4, <2>5, ApplyKeeps
<1>3. CASE StageFailed(k)
  <2>1. /\ outcome' = outcome /\ at[a] = "fail" /\ op[k].state = "Staging" /\ Active(k)
        /\ at[a] \notin Cleaning /\ at[a] \notin Done
    BY <1>0, <1>3 DEF StageFailed, KInv, RecordInv, Active, Terminal, Cleaning, Done
  <2>2. at'[a] = "idle" /\ \A b \in Tasks : b # a => at'[b] = at[b]
    BY <1>0, <1>3, MovesTo DEF StageFailed
  <2>3. /\ \A j \in Calls : j # k => op'[j] = op[j]
        /\ \/ op'[k].state = "none"
           \/ op'[k].state = "Failed" /\ op'[k].lock = op[k].lock /\ op'[k].attr = op[k].attr
    <3>1. CASE op' = [op EXCEPT ![k] = NoOp]
      BY <1>0, <3>1 DEF NoOp
    <3>2. CASE op' = [op EXCEPT ![k].state = "Failed"]
      BY <1>0, <3>2 DEF OperationRecord
    <3> QED
      BY <1>3, <3>1, <3>2 DEF StageFailed
  <2>4. Active(k)' /\ op'[k].attr => op'[k].lock
    BY <1>0, <2>1, <2>3 DEF Active, Swept
  <2> QED
    BY <1>0, <1>1, <2>1, <2>2, <2>3, <2>4, ApplyKeeps DEF Done
<1>4. CASE Validate(k)
  <2>1. /\ at[a] = "validate" /\ op[k].state = "Staged" /\ op[k].lock /\ Active(k)
        /\ at[a] \notin Done
    BY <1>0, <1>4 DEF Validate, KInv, RecordInv, Swept, Active, Terminal, Done
  <2>2. PICK p \in {"precommit", "release"} :
          /\ Goes(a, p)
          /\ op' = op \/ op' = [op EXCEPT ![k].state = "Validated"]
    BY <1>4 DEF Validate, SetState, Abandons
  <2>3. at'[a] = p /\ \A b \in Tasks : b # a => at'[b] = at[b]
    BY <1>0, <2>2, MovesTo
  <2>4. /\ \A j \in Calls : j # k => op'[j] = op[j]
        /\ op'[k].state \in {"Staged", "Validated"} /\ op'[k].lock
    BY <1>0, <2>1, <2>2 DEF OperationRecord
  <2>5. Active(k)' /\ \A j \in Calls : j # k => outcome'[j] = outcome[j]
    BY <1>0, <1>4, <2>4 DEF Active, Terminal, Validate, Abandons
  <2> QED
    BY <1>0, <1>1, <2>1, <2>2, <2>3, <2>4, <2>5, ApplyKeeps
<1>5. CASE PersistCommitting(k)
  <2>1. /\ at[a] = "precommit" /\ op[k].state = "Validated" /\ op[k].lock /\ Active(k)
        /\ at[a] \notin Done
    BY <1>0, <1>5 DEF PersistCommitting, KInv, RecordInv, Swept, Active, Terminal, Done
  <2>2. PICK p \in {"commit", "release"} :
          /\ Goes(a, p)
          /\ op' = op \/ op' = [op EXCEPT ![k].state = "Committing", ![k].attr = TRUE]
    BY <1>5 DEF PersistCommitting, Abandons
  <2>3. at'[a] = p /\ \A b \in Tasks : b # a => at'[b] = at[b]
    BY <1>0, <2>2, MovesTo
  <2>4. /\ \A j \in Calls : j # k => op'[j] = op[j]
        /\ op'[k].state \in {"Validated", "Committing"} /\ op'[k].lock
    BY <1>0, <2>1, <2>2 DEF OperationRecord
  <2>5. Active(k)' /\ \A j \in Calls : j # k => outcome'[j] = outcome[j]
    BY <1>0, <1>5, <2>4 DEF Active, Terminal, PersistCommitting, Abandons
  <2> QED
    BY <1>0, <1>1, <2>1, <2>2, <2>3, <2>4, <2>5, ApplyKeeps
<1>6. CASE MarkUnknown(k)
  <2>1. at[a] = "markUnknown" /\ outcome' = outcome /\ at[a] \notin Done
    BY <1>6 DEF MarkUnknown, Done
  <2>2. at'[a] = "settleSet" /\ \A b \in Tasks : b # a => at'[b] = at[b]
    BY <1>0, <1>6, MovesTo DEF MarkUnknown
  <2>3. CASE op' = op
    <3>1. Active(k)' = Active(k)
      BY <2>3 DEF Active
    <3> QED
      BY <1>0, <1>1, <2>1, <2>2, <2>3, <3>1, ApplyKeeps DEF Swept, Done, Cleaning
  <2>4. CASE op' = [op EXCEPT ![k].state = "Indeterminate", ![k].lock = TRUE]
    <3>1. /\ \A j \in Calls : j # k => op'[j] = op[j]
          /\ op'[k].state = "Indeterminate" /\ op'[k].lock /\ op'[k].attr = op[k].attr
      BY <1>0, <2>4 DEF OperationRecord
    <3> QED
      BY <1>0, <1>1, <2>1, <2>2, <3>1, ApplyKeeps DEF Done, Cleaning
  <2> QED
    BY <1>6, <2>3, <2>4 DEF MarkUnknown, Persists
<1>7. CASE SettleDiscarded(k)
  <2>1. at[a] = "settleOp" /\ outcome' = outcome /\ at[a] \notin Done /\ at[a] \notin Cleaning
    BY <1>7 DEF SettleDiscarded, Done, Cleaning
  <2>2. at'[a] = "settleSet" /\ \A b \in Tasks : b # a => at'[b] = at[b]
    BY <1>0, <1>7, MovesTo DEF SettleDiscarded
  <2>3. op[k].state # "Indeterminate"
    BY <1>0, <2>1 DEF Swept
  <2>4. CASE op' = op
    <3>1. Active(k)' = Active(k)
      BY <2>4 DEF Active
    <3> QED
      BY <1>0, <1>1, <2>1, <2>2, <2>3, <2>4, <3>1, ApplyKeeps DEF Swept, Done
  <2>5. CASE op' = [op EXCEPT ![k].state = "Discarded", ![k].lock = FALSE]
    <3>1. /\ \A j \in Calls : j # k => op'[j] = op[j]
          /\ op'[k].state = "Discarded"
      BY <1>0, <2>5 DEF OperationRecord
    <3>2. ~Active(k)'
      BY <3>1 DEF Active, Terminal
    <3> QED
      BY <1>0, <1>1, <2>1, <2>2, <2>3, <3>1, <3>2, ApplyKeeps DEF Done
  <2> QED
    BY <1>7, <2>4, <2>5 DEF SettleDiscarded, Persists
<1> QED
  BY <1>2, <1>3, <1>4, <1>5, <1>6, <1>7

\* The write of the outcome.
LEMMA SweepOutcome ==
  ASSUME Inv, SweepInv, NEW k \in Calls, RecordOutcome(k)
  PROVE  SweepInv'
<1> DEFINE a == Apl(k)
           new == Recorded(op[k], outcome[k])
<1>0. /\ a \in Tasks /\ Swept(k) /\ KInv(k) /\ DOMAIN outcome = Calls
      /\ op \in [Calls -> OperationRecord] /\ op[k] \in OperationRecord
  BY TaskFacts DEF SweepInv, Inv, Shapes
<1>1. /\ lockHolder' = lockHolder /\ at[a] = "record" /\ at[a] \notin Done /\ at[a] \notin Cleaning
  BY DEF RecordOutcome, devVars, Done, Cleaning
<1>2. /\ op[k].state = "Committing" /\ Active(k)
      /\ op[k].attr => op[k].lock
      /\ outcome[k] \in {"committed", "awaiting", "notCommitted", "unknown"}
  BY <1>0, <1>1 DEF Swept, KInv, RecordInv, Active, Terminal
<1>3. PICK p \in {"idle", "release"} :
        /\ Goes(a, p) \/ Drops(a, p)
        /\ \A j \in Calls : j # k => outcome'[j] = outcome[j]
        /\ \/ op' = op /\ p = "release"
           \/ /\ op' = [op EXCEPT ![k] = new]
              /\ p = "idle" <=> outcome[k] \in {"committed", "awaiting"}
              /\ p = "release" => outcome' = outcome
  BY <1>0 DEF RecordOutcome, Abandons
<1>4. at'[a] = p /\ \A b \in Tasks : b # a => at'[b] = at[b]
  BY <1>0, <1>3, MovesTo
<1>5. /\ \A j \in Calls : j # k => op'[j] = op[j]
      /\ \/ op'[k].state = "Committed" /\ p = "idle"
         \/ /\ op'[k].state \in {"Committing", "Failed"}
            /\ op'[k].lock = op[k].lock /\ op'[k].attr = op[k].attr
         \/ /\ op'[k].state = "Indeterminate" /\ p = "release" /\ outcome'[k] = "unknown"
            /\ op'[k].lock = op[k].lock /\ op'[k].attr = op[k].attr
  <2>1. CASE op' = op
    BY <1>2, <2>1
  <2>2. CASE /\ op' = [op EXCEPT ![k] = new]
             /\ p = "idle" <=> outcome[k] \in {"committed", "awaiting"}
             /\ p = "release" => outcome' = outcome
    <3> HIDE DEF new
    <3>1. op'[k] = new /\ \A j \in Calls : j # k => op'[j] = op[j]
      BY <1>0, <2>2
    <3>2. CASE outcome[k] = "committed"
      <4>1. new = [op[k] EXCEPT !.state = "Committed", !.lock = FALSE]
        BY <3>2 DEF new, Recorded
      <4> QED
        BY <1>0, <2>2, <3>1, <3>2, <4>1 DEF OperationRecord
    <3>3. CASE outcome[k] = "awaiting"
      <4>1. new = [op[k] EXCEPT !.deadline = "open"]
        BY <3>3 DEF new, Recorded
      <4> QED
        BY <1>0, <1>2, <3>1, <4>1 DEF OperationRecord
    <3>4. CASE outcome[k] = "notCommitted"
      <4>1. new = [op[k] EXCEPT !.state = "Failed"]
        BY <3>4 DEF new, Recorded
      <4> QED
        BY <1>0, <3>1, <4>1 DEF OperationRecord
    <3>5. CASE outcome[k] = "unknown"
      <4>1. new = [op[k] EXCEPT !.state = "Indeterminate"]
        BY <3>5 DEF new, Recorded
      <4>2. p = "release"
        BY <2>2, <3>5
      <4> QED
        BY <1>0, <2>2, <3>1, <3>5, <4>1, <4>2 DEF OperationRecord
    <3> QED
      BY <1>2, <3>2, <3>3, <3>4, <3>5
  <2> QED
    BY <1>3, <2>1, <2>2
<1>6. /\ Active(k)' /\ op'[k].attr => op'[k].lock
      /\ ~Active(k)' => p = "idle"
  BY <1>2, <1>5 DEF Active, Terminal
<1> HIDE DEF a, new
<1> QED
  BY <1>0, <1>1, <1>2, <1>3, <1>4, <1>5, <1>6, ApplyKeeps DEF a, Done, Cleaning

\* The steps of the confirm and of the sweep that leave the record.
LEMMA SweepSides ==
  ASSUME Inv, SweepInv, NEW k \in Calls,
         \/ ConfirmChangeSet(k) \/ ConfirmCommit(k) \/ ConfirmClose(k) \/ Reprobe(k) \/ Reread(k)
  PROVE  SweepInv'
<1>0. Apl(k) \in Tasks /\ Cfm(k) \in Tasks /\ Swp(k) \in Tasks /\ Swept(k)
  BY TaskFacts DEF SweepInv
<1>1. UNCHANGED <<op, outcome>>
  BY DEF ConfirmChangeSet, ConfirmCommit, ConfirmClose, Reprobe, Reread, recVars
<1>2. lockHolder' = lockHolder
  BY DEF ConfirmChangeSet, ConfirmCommit, ConfirmClose, Reprobe, Reread, TxConfirmCommit, Rpc,
         DevCommit, TxConfirmClose, Shut, CloseEffect, DevRevert, devVars
<1>3. CASE ConfirmChangeSet(k) \/ ConfirmCommit(k) \/ ConfirmClose(k)
  <2>1. PICK p \in {"open", "closeGood", "closeBad", "confirmWrite", "idle"} :
          Goes(Cfm(k), p) \/ Drops(Cfm(k), p)
    BY <1>3 DEF ConfirmChangeSet, ConfirmCommit, ConfirmClose
  <2>2. at'[Cfm(k)] = p /\ \A b \in Tasks : b # Cfm(k) => at'[b] = at[b]
    BY <1>0, <2>1, MovesTo
  <2>3. at'[Apl(k)] = at[Apl(k)] /\ at'[Swp(k)] = at[Swp(k)] /\ Frame(k)
    BY <1>0, <1>1, <2>2, TaskFacts, TaskFrame
  <2> QED
    BY <1>0, <1>1, <1>2, <2>2, <2>3, SideKeeps DEF Swept
<1>4. CASE Reprobe(k) \/ Reread(k)
  <2>1. PICK p \in {"idle", "reread", "open"} :
          Goes(Swp(k), p) /\ (p = "open" => is_reprobe_candidate(k))
    BY <1>4 DEF Reprobe, Reread
  <2>2. at'[Swp(k)] = p /\ \A b \in Tasks : b # Swp(k) => at'[b] = at[b]
    BY <1>0, <2>1, MovesTo
  <2>3. at'[Apl(k)] = at[Apl(k)] /\ at'[Cfm(k)] = at[Cfm(k)] /\ Frame(k)
    BY <1>0, <1>1, <2>2, TaskFacts, TaskFrame
  <2>4. at[Swp(k)] \in {"reprobe", "reread"}
    BY <1>4 DEF Reprobe, Reread
  <2> QED
    BY <1>0, <1>1, <1>2, <2>1, <2>2, <2>3, <2>4, SideKeeps DEF Swept, Probing, Resting
<1> QED
  BY <1>3, <1>4

\* The records of the confirm and of the sweep: the first is never about a commit the
\* sweep probes, the second clears the flag only of the probe that found the lock free.
LEMMA SweepWrites ==
  ASSUME Inv, ControlInv, SweepInv, NEW k \in Calls, ConfirmRecord(k) \/ SweepWrite(k)
  PROVE  SweepInv'
<1>0. /\ Apl(k) \in Tasks /\ Cfm(k) \in Tasks /\ Swp(k) \in Tasks /\ Swept(k) /\ KInv(k) /\ Books(k)
      /\ op \in [Calls -> OperationRecord] /\ op[k] \in OperationRecord
  BY TaskFacts DEF SweepInv, Inv, ControlInv, Shapes
<1>1. outcome' = outcome /\ lockHolder' = lockHolder
  BY DEF ConfirmRecord, SweepWrite, devVars
<1>2. CASE ConfirmRecord(k)
  <2>1. at[Cfm(k)] = "confirmWrite" /\ at[Apl(k)] = "idle" /\ at[Swp(k)] \notin Probing
    BY <1>0, <1>2 DEF ConfirmRecord, Books, KInv, CleanInv, Probing
  <2>2. at'[Cfm(k)] = "idle" /\ \A b \in Tasks : b # Cfm(k) => at'[b] = at[b]
    BY <1>0, <1>2, MovesTo DEF ConfirmRecord
  <2>3. /\ \A j \in Calls : j # k => op'[j] = op[j]
        /\ op'[k] = op[k] \/ op'[k].state = "Committed"
        /\ op'[k].lock = op[k].lock
    <3>1. CASE op' = op
      BY <3>1
    <3>2. CASE op' = [op EXCEPT ![k].state = "Committed", ![k].deadline = "none"]
      BY <1>0, <3>2 DEF OperationRecord
    <3> QED
      BY <1>2, <3>1, <3>2 DEF ConfirmRecord, Persists
  <2>4. at'[Apl(k)] = at[Apl(k)] /\ at'[Swp(k)] = at[Swp(k)] /\ Frame(k)
    BY <1>0, <1>1, <2>2, <2>3, TaskFacts, TaskFrame
  <2>5. Active(k)' => Active(k) /\ op'[k] = op[k]
    BY <2>3 DEF Active, Terminal
  <2>6. Swept(k)'
    BY <1>0, <1>1, <2>1, <2>2, <2>3, <2>4, <2>5 DEF Swept, Cleaning
  <2>7. Respects(k)
    BY <2>1, <2>4, <2>5, <2>6 DEF Respects, Done
  <2>8. FreeInv'
    BY <1>1, <2>3, <2>4, FreeKept
  <2> QED
    BY <2>4, <2>7, <2>8, RespectKeeps DEF SweepInv
<1>3. CASE SweepWrite(k)
  <2>1. /\ at[Swp(k)] \in {"sweepFree", "sweepWrite"} /\ at[Swp(k)] \in Probing
        /\ op[k].state = "Indeterminate" /\ at[Apl(k)] \in Cleaning
    BY <1>0, <1>3 DEF SweepWrite, Swept, Probing
  <2>2. at'[Swp(k)] = "idle" /\ \A b \in Tasks : b # Swp(k) => at'[b] = at[b]
    BY <1>0, <1>3, MovesTo DEF SweepWrite
  <2>3. /\ \A j \in Calls : j # k => op'[j] = op[j]
        /\ op'[k] = op[k] \/ op'[k].state = "Committed"
        /\ op[k].lock => op'[k].lock \/ at[Swp(k)] = "sweepFree"
    <3>1. CASE op' = op
      BY <3>1
    <3>2. CASE op' = [op EXCEPT ![k] = settle_from_outcome(@, at[Swp(k)] = "sweepFree")]
      <4> DEFINE new == settle_from_outcome(op[k], at[Swp(k)] = "sweepFree")
      <4>1. /\ new.state = "Committed"
            /\ new.lock = (op[k].lock /\ ~(at[Swp(k)] = "sweepFree"))
        BY <1>0 DEF settle_from_outcome, OperationRecord
      <4> HIDE DEF new
      <4>2. op'[k] = new /\ \A j \in Calls : j # k => op'[j] = op[j]
        BY <1>0, <3>2 DEF new
      <4> QED
        BY <4>1, <4>2
    <3> QED
      BY <1>3, <3>1, <3>2 DEF SweepWrite, Persists
  <2>4. at'[Apl(k)] = at[Apl(k)] /\ at'[Cfm(k)] = at[Cfm(k)] /\ Frame(k)
    BY <1>0, <1>1, <2>2, <2>3, TaskFacts, TaskFrame
  <2>5. Active(k)' => Active(k) /\ op'[k] = op[k]
    BY <2>3 DEF Active, Terminal
  <2>6. Swept(k)'
    BY <1>0, <1>1, <2>1, <2>2, <2>3, <2>4, <2>5 DEF Swept, Cleaning, Probing, Resting
  <2>7. Respects(k)
    BY <2>1, <2>2, <2>4, <2>5, <2>6 DEF Respects, Resting
  <2>8. FreeInv'
    BY <1>1, <2>2, <2>3, <2>4, FreeKept
  <2> QED
    BY <2>4, <2>7, <2>8, RespectKeeps DEF SweepInv
<1> QED
  BY <1>2, <1>3

\* Planning, the claim of an apply and the passing of a recorded deadline.
LEMMA SweepRequests ==
  ASSUME Inv, SweepInv, NEW k \in Calls,
         \/ CreateChangeSet(k) \/ ApproveChangeSet(k) \/ CancelChangeSet(k) \/ ApplyChangeSet(k)
         \/ DeadlinePasses(k)
  PROVE  SweepInv'
<1>0. /\ Apl(k) \in Tasks /\ Swept(k) /\ KInv(k)
      /\ op \in [Calls -> OperationRecord] /\ op[k] \in OperationRecord
  BY TaskFacts DEF SweepInv, Inv, Shapes
<1>1. outcome' = outcome /\ lockHolder' = lockHolder
  BY DEF CreateChangeSet, ApproveChangeSet, CancelChangeSet, Sets, ApplyChangeSet, DeadlinePasses,
         taskVars, devVars
<1>2. CASE CreateChangeSet(k) \/ ApproveChangeSet(k) \/ CancelChangeSet(k)
  <2>1. op' = op /\ at' = at
    BY <1>2 DEF CreateChangeSet, ApproveChangeSet, CancelChangeSet, Sets, taskVars
  <2> QED
    BY <1>1, <2>1, StillKeeps
<1>3. CASE ApplyChangeSet(k)
  <2>1. csState[k] \in Fresh /\ \A j \in Calls : ~Active(j)
    BY <1>3 DEF ApplyChangeSet, Fresh
  <2>2. at[Swp(k)] \in Resting /\ at[Apl(k)] = "idle"
    BY <1>0, <2>1 DEF KInv, AloneInv, Alone, Resting
  <2>3. at'[Apl(k)] = "open" /\ \A b \in Tasks : b # Apl(k) => at'[b] = at[b]
    BY <1>0, <1>3, MovesTo DEF ApplyChangeSet
  <2> DEFINE new == [NoOp EXCEPT !.state = "Staging"]
  <2>4. new.state = "Staging" /\ new.attr = FALSE
    BY DEF NoOp
  <2>5. op' = [op EXCEPT ![k] = new]
    BY <1>3 DEF ApplyChangeSet
  <2> HIDE DEF new
  <2>6. op'[k] = new /\ \A j \in Calls : j # k => op'[j] = op[j]
    BY <1>0, <2>5
  <2>7. at'[Cfm(k)] = at[Cfm(k)] /\ at'[Swp(k)] = at[Swp(k)] /\ Frame(k)
    BY <1>0, <1>1, <2>3, <2>6, TaskFacts, TaskFrame
  <2>8. Active(k)' /\ \A j \in Calls : j # k => Swept(j)' /\ ~Active(j)'
    BY <2>1, <2>4, <2>6, <2>7, SweptSame DEF Active, Terminal, SweepInv, Frame
  <2>9. Swept(k)'
    BY <1>0, <2>2, <2>3, <2>4, <2>6, <2>7 DEF Swept, Probing, Resting
  <2>10. \A j \in Calls : at'[Swp(j)] = at[Swp(j)]
    BY <2>7 DEF Frame
  <2>11. SnapshotInv'
    <3> SUFFICES ASSUME NEW m \in Calls, at'[Swp(m)] = "snapshot"
                 PROVE  /\ \A j \in Calls : at'[Swp(j)] = "snapshot"
                        /\ \A j \in Calls : at'[Apl(j)] \notin Done =>
                             Active(j)' /\ \A i \in Calls \ {j} : ~Active(i)'
      BY DEF SnapshotInv
    <3>1. /\ \A j \in Calls : at[Swp(j)] = "snapshot"
          /\ \A j \in Calls : at[Apl(j)] \notin Done => Active(j)
      BY <2>10 DEF SweepInv, SnapshotInv
    <3>2. \A j \in Calls : j # k => at'[Apl(j)] \in Done
      BY <2>1, <2>7, <3>1 DEF Frame
    <3> QED
      BY <2>8, <2>10, <3>1, <3>2
  <2>12. ApartInv'
    BY <2>2, <2>8, <2>10 DEF ApartInv
  <2>13. \A j \in Calls : at[Swp(j)] # "sweepFree"
    BY <2>1 DEF SweepInv, Swept, Active, Terminal, Probing
  <2>14. FreeInv'
    BY <2>10, <2>13 DEF FreeInv
  <2> QED
    BY <2>8, <2>9, <2>11, <2>12, <2>14 DEF SweepInv
<1>4. CASE DeadlinePasses(k)
  <2>1. at' = at
    BY <1>4 DEF DeadlinePasses, taskVars
  <2>2. /\ \A j \in Calls : j # k => op'[j] = op[j]
        /\ op'[k].state = op[k].state /\ op'[k].lock = op[k].lock /\ op'[k].attr = op[k].attr
    BY <1>0, <1>4 DEF DeadlinePasses, OperationRecord
  <2>3. Frame(k)
    BY <1>1, <2>1, <2>2 DEF Frame
  <2>4. Active(k)' = Active(k)
    BY <2>2 DEF Active
  <2>5. Swept(k)'
    BY <1>0, <1>1, <2>1, <2>2, <2>4 DEF Swept
  <2>6. Respects(k)
    BY <2>1, <2>4, <2>5 DEF Respects
  <2>7. FreeInv'
    BY <1>1, <2>1, <2>2, <2>3, FreeKept
  <2> QED
    BY <2>3, <2>6, <2>7, RespectKeeps DEF SweepInv
<1> QED
  BY <1>2, <1>3, <1>4

\* Crash, `state resolve`, start and the list of the sweep.
LEMMA SweepRestart ==
  ASSUME Inv, SweepInv, Crash \/ (\E k \in Calls : StateResolve(k)) \/ Start \/ SweepSnapshot
  PROVE  SweepInv'
<1>0. op \in [Calls -> OperationRecord] /\ \A k \in Calls : Swept(k)
  BY DEF Inv, Shapes, SweepInv
<1>1. \A k \in Calls : /\ Apl(k) \in Tasks /\ Cfm(k) \in Tasks /\ Swp(k) \in Tasks
                       /\ Apl(k)[2] = "apply" /\ Cfm(k)[2] = "confirm" /\ Swp(k)[2] = "sweep"
                       /\ Apl(k)[1] = k /\ Cfm(k)[1] = k /\ Swp(k)[1] = k
  BY TaskFacts
<1>2. ASSUME NEW p \in Resting,
             \A k \in Calls : /\ at'[Apl(k)] = "idle" /\ at'[Cfm(k)] = "idle" /\ at'[Swp(k)] = p
                              /\ Active(k)' /\ op'[k].attr => op'[k].lock
      PROVE  SweepInv'
  <2>1. \A k \in Calls : Swept(k)'
    BY <1>2 DEF Swept, Resting, Probing, Cleaning
  <2>2. SnapshotInv' /\ ApartInv' /\ FreeInv'
    BY <1>2 DEF SnapshotInv, ApartInv, FreeInv, Resting, Done
  <2> QED
    BY <2>1, <2>2 DEF SweepInv
<1>3. CASE Crash
  <2>1. op' = op /\ at' = [a \in Tasks |-> "idle"]
    BY <1>3 DEF Crash, recVars
  <2>2. \A k \in Calls : /\ at'[Apl(k)] = "idle" /\ at'[Cfm(k)] = "idle" /\ at'[Swp(k)] = "idle"
                         /\ Active(k)' = Active(k)
    BY <1>1, <2>1 DEF Active
  <2> QED
    BY <1>0, <1>2, <2>1, <2>2 DEF Swept, Resting
<1>4. ASSUME NEW k \in Calls, StateResolve(k) PROVE SweepInv'
  <2>1. /\ at' = at
        /\ \A j \in Calls : at[Apl(j)] = "idle" /\ at[Cfm(j)] = "idle" /\ at[Swp(j)] = "idle"
    BY <1>1, <1>4 DEF StateResolve, taskVars, Inv, DownInv
  <2>2. /\ \A j \in Calls : j # k => op'[j] = op[j]
        /\ op'[k].state \in Terminal
    BY <1>0, <1>4 DEF StateResolve, OperationRecord
  <2>3. ~Active(k)' /\ \A j \in Calls : j # k => Active(j)' = Active(j)
    BY <2>2 DEF Active
  <2> QED
    BY <1>0, <1>2, <2>1, <2>2, <2>3 DEF Swept, Resting
<1>5. CASE Start
  <2>1. /\ at' = [a \in Tasks |-> IF a[2] = "sweep" THEN "snapshot" ELSE "idle"]
        /\ \A k \in Calls : op'[k] = IF Active(k) THEN [op[k] EXCEPT !.state = "Indeterminate"] ELSE op[k]
    BY <1>5 DEF Start
  <2>2. \A k \in Calls : at'[Apl(k)] = "idle" /\ at'[Cfm(k)] = "idle" /\ at'[Swp(k)] = "snapshot"
    BY <1>1, <2>1
  <2>3. \A k \in Calls : /\ Active(k)' = Active(k)
                         /\ op'[k].attr = op[k].attr /\ op'[k].lock = op[k].lock
    BY <1>0, <2>1 DEF Active, Terminal, OperationRecord
  <2> QED
    BY <1>0, <1>2, <2>2, <2>3 DEF Swept, Resting
<1>6. CASE SweepSnapshot
  <2>1. op' = op /\ outcome' = outcome
    BY <1>6 DEF SweepSnapshot, recVars
  <2>2. \A j \in Calls : Active(j)' = Active(j)
    BY <2>1 DEF Active
  <2>3. \A a \in Tasks : at'[a] = IF at[a] # "snapshot" THEN at[a]
                                  ELSE IF is_reprobe_candidate(a[1]) THEN "reprobe" ELSE "idle"
    BY <1>6 DEF SweepSnapshot
  <2>4. /\ \A j \in Calls : at[Swp(j)] = "snapshot"
        /\ \A j \in Calls : at[Apl(j)] \notin Done => Active(j) /\ \A i \in Calls \ {j} : ~Active(i)
    BY <1>6 DEF SweepSnapshot, SweepInv, SnapshotInv
  <2>5. \A j \in Calls : /\ at'[Swp(j)] \in {"idle", "reprobe"}
                         /\ at'[Swp(j)] = "reprobe" => op[j].state = "Indeterminate"
    BY <1>1, <2>3, <2>4 DEF is_reprobe_candidate
  <2>6. \A j \in Calls : at'[Apl(j)] = at[Apl(j)] \/ (at[Apl(j)] \notin Done /\ at'[Apl(j)] = "idle")
    <3> SUFFICES ASSUME NEW j \in Calls
                 PROVE  at'[Apl(j)] = at[Apl(j)] \/ (at[Apl(j)] \notin Done /\ at'[Apl(j)] = "idle")
      OBVIOUS
    <3>1. at[Apl(j)] = "snapshot" => ~is_reprobe_candidate(j)
      BY <1>0 DEF Swept, Cleaning, is_reprobe_candidate
    <3> QED
      BY <1>1, <2>3, <3>1 DEF Done
  <2>7. \A j \in Calls : at'[Cfm(j)] = at[Cfm(j)]
    BY <1>0, <1>1, <2>3 DEF Swept
  <2>8. ASSUME NEW j \in Calls PROVE Swept(j)'
    <3>1. Swept(j)
      BY <1>0
    <3>2. /\ op'[j] = op[j] /\ outcome'[j] = outcome[j] /\ at'[Cfm(j)] = at[Cfm(j)]
          /\ Active(j)' = Active(j)
          /\ at'[Apl(j)] = at[Apl(j)] \/ at'[Apl(j)] = "idle"
          /\ at'[Swp(j)] \in {"idle", "reprobe"}
          /\ at'[Swp(j)] = "reprobe" => op[j].state = "Indeterminate"
      BY <2>1, <2>2, <2>5, <2>6, <2>7
    <3> QED
      BY <3>1, <3>2 DEF Swept, Cleaning, Probing, Resting
  <2>9. ApartInv'
    <3> SUFFICES ASSUME NEW j \in Calls, Active(j)', NEW i \in Calls \ {j}
                 PROVE  at'[Apl(i)] \in Done
      BY DEF ApartInv
    <3>1. at[Apl(i)] \in Done
      BY <2>2, <2>4
    <3> QED
      BY <2>6, <3>1 DEF Done
  <2>10. SnapshotInv' /\ FreeInv'
    BY <2>5 DEF SnapshotInv, FreeInv
  <2> QED
    BY <2>8, <2>9, <2>10 DEF SweepInv
<1> QED
  BY <1>3, <1>4, <1>5, <1>6

\* The pool's background tasks, the device's timer and the operators take no lock.
LEMMA SweepEnvironment ==
  ASSUME SweepInv, Environment, UNCHANGED <<commitLog, recVars, taskVars, srvVars>>
  PROVE  SweepInv'
<1>1. UNCHANGED <<op, outcome, at>>
  BY DEF recVars, taskVars
<1>2. lockHolder' \in {lockHolder, NoSession}
  <2>1. ASSUME NEW s \in Sessions, ReturnSession(s) PROVE lockHolder' = lockHolder
    BY <2>1 DEF ReturnSession, devVars
  <2>2. ASSUME NEW s \in Sessions, CloseSession(s) \/ DeviceEnds(s) \/ SessionDies(s)
        PROVE  lockHolder' \in {lockHolder, NoSession}
    <3>1. UNCHANGED devVars \/ DevRevert(s) \/ DevEndSession(s)
      BY <2>2 DEF CloseSession, Shut, CloseEffect, DeviceEnds, SessionDies
    <3> QED
      BY <3>1 DEF devVars, DevRevert, DevEndSession
  <2>3. CASE EvictExpired
    BY <2>3 DEF EvictExpired, devVars
  <2>4. CASE WindowExpires \/ \E o \in Operators : OperatorEdit(o) \/ OperatorFinish(o)
    BY <2>4 DEF WindowExpires, OperatorEdit, OperatorFinish
  <2> QED
    BY <2>1, <2>2, <2>3, <2>4 DEF Environment, PoolTasks
<1> QED
  BY <1>1, <1>2, StillKeeps

\* The sweep's probes, the applies and the records stay in step in every reachable state.
LEMMA SweepHolds == Spec => []SweepInv
<1>1. Init => SweepInv
  <2> SUFFICES ASSUME Init PROVE SweepInv
    OBVIOUS
  <2>1. op = [k \in Calls |-> NoOp] /\ at = [a \in Tasks |-> "idle"]
    BY DEF Init
  <2>2. NoOp.state = "none"
    BY DEF NoOp
  <2>3. \A k \in Calls : /\ at[Apl(k)] = "idle" /\ at[Cfm(k)] = "idle" /\ at[Swp(k)] = "idle"
                         /\ ~Active(k) /\ op[k].state = "none"
    BY <2>1, <2>2, TaskFacts DEF Active
  <2>4. \A k \in Calls : Swept(k)
    BY <2>3 DEF Swept, Probing, Resting
  <2>5. SnapshotInv /\ ApartInv /\ FreeInv
    BY <2>3 DEF SnapshotInv, ApartInv, FreeInv
  <2> QED
    BY <2>4, <2>5 DEF SweepInv
<1>2. Inv /\ ControlInv /\ SweepInv /\ [Next]_vars => SweepInv'
  <2> SUFFICES ASSUME Inv, ControlInv, SweepInv, [Next]_vars PROVE SweepInv'
    OBVIOUS
  <2>1. CASE UNCHANGED vars
    BY <2>1, StillKeeps DEF vars, devVars, recVars, taskVars
  <2>2. ASSUME NEW k \in Calls, Request(k) \/ DeadlinePasses(k) PROVE SweepInv'
    BY <2>2, SweepRequests, SweepSides DEF Request
  <2>3. ASSUME NEW k \in Calls, Step(k) PROVE SweepInv'
    <3>1. ASSUME NEW a \in Tasks, Open(a) \/ Lock(a) \/ Unlock(a) PROVE SweepInv'
      BY <3>1, SweepOpen, SweepLock, SweepUnlock
    <3>2. CASE \/ CheckFingerprint(k) \/ Unstage(k) \/ Release(k) \/ ReadRecord(k) \/ ReadBack(k)
               \/ Commit(k) \/ CommitUnlock(k) \/ SettleChangeSet(k)
      BY <3>2, SweepApplies
    <3>3. CASE \/ Stage(k) \/ StageFailed(k) \/ Validate(k) \/ PersistCommitting(k)
               \/ MarkUnknown(k) \/ SettleDiscarded(k)
      BY <3>3, SweepRecords
    <3>4. CASE RecordOutcome(k)
      BY <3>4, SweepOutcome
    <3>5. CASE ConfirmCommit(k) \/ ConfirmClose(k) \/ Reprobe(k) \/ Reread(k)
      BY <3>5, SweepSides
    <3>6. CASE ConfirmRecord(k) \/ SweepWrite(k)
      BY <3>6, SweepWrites
    <3> QED
      BY <2>3, <3>1, <3>2, <3>3, <3>4, <3>5, <3>6 DEF Step
  <2>4. CASE Crash \/ (\E k \in Calls : StateResolve(k)) \/ Start \/ SweepSnapshot
    BY <2>4, SweepRestart
  <2>5. CASE Environment /\ UNCHANGED <<commitLog, recVars, taskVars, srvVars>>
    BY <2>5, SweepEnvironment
  <2> QED
    BY <2>1, <2>2, <2>3, <2>4, <2>5 DEF Next
<1> QED
  BY <1>1, <1>2, ApplyIsExclusive, ControlHolds, PTL DEF Spec

\* settle_from_outcome and probe_lock_freedom: the sweep clears config_lock_held only
\* when no dead session has the candidate lock, or another record still says it is
\* held, whatever an apply, another probe or an operator did since the probe.
THEOREM SweptLocksAreFree == Spec => SweptLockIsFree
<1>1. ASSUME Inv, SweepInv, NEW k \in Calls, SweepWrite(k), op[k].lock, ~op'[k].lock
      PROVE  \/ \A s \in Sessions : sst[s] = "gone" => lockHolder # s
             \/ \E j \in Calls \ {k} : op[j].lock
  <2>1. at[Swp(k)] = "sweepFree"
    <3> SUFFICES ASSUME at[Swp(k)] # "sweepFree" PROVE FALSE
      OBVIOUS
    <3>0. op \in [Calls -> OperationRecord] /\ op[k] \in OperationRecord
      BY <1>1 DEF Inv, Shapes
    <3>1. CASE op' = op
      BY <1>1, <3>1
    <3>2. CASE op' = [op EXCEPT ![k] = settle_from_outcome(@, at[Swp(k)] = "sweepFree")]
      <4> DEFINE new == settle_from_outcome(op[k], at[Swp(k)] = "sweepFree")
      <4>1. new.lock = (op[k].lock /\ ~(at[Swp(k)] = "sweepFree"))
        BY <3>0 DEF settle_from_outcome, OperationRecord
      <4> HIDE DEF new
      <4>2. op'[k] = new
        BY <3>0, <3>2 DEF new
      <4> QED
        BY <1>1, <4>1, <4>2
    <3> QED
      BY <1>1, <3>1, <3>2 DEF SweepWrite, Persists
  <2>2. CASE lockHolder = NoSession
    BY <2>2, DeviceAssumption
  <2>3. CASE lockHolder # NoSession
    BY <1>1, <2>1, <2>3 DEF SweepInv, FreeInv
  <2> QED
    BY <2>2, <2>3
<1>2. Inv /\ SweepInv =>
        [\A k \in Calls : SweepWrite(k) /\ op[k].lock /\ ~op'[k].lock =>
           \/ \A s \in Sessions : sst[s] = "gone" => lockHolder # s
           \/ \E j \in Calls \ {k} : op[j].lock]_vars
  BY <1>1
<1> QED
  BY <1>2, ApplyIsExclusive, SweepHolds, PTL DEF SweptLockIsFree
=============================================================================
