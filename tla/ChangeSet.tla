----------------------------- MODULE ChangeSet -----------------------------
(***************************************************************************)
(* tools/changeset.rs and changeset_recovery.rs: change sets planned,      *)
(* approved, applied, confirmed and cancelled on one device, the cleanup   *)
(* of a failed apply, the crash of the server and the sweep that re-probes *)
(* interrupted commits when it starts again.                               *)
(*                                                                         *)
(* The elements of Calls are the change sets.  Their records live in the   *)
(* mecmcp_changeset coordinator, a library outside the repository: it      *)
(* persists every write, which may fail, refuses a second unsettled        *)
(* operation on the device, and on load turns every unsettled operation    *)
(* into Indeterminate.  Device time is abstracted to the order of events.  *)
(***************************************************************************)
EXTENDS JunosTransaction, Naturals

CONSTANT MaxCrashes   \* bound: how often the server dies

ASSUME MaxCrashesAssumption == MaxCrashes \in Nat

VARIABLES csState,   \* ChangeSetRecord.state
          op,        \* OperationRecord of the change set's apply
          pre,       \* pre_stage_fingerprint
          outcome,   \* what the apply handler knows of its commit
          at,        \* position of each task of a change set
          sess,      \* the session such a task holds
          up,        \* the server process is running
          crashes    \* how often it has died

recVars == <<csState, op>>
taskVars == <<pre, outcome, at, sess>>
srvVars == <<up, crashes>>
vars == <<devVars, poolVars, commitLog, recVars, taskVars, srvVars>>

\* The apply and the confirm handler, and the sweep's probe of a change set.
Tasks == Calls \X {"apply", "confirm", "sweep"}

ChangeSetStates == {"none", "Planned", "Approved", "Applying", "Applied", "Failed",
                    "Cancelled"}
Terminal == {"Committed", "Discarded"}
LifecycleStates == Terminal \cup {"none", "Staging", "Staged", "Validated",
                                  "Committing", "Indeterminate", "Failed"}
OperationRecord == [state : LifecycleStates,
                    lock : BOOLEAN,          \* config_lock_held
                    attr : BOOLEAN,          \* attribution, written with Committing
                    deadline : {"none", "open", "past"}]   \* rollback_deadline_unix
NoOp == [state |-> "none", lock |-> FALSE, attr |-> FALSE, deadline |-> "none"]

Outcomes == {"none", "committed", "awaiting", "notCommitted", "unknown"}
PCs == {"idle", "open", "lock", "fingerprint", "unlock", "stage", "unstage", "fail",
        "validate", "precommit", "commit", "commitUnlock", "record", "release",
        "readRecord", "markUnknown", "readBack", "unlockGood", "unlockBad", "settleOp",
        "settleSet", "confirm", "closeGood", "closeBad", "confirmWrite", "snapshot",
        "reprobe", "reread", "sweepUnlock", "sweepFree", "sweepWrite"}

TypeOK ==
  /\ DeviceTypeOK /\ PoolTypeOK
  /\ commitLog \in [Calls -> LogEntries]
  /\ csState \in [Calls -> ChangeSetStates]
  /\ op \in [Calls -> OperationRecord]
  /\ pre \in [Calls -> SUBSET Authors]
  /\ outcome \in [Calls -> Outcomes]
  /\ at \in [Tasks -> PCs]
  /\ sess \in [Tasks -> Sessions \cup {NoSession}]
  /\ up \in BOOLEAN
  /\ crashes \in 0..MaxCrashes

Init ==
  /\ DeviceInit /\ PoolInit
  /\ commitLog = [k \in Calls |-> "none"]
  /\ csState = [k \in Calls |-> "none"]
  /\ op = [k \in Calls |-> NoOp]
  /\ pre = [k \in Calls |-> {}]
  /\ outcome = [k \in Calls |-> "none"]
  /\ at = [a \in Tasks |-> "idle"]
  /\ sess = [a \in Tasks |-> NoSession]
  /\ up = TRUE
  /\ crashes = 0

(***************************************************************************)
(* Steps of a task.                                                        *)
(***************************************************************************)

Apl(k) == <<k, "apply">>
Cfm(k) == <<k, "confirm">>
Swp(k) == <<k, "sweep">>

Goes(a, p) == at' = [at EXCEPT ![a] = p] /\ UNCHANGED sess
\* The task gives up its session on the way to p.
Drops(a, p) == at' = [at EXCEPT ![a] = p] /\ sess' = [sess EXCEPT ![a] = NoSession]

SetState(k, st) == op' = [op EXCEPT ![k].state = st]

\* coordinator.update and update_change_set write, or fail and are only logged.
Persists(write, var) == write \/ UNCHANGED var

\* A record the coordinator counts as "active or unreconciled".
Active(k) == op[k].state \notin Terminal \cup {"none"}

(***************************************************************************)
(* Planning: create, approve (or the waiver of lab mode), cancel.          *)
(***************************************************************************)

Sets(k, from, to) ==
  /\ up
  /\ csState[k] \in from
  /\ csState' = [csState EXCEPT ![k] = to]
  /\ UNCHANGED <<devVars, poolVars, commitLog, op, taskVars, srvVars>>

CreateChangeSet(k) == Sets(k, {"none"}, "Planned")
ApproveChangeSet(k) == Sets(k, {"Planned"}, "Approved")
CancelChangeSet(k) == Sets(k, {"Planned", "Approved"}, "Cancelled")

(***************************************************************************)
(* coordinator.apply_change_set: claim, lock, fingerprint, stage.          *)
(***************************************************************************)

ApplyChangeSet(k) ==
  /\ up
  /\ csState[k] = "Approved"
  /\ at[Apl(k)] = "idle"
  /\ \A j \in Calls : ~Active(j)
  /\ csState' = [csState EXCEPT ![k] = "Applying"]
  /\ op' = [op EXCEPT ![k] = [NoOp EXCEPT !.state = "Staging"]]
  /\ Goes(Apl(k), "open")
  /\ UNCHANGED <<devVars, poolVars, commitLog, pre, outcome, srvVars>>

\* The first lock of an apply, as opposed to the probe of its cleanup.
Staging(a) == a[2] = "apply" /\ op[a[1]].state = "Staging"

\* Where a task goes that could not get or keep its session.
WithoutSession(a) ==
  CASE a[2] = "confirm" -> "idle"
    [] a[2] = "sweep" -> "sweepWrite"
    [] Staging(a) -> "fail"
    [] OTHER -> "settleSet"

Open(a) ==
  /\ at[a] = "open"
  /\ \/ \E s \in Sessions :
          /\ OpenSession(s)
          /\ sess' = [sess EXCEPT ![a] = s]
          /\ at' = [at EXCEPT ![a] = IF a[2] = "confirm" THEN "confirm" ELSE "lock"]
     \/ Drops(a, WithoutSession(a)) /\ UNCHANGED <<devVars, poolVars>>
  /\ UNCHANGED <<commitLog, recVars, pre, outcome, srvVars>>

WithLock(a) ==
  CASE a[2] = "sweep" -> "sweepUnlock"
    [] Staging(a) -> "fingerprint"
    [] OTHER -> "readBack"

Lock(a) ==
  /\ at[a] = "lock"
  /\ \E reply \in Replies :
       /\ TxLock(sess[a], reply)
       /\ IF reply = "ok"
            THEN /\ Goes(a, WithLock(a))
                 /\ op' = [op EXCEPT ![a[1]].lock = @ \/ Staging(a)]
            ELSE Drops(a, WithoutSession(a)) /\ UNCHANGED op
  /\ UNCHANGED <<commitLog, csState, pre, outcome, srvVars>>

\* The coordinator compares the candidate with expected_fingerprint under the lock.
CheckFingerprint(k) ==
  LET a == Apl(k) IN
  /\ at[a] = "fingerprint"
  /\ \E reply \in Replies :
       /\ ReadRpc(sess[a], reply)
       /\ \/ reply = "ok" /\ Goes(a, "stage") /\ pre' = [pre EXCEPT ![k] = Fingerprint]
          \/ Goes(a, "unlock") /\ UNCHANGED pre
  /\ UNCHANGED <<poolVars, commitLog, recVars, outcome, srvVars>>

\* Where each caller of unlock() goes, when it came back and when it did not.
AfterUnlock(p, returned) ==
  CASE p = "unlock" -> "fail"
    [] p = "unlockGood" -> IF returned THEN "settleOp" ELSE "settleSet"
    [] p = "unlockBad" -> "settleSet"
    [] p = "sweepUnlock" -> IF returned THEN "sweepFree" ELSE "sweepWrite"

Unlock(a) ==
  /\ at[a] \in {"unlock", "unlockGood", "unlockBad", "sweepUnlock"}
  /\ \E reply \in Replies :
       /\ TxUnlock(sess[a], reply)
       /\ Drops(a, AfterUnlock(at[a], reply = "ok"))
  /\ UNCHANGED <<commitLog, recVars, pre, outcome, srvVars>>

\* stage(): the loads, then the diff.  Success marks the change set Applied.
Stage(k) ==
  LET a == Apl(k)
      s == sess[a] IN
  /\ at[a] = "stage"
  /\ \E reply \in Replies :
       /\ TxLoad(s, k, reply)
       /\ \/ /\ reply = "ok"
             /\ Goes(a, "validate")
             /\ csState' = [csState EXCEPT ![k] = "Applied"]
             /\ SetState(k, "Staged")
             /\ UNCHANGED sst
          \/ /\ reply \in {"refused", "lost"}
             /\ Goes(a, "unstage")
             /\ UNCHANGED <<recVars, sst>>
          \/ /\ reply \in {"ok", "dropped"}   \* the diff fails, or stage() is dropped
             /\ Drops(a, "fail")
             /\ sst' = [sst EXCEPT ![s] = "closing"]
             /\ UNCHANGED recVars
  /\ UNCHANGED <<commitLog, pre, outcome, srvVars>>

Unstage(k) ==
  /\ at[Apl(k)] = "unstage"
  /\ TxUnstage(sess[Apl(k)])
  /\ Drops(Apl(k), "fail")
  /\ UNCHANGED <<commitLog, recVars, pre, outcome, srvVars>>

\* A staging failure: the change set is Failed, its operation is removed or left
\* Failed, which is not terminal.
StageFailed(k) ==
  /\ at[Apl(k)] = "fail"
  /\ csState' = [csState EXCEPT ![k] = "Failed"]
  /\ op' \in {[op EXCEPT ![k] = NoOp], [op EXCEPT ![k].state = "Failed"]}
  /\ Goes(Apl(k), "idle")
  /\ UNCHANGED <<devVars, poolVars, commitLog, pre, outcome, srvVars>>

(***************************************************************************)
(* The apply handler after staging: diff and validate, commit, record.     *)
(***************************************************************************)

\* The handler turns to the cleanup of a failed apply.
Abandons(k, known) ==
  /\ outcome' = [outcome EXCEPT ![k] = known]
  /\ Goes(Apl(k), "release")

\* diff_operation, validate_operation and the verdict of commit check.
Validate(k) ==
  /\ at[Apl(k)] = "validate"
  /\ \E reply \in Replies :
       /\ ReadRpc(sess[Apl(k)], reply)
       /\ \/ /\ reply = "ok"
             /\ SetState(k, "Validated")
             /\ Goes(Apl(k), "precommit")
             /\ UNCHANGED outcome
          \/ /\ Abandons(k, "notCommitted")
             /\ UNCHANGED op
  /\ UNCHANGED <<poolVars, commitLog, csState, pre, srvVars>>

\* commit_operation persists Committing and the attribution just before the RPC;
\* its own checks may refuse earlier, as an error like any other.
PersistCommitting(k) ==
  /\ at[Apl(k)] = "precommit"
  /\ \/ /\ op' = [op EXCEPT ![k].state = "Committing", ![k].attr = TRUE]
        /\ Goes(Apl(k), "commit")
        /\ UNCHANGED outcome
     \/ /\ Abandons(k, "unknown")
        /\ UNCHANGED op
  /\ UNCHANGED <<devVars, poolVars, commitLog, csState, pre, srvVars>>

\* What commit() and confirmed_commit_on_session make of the reply.  A refused
\* confirmed commit is an error of commit_operation and is never recorded.
CommitOutcome(confirmed, reply) ==
  CASE reply = "ok" -> IF confirmed THEN "awaiting" ELSE "committed"
    [] reply = "refused" -> IF confirmed THEN "unknown" ELSE "notCommitted"
    [] OTHER -> "unknown"

Commit(k) ==
  LET a == Apl(k) IN
  /\ at[a] = "commit"
  /\ \E confirmed \in BOOLEAN, reply \in Replies \ {"dropped"} :
       /\ TxCommit(sess[a], k, confirmed, reply)
       /\ outcome' = [outcome EXCEPT ![k] = CommitOutcome(confirmed, reply)]
       /\ Goes(a, CASE reply = "ok" /\ ~confirmed -> "commitUnlock"
                    [] reply = "refused" /\ confirmed -> "release"
                    [] OTHER -> "record")
  /\ UNCHANGED <<recVars, pre, srvVars>>

\* A commit whose lock release fails is Indeterminate.
CommitUnlock(k) ==
  LET a == Apl(k) IN
  /\ at[a] = "commitUnlock"
  /\ \E reply \in Replies \ {"dropped"} :
       /\ TxCommitUnlock(sess[a], reply)
       /\ outcome' = [outcome EXCEPT
                        ![k] = IF reply = "ok" THEN "committed" ELSE "unknown"]
  /\ Goes(a, "record")
  /\ UNCHANGED <<commitLog, recVars, pre, srvVars>>

\* Mutant: a provisional commit is recorded as settled.
RecordedAwaitingSettled(r, known) ==
  CASE known \in {"committed", "awaiting"} ->
         [r EXCEPT !.state = "Committed", !.lock = FALSE]
    [] known = "notCommitted" -> [r EXCEPT !.state = "Failed"]
    [] known = "unknown" -> [r EXCEPT !.state = "Indeterminate"]

\* The record commit_operation persists for an outcome.
Recorded(r, known) ==
  CASE known = "committed" -> [r EXCEPT !.state = "Committed", !.lock = FALSE]
    [] known = "awaiting" -> [r EXCEPT !.deadline = "open"]
    [] known = "notCommitted" -> [r EXCEPT !.state = "Failed"]
    [] known = "unknown" -> [r EXCEPT !.state = "Indeterminate"]

\* The outcome is persisted and the handler returns or abandons; when the write
\* itself fails, commit_operation returns an error and Committing stays.
RecordOutcome(k) ==
  LET a == Apl(k)
      s == sess[a] IN
  /\ at[a] = "record"
  /\ \/ /\ op' = [op EXCEPT ![k] = Recorded(@, outcome[k])]
        /\ IF outcome[k] \in {"committed", "awaiting"}
             THEN /\ Drops(a, "idle")
                  /\ sst' = [sst EXCEPT ![s] = DropTo(s, TRUE)]
                  /\ outcome' = [outcome EXCEPT ![k] = "none"]
             ELSE Goes(a, "release") /\ UNCHANGED <<sst, outcome>>
     \/ Abandons(k, "unknown") /\ UNCHANGED <<op, sst>>
  /\ UNCHANGED <<devVars, alive, touched, dbOpen, taint, commitLog, csState, pre,
                 srvVars>>

(***************************************************************************)
(* abandon_failed_apply.                                                   *)
(***************************************************************************)

Release(k) ==
  LET a == Apl(k) IN
  /\ at[a] = "release"
  /\ \E released \in BOOLEAN :
       /\ TxRelease(sess[a], released)
       /\ Drops(a, IF released THEN "readRecord" ELSE "settleSet")
  /\ UNCHANGED <<commitLog, recVars, pre, outcome, srvVars>>

\* A commit error without Committing on record means the RPC was never sent.
AbandonOutcome(k) ==
  IF op[k].state \in {"Committing", "Indeterminate"} THEN outcome[k] ELSE "notCommitted"

\* Unknown outcomes are not probed: they end Indeterminate whatever a probe says.
ReadRecord(k) ==
  /\ at[Apl(k)] = "readRecord"
  /\ \E p \in {IF AbandonOutcome(k) = "unknown" THEN "markUnknown" ELSE "open",
               "settleSet"} : Goes(Apl(k), p)
  /\ UNCHANGED <<devVars, poolVars, commitLog, recVars, pre, outcome, srvVars>>

\* The record read before goes back whole, with the lock flag it had then: what a
\* sweep wrote in between is lost.
MarkUnknown(k) ==
  /\ at[Apl(k)] = "markUnknown"
  /\ Persists(op' = [op EXCEPT ![k].state = "Indeterminate", ![k].lock = TRUE], op)
  /\ Goes(Apl(k), "settleSet")
  /\ UNCHANGED <<devVars, poolVars, commitLog, csState, pre, outcome, srvVars>>

\* Mutant: reading the candidate back is taken for the proof of the revert.
RevertedAlways(k) == TRUE

\* The candidate is back at its pre-stage fingerprint.
Reverted(k) == Fingerprint = pre[k]

\* The fingerprint is read back under the lock of the probe.
ReadBack(k) ==
  LET a == Apl(k) IN
  /\ at[a] = "readBack"
  /\ \E reply \in Replies :
       /\ ReadRpc(sess[a], reply)
       /\ Goes(a, IF reply = "ok" /\ Reverted(k) THEN "unlockGood" ELSE "unlockBad")
  /\ UNCHANGED <<poolVars, commitLog, recVars, pre, outcome, srvVars>>

SettleDiscarded(k) ==
  /\ at[Apl(k)] = "settleOp"
  /\ Persists(op' = [op EXCEPT ![k].state = "Discarded", ![k].lock = FALSE], op)
  /\ Goes(Apl(k), "settleSet")
  /\ UNCHANGED <<devVars, poolVars, commitLog, csState, pre, outcome, srvVars>>

SettleChangeSet(k) ==
  /\ at[Apl(k)] = "settleSet"
  /\ Persists(csState' = [csState EXCEPT ![k] = "Failed"], csState)
  /\ outcome' = [outcome EXCEPT ![k] = "none"]
  /\ Goes(Apl(k), "idle")
  /\ UNCHANGED <<devVars, poolVars, commitLog, op, pre, srvVars>>

(***************************************************************************)
(* confirm_change_set.                                                     *)
(***************************************************************************)

\* The record carries a deadline and the server's clock has not reached it.
ConfirmChangeSet(k) ==
  /\ up
  /\ at[Cfm(k)] = "idle"
  /\ op[k].deadline = "open"
  /\ Goes(Cfm(k), "open")
  /\ UNCHANGED <<devVars, poolVars, commitLog, recVars, pre, outcome, srvVars>>

ConfirmCommit(k) ==
  LET a == Cfm(k) IN
  /\ at[a] = "confirm"
  /\ \E reply \in Replies \ {"dropped"} :
       /\ TxConfirmCommit(sess[a], reply)
       /\ Goes(a, IF reply = "ok" THEN "closeGood" ELSE "closeBad")
  /\ UNCHANGED <<commitLog, recVars, pre, outcome, srvVars>>

\* A failed close does not change the outcome.
ConfirmClose(k) ==
  LET a == Cfm(k) IN
  /\ at[a] \in {"closeGood", "closeBad"}
  /\ TxConfirmClose(sess[a])
  /\ Drops(a, IF at[a] = "closeGood" THEN "confirmWrite" ELSE "idle")
  /\ UNCHANGED <<commitLog, recVars, pre, outcome, srvVars>>

ConfirmRecord(k) ==
  /\ at[Cfm(k)] = "confirmWrite"
  /\ Persists(op' = [op EXCEPT ![k].state = "Committed", ![k].deadline = "none"], op)
  /\ Goes(Cfm(k), "idle")
  /\ UNCHANGED <<devVars, poolVars, commitLog, csState, pre, outcome, srvVars>>

\* The recorded deadline was computed after the reply: it never passes before the
\* device's own timer has fired or was cancelled.
DeadlinePasses(k) ==
  /\ op[k].deadline = "open"
  /\ k \notin winEdits
  /\ op' = [op EXCEPT ![k].deadline = "past"]
  /\ UNCHANGED <<devVars, poolVars, commitLog, csState, taskVars, srvVars>>

(***************************************************************************)
(* Crash, `state resolve`, restart, sweep_crashed_commits.                 *)
(***************************************************************************)

Crash ==
  /\ up /\ crashes < MaxCrashes
  /\ up' = FALSE
  /\ crashes' = crashes + 1
  /\ at' = [a \in Tasks |-> "idle"]
  /\ sess' = [a \in Tasks |-> NoSession]
  /\ outcome' = [k \in Calls |-> "none"]
  /\ pre' = [k \in Calls |-> {}]
  /\ sst' = [s \in Sessions |-> IF sst[s] = "none" THEN "none" ELSE "gone"]
  /\ touched' = [s \in Sessions |-> FALSE]
  /\ dbOpen' = [s \in Sessions |-> FALSE]
  /\ taint' = FALSE
  /\ UNCHANGED <<devVars, alive, commitLog, recVars>>

\* An operator who looked at the device settles a record while the server is
\* stopped; the deadline stays on it.
StateResolve(k) ==
  /\ ~up /\ Active(k)
  /\ \E st \in Terminal :
       /\ st = "Committed" => k \in running \ winEdits
       /\ st = "Discarded" => k \notin running \cup candidate
       /\ op' = [op EXCEPT ![k].state = st, ![k].lock = FALSE]
  /\ UNCHANGED <<devVars, poolVars, commitLog, csState, taskVars, srvVars>>

\* ChangesetCoordinator::load, then the sweep is spawned.
Start ==
  /\ ~up
  /\ up' = TRUE
  /\ op' = [k \in Calls |-> IF Active(k) THEN [op[k] EXCEPT !.state = "Indeterminate"]
                                         ELSE op[k]]
  /\ csState' \in {csState, [k \in Calls |-> IF csState[k] = "Applying" THEN "Failed"
                                                                     ELSE csState[k]]}
  /\ at' = [a \in Tasks |-> IF a[2] = "sweep" THEN "snapshot" ELSE "idle"]
  /\ UNCHANGED <<devVars, poolVars, commitLog, pre, outcome, sess, crashes>>

is_reprobe_candidate(k) == op[k].state = "Indeterminate" /\ op[k].attr

\* coordinator.operations(), filtered.
SweepSnapshot ==
  /\ \E k \in Calls : at[Swp(k)] = "snapshot"
  /\ at' = [a \in Tasks |->
              IF at[a] # "snapshot" THEN at[a]
              ELSE IF is_reprobe_candidate(a[1]) THEN "reprobe" ELSE "idle"]
  /\ UNCHANGED <<devVars, poolVars, commitLog, recVars, pre, outcome, sess, srvVars>>

\* Mutant: the commit log alone decides, whichever kind of commit it names.
SettlesAnyHit(k) == commitLog[k] # "none"

\* reprobe_operation: the id is in the commit log, and neither the log nor the
\* record says that the commit was a confirmed one.
Settles(k) == commitLog[k] = "plain" /\ op[k].deadline = "none"

\* A miss, a provisional commit, an unreachable device and the end of the sweep's
\* time all leave the record alone.
Reprobe(k) ==
  /\ at[Swp(k)] = "reprobe"
  /\ \E p \in {"idle"} \cup {q \in {"reread"} : Settles(k)} : Goes(Swp(k), p)
  /\ UNCHANGED <<devVars, poolVars, commitLog, recVars, pre, outcome, srvVars>>

\* still_a_candidate, then probe_lock_freedom (Open, Lock, Unlock).
Reread(k) ==
  /\ at[Swp(k)] = "reread"
  /\ Goes(Swp(k), IF is_reprobe_candidate(k) THEN "open" ELSE "idle")
  /\ UNCHANGED <<devVars, poolVars, commitLog, recVars, pre, outcome, srvVars>>

\* Mutant: a commit found in the log clears the lock flag without a probe.
SettledUnlocked(r, proven) == [r EXCEPT !.state = "Committed", !.lock = FALSE]

\* settle_from_outcome: the lock flag is cleared only when the probe proved it.
settle_from_outcome(r, proven) ==
  [r EXCEPT !.state = "Committed", !.lock = @ /\ ~proven]

SweepWrite(k) ==
  /\ at[Swp(k)] \in {"sweepFree", "sweepWrite"}
  /\ Persists(op' = [op EXCEPT
                ![k] = settle_from_outcome(@, at[Swp(k)] = "sweepFree")], op)
  /\ Goes(Swp(k), "idle")
  /\ UNCHANGED <<devVars, poolVars, commitLog, csState, pre, outcome, srvVars>>

(***************************************************************************)
(* The system.                                                             *)
(***************************************************************************)

Request(k) ==
  \/ CreateChangeSet(k) \/ ApproveChangeSet(k) \/ CancelChangeSet(k)
  \/ ApplyChangeSet(k) \/ ConfirmChangeSet(k)

Step(k) ==
  \/ \E a \in Tasks : a[1] = k /\ (Open(a) \/ Lock(a) \/ Unlock(a))
  \/ CheckFingerprint(k) \/ Stage(k) \/ Unstage(k) \/ StageFailed(k)
  \/ Validate(k) \/ PersistCommitting(k) \/ Commit(k) \/ CommitUnlock(k)
  \/ RecordOutcome(k) \/ Release(k) \/ ReadRecord(k) \/ MarkUnknown(k)
  \/ ReadBack(k) \/ SettleDiscarded(k) \/ SettleChangeSet(k)
  \/ ConfirmCommit(k) \/ ConfirmClose(k) \/ ConfirmRecord(k)
  \/ Reprobe(k) \/ Reread(k) \/ SweepWrite(k)

Environment ==
  \/ PoolTasks
  \/ /\ WindowExpires \/ \E o \in Operators : OperatorEdit(o) \/ OperatorFinish(o)
     /\ UNCHANGED poolVars

Next ==
  \/ \E k \in Calls : Request(k)
  \/ \E k \in Calls : Step(k)
  \/ \E k \in Calls : DeadlinePasses(k)
  \/ \E k \in Calls : StateResolve(k)
  \/ Crash \/ Start \/ SweepSnapshot
  \/ Environment /\ UNCHANGED <<commitLog, recVars, taskVars, srvVars>>

Spec == Init /\ [][Next]_vars

(***************************************************************************)
(* Properties.                                                             *)
(***************************************************************************)

\* A record that says Discarded tells the truth: the change is neither in the
\* running configuration nor left in the shared candidate.
DiscardedMeansGone ==
  \A k \in Calls : op[k].state = "Discarded" => k \notin running \cup candidate

\* The sweep settles only commits that are permanent: the change is live and no
\* rollback timer can still take it back.
SweepSettlesPermanent ==
  [][\A k \in Calls : SweepWrite(k) /\ op' # op => k \in running \ winEdits]_vars

\* The commit of an apply activates at most its own change.
CommitActivatesOwnChange ==
  [][\A k \in Calls : Commit(k) => running' \ running \subseteq {k}]_vars

\* The sweep clears config_lock_held only when no session that died with the
\* process, or was shut since, still has the candidate lock, or when another record
\* still says that it is held.  (Two records of the device are unsettled at once
\* after MarkUnknown wrote over what the sweep had settled; then their probes race.)
SweptLockIsFree ==
  [][\A k \in Calls : SweepWrite(k) /\ op[k].lock /\ ~op'[k].lock =>
       \/ \A s \in Sessions : sst[s] = "gone" => lockHolder # s
       \/ \E j \in Calls \ {k} : op[j].lock]_vars

\* The promise of ChangeControl, read off the records and the device: a change
\* set has the device while its operation is unsettled.
phaseOf(st) ==
  CASE st = "none" -> "none"
    [] st = "Planned" -> "planned"
    [] st = "Approved" -> "approved"
    [] st = "Cancelled" -> "cancelled"
    [] OTHER -> "taken"

Control == INSTANCE ChangeControl WITH
  Changes <- Calls,
  phase <- [k \in Calls |-> phaseOf(csState[k])],
  claim <- {k \in Calls : Active(k)},
  live <- running \cap Calls

\* Through crashes, lost replies, failed writes, the sweep and late confirms, the
\* change sets implement ChangeControl: an approval is spent once and only on a
\* device no other change has, and the effect of a settled change is final.
ImplementsChangeControl == Control!Spec

(***************************************************************************)
(* Statements of the repository that the code does not keep.               *)
(***************************************************************************)

\* lock(): "a session carrying a lock must never go back to the pool for someone
\* else to pick up".
LockedSessionNeverPooled ==
  \A s \in Sessions : sst[s] = "pooled" => lockHolder # s

\* still_a_candidate: "Anything that reached a terminal state in the meantime ...
\* is the newer truth and must not be written over by a verdict formed before it
\* happened".  MarkUnknown does, to what the sweep settled.
SettledStaysSettled ==
  [][\A k \in Calls : op[k].state \in Terminal => op'[k].state \in Terminal]_vars

\* confirm_change_set: an expired window is reported "rather than issuing a
\* confirming commit that would land on whatever the device rolled back to":
\* what a confirm records as Committed is live.
ConfirmedMeansLive ==
  [][\A k \in Calls : ConfirmRecord(k) /\ op' # op => k \in running]_vars
=============================================================================
