------------------------ MODULE CandidateTransaction ------------------------
(***************************************************************************)
(* tools/candidate_transaction.rs: tool calls that edit one router through *)
(* its shared candidate, running concurrently in the server, over the      *)
(* session pool of device_manager.rs.  Every call opens a session, runs    *)
(* the RPCs of its mode, cleans the candidate up and gives the session     *)
(* back.  The calls that only use the pool (run_cli) and the one that      *)
(* commits without a lock (confirm_commit) run beside them.                *)
(*                                                                         *)
(* Each RPC is one step, with one of the replies of SessionPool.           *)
(***************************************************************************)
EXTENDS SessionPool

CONSTANT Modes   \* the modes the calls of an instance may use

VARIABLES pc,       \* where each call is
          mode,     \* what it is asked to do, while it runs
          sessOf,   \* the session its PooledDevice guard owns
          primary,  \* outcome of the primary operation
          rbErr,    \* CleanupFailures.rollback is set
          ulErr     \* CleanupFailures.unlock is set

callVars == <<pc, mode, sessOf, primary, rbErr, ulErr>>
vars == <<devVars, poolVars, callVars>>

CommitModes == {"commit", "confirmed"}
LockingModes == {"dryrun", "check"} \cup CommitModes
AllModes == LockingModes \cup {"discard", "cli", "confirm"}

ASSUME ModesAssumption == Modes \subseteq AllModes

\* Positions where the call's guard owns a session.
HoldingPcs == {"lock", "discard", "load", "diff", "check", "commit", "rollback",
               "unlock", "finish", "close", "cli", "recli", "confirm",
               "confirmClose"}
PCs == HoldingPcs \cup {"idle", "open", "connect", "fresh", "reconnect", "record",
                        "done"}
Outcomes == {"none", "rejected", "ok", "committed", "commitFailed", "err", "dropped",
             "aborted"}

CallTypeOK ==
  /\ pc \in [Calls -> PCs]
  /\ mode \in [Calls -> AllModes \cup {"none"}]
  /\ sessOf \in [Calls -> Sessions \cup {NoSession}]
  /\ primary \in [Calls -> Outcomes]
  /\ rbErr \in [Calls -> BOOLEAN]
  /\ ulErr \in [Calls -> BOOLEAN]

TypeOK == DeviceTypeOK /\ PoolTypeOK /\ CallTypeOK

Init ==
  /\ DeviceInit
  /\ PoolInit
  /\ pc = [c \in Calls |-> "idle"]
  /\ mode = [c \in Calls |-> "none"]
  /\ sessOf = [c \in Calls |-> NoSession]
  /\ primary = [c \in Calls |-> "none"]
  /\ rbErr = [c \in Calls |-> FALSE]
  /\ ulErr = [c \in Calls |-> FALSE]

(***************************************************************************)
(* Tool handlers: validation, inventory, authority and policy checks       *)
(* either reject the call before anything is opened or fix its mode.       *)
(***************************************************************************)

Goto(c, p) == pc' = [pc EXCEPT ![c] = p]

Handle(c, modes) ==
  /\ pc[c] = "idle"
  /\ \/ /\ Goto(c, "done")
        /\ primary' = [primary EXCEPT ![c] = "rejected"]
        /\ UNCHANGED mode
     \/ \E m \in modes \cap Modes :
          /\ mode' = [mode EXCEPT ![c] = m]
          /\ Goto(c, "open")
          /\ UNCHANGED primary
  /\ UNCHANGED <<sessOf, rbErr, ulErr>>
  /\ UNCHANGED <<devVars, poolVars>>

\* confirm_timeout_mins: omitted or >= 1 is a confirmed commit, 0 opts out.
ResolveConfirmTimeout == CommitModes

LoadAndCommitConfig(c) == Handle(c, ResolveConfirmTimeout)
CommitCheckConfig(c) == Handle(c, {"check"})
RollbackConfig(c) == Handle(c, {"dryrun"} \cup ResolveConfirmTimeout)
RenderAndApplyTemplate(c) == Handle(c, {"dryrun"} \cup ResolveConfirmTimeout)
DiscardCandidateConfig(c) == Handle(c, {"discard"})
ConfirmCommitTool(c) == Handle(c, {"confirm"})
ExecuteJunosCommand(c) == Handle(c, {"cli"})

(***************************************************************************)
(* Opening a session.                                                      *)
(***************************************************************************)

\* Mutant: execute() does not handle Discard before primary_operation's
\* unreachable!().
FirstStepUnreachable(c) ==
  CASE mode[c] = "discard" -> "unreachable"
    [] mode[c] = "cli" -> "cli"
    [] mode[c] = "confirm" -> "confirm"
    [] OTHER -> "lock"

\* The call's first RPC once it owns a session.
FirstStep(c) ==
  CASE mode[c] \in LockingModes -> "lock"
    [] mode[c] = "discard" -> "discard"
    [] mode[c] = "cli" -> "cli"
    [] mode[c] = "confirm" -> "confirm"

\* run() has called prevent_reuse on its guard; run_cli and confirm_commit
\* leave reuse allowed.
ReuseAllowed(c) == mode[c] \in {"cli", "confirm"}

\* The call takes ownership of session s and goes to p.
Owns(c, s, p) ==
  /\ sessOf' = [sessOf EXCEPT ![c] = s]
  /\ Goto(c, p)
  /\ UNCHANGED <<mode, primary, rbErr, ulErr>>

\* The call returns `outcome`; its request and its session are gone.
Ends(c, outcome) ==
  /\ Goto(c, "done")
  /\ mode' = [mode EXCEPT ![c] = "none"]
  /\ primary' = [primary EXCEPT ![c] = outcome]
  /\ sessOf' = [sessOf EXCEPT ![c] = NoSession]
  /\ UNCHANGED <<rbErr, ulErr>>

\* Only the position of the call changes.
Moves(c, p) ==
  /\ Goto(c, p)
  /\ UNCHANGED <<mode, sessOf, primary, rbErr, ulErr>>

\* open(): the pool first; an empty slot or a session found stale there falls
\* through to a fresh connection.
TryCheckout(c) ==
  /\ pc[c] = "open"
  /\ \/ \E s \in Sessions : CheckoutHit(s) /\ Owns(c, s, FirstStep(c))
     \/ \E s \in Sessions : CheckoutStale(s) /\ Moves(c, "connect")
     \/ PoolEmpty /\ UNCHANGED poolVars /\ Moves(c, "connect")
  /\ UNCHANGED devVars

Connect(c) ==
  /\ pc[c] = "connect"
  /\ \E s \in Sessions : ConnectFresh(s) /\ Owns(c, s, FirstStep(c))
  /\ UNCHANGED devVars

\* open() fails, or the deadline or the cancellation drops it.
OpenFails(c) ==
  /\ pc[c] \in {"open", "connect", "reconnect"}
  /\ \E outcome \in {"err", "dropped"} : Ends(c, outcome)
  /\ UNCHANGED <<devVars, poolVars>>

(***************************************************************************)
(* RPCs of the primary operation.                                          *)
(***************************************************************************)

\* An error of the primary operation: Cancelled and Timeout are told apart.
Failed(reply) == IF reply = "dropped" THEN "dropped" ELSE "err"

\* The primary operation ends with this outcome; p is the next position.
Primary(c, outcome, p) ==
  /\ primary' = [primary EXCEPT ![c] = outcome]
  /\ Goto(c, p)
  /\ UNCHANGED <<mode, sessOf, rbErr, ulErr>>

SetTouched(s) ==
  /\ touched' = [touched EXCEPT ![s] = TRUE]
  /\ UNCHANGED <<sst, alive, dbOpen, taint>>

\* Mutants: a failed lock RPC is taken for "not locked, session still clean", and
\* for "already locked by us".
LockErrorReusable(reply) == IF reply = "dropped" THEN "rollback" ELSE "finish"
LockErrorIgnored(reply) == IF reply = "dropped" THEN "rollback" ELSE "load"

\* Where execute() goes when the lock RPC fails: a dropped one runs the cleanup,
\* an error may be a lost reply to a lock that was taken and closes the session.
LockErrorTo(reply) == IF reply = "dropped" THEN "rollback" ELSE "close"

Lock(c) ==
  LET s == sessOf[c] IN
  /\ pc[c] = "lock"
  /\ \E reply \in Replies :
       /\ Rpc(s, reply, DevLock(s))
       /\ IF reply = "ok"
            THEN dbOpen' = [dbOpen EXCEPT ![s] = TRUE] /\ Moves(c, "load")
            ELSE UNCHANGED dbOpen /\ Primary(c, Failed(reply), LockErrorTo(reply))
  /\ UNCHANGED <<sst, alive, touched, taint>>

\* Discard mode: rollback 0 on the shared candidate, without the lock.
Discard(c) ==
  LET s == sessOf[c] IN
  /\ pc[c] = "discard"
  /\ \E reply \in Replies :
       /\ Rpc(s, reply, DevRevert(s))
       /\ IF reply = "ok" THEN Primary(c, "ok", "finish")
                          ELSE Primary(c, Failed(reply), "close")
  /\ SetTouched(s)

\* A load the device refuses may have been applied in part.
Load(c) ==
  LET s == sessOf[c] IN
  /\ pc[c] = "load"
  /\ \E reply \in Replies :
       /\ \/ Rpc(s, reply, DevLoad(s, c))
          \/ reply = "refused" /\ alive[s] /\ DevLoad(s, c)
       /\ IF reply = "ok" THEN Moves(c, "diff")
                          ELSE Primary(c, Failed(reply), "rollback")
  /\ SetTouched(s)

Diff(c) ==
  /\ pc[c] = "diff"
  /\ \E reply \in Replies :
       /\ ReadRpc(sessOf[c], reply)
       /\ IF reply # "ok" THEN Primary(c, Failed(reply), "rollback")
          ELSE CASE mode[c] = "dryrun" -> Primary(c, "ok", "rollback")
                 [] mode[c] = "check" -> Moves(c, "check")
                 [] OTHER -> Moves(c, "commit")
  /\ UNCHANGED poolVars

\* commit-check: a verdict or an inconclusive check is a result; only a
\* dropped RPC is an error.
CommitCheck(c) ==
  /\ pc[c] = "check"
  /\ \E reply \in Replies :
       /\ ReadRpc(sessOf[c], reply)
       /\ Primary(c, IF reply = "dropped" THEN "dropped" ELSE "ok", "rollback")
  /\ UNCHANGED poolVars

\* The commit RPC of each committing mode.
DevCommitAs(m, s) == IF m = "confirmed" THEN DevCommitConfirmed(s) ELSE DevCommit(s)

\* Mutant: the commit runs under run_step, so that a cancellation or the deadline
\* may drop it when the device has it already.
CommitDropped(c) ==
  /\ pc[c] = "commit"
  /\ \/ UNCHANGED devVars
     \/ alive[sessOf[c]] /\ DevCommitAs(mode[c], sessOf[c])
  /\ Primary(c, "dropped", "rollback")
  /\ UNCHANGED poolVars

\* ensure_active just before the commit RPC: cancelled or out of time.
CommitNotSent(c) ==
  /\ pc[c] = "commit"
  /\ Primary(c, "dropped", "rollback")
  /\ UNCHANGED <<devVars, poolVars>>

\* A sent commit is never dropped; every error of it is CommitFailed.  A
\* successful commit_with_comment clears the candidate-dirty flag; for the
\* confirmed form the repository does not say.
Commit(c) ==
  LET s == sessOf[c] IN
  /\ pc[c] = "commit"
  /\ \E reply \in Replies \ {"dropped"} :
       /\ Rpc(s, reply, DevCommitAs(mode[c], s))
       /\ IF reply = "ok"
            THEN /\ touched' \in {[touched EXCEPT ![s] = t] :
                                    t \in {FALSE, mode[c] = "confirmed"}}
                 /\ Primary(c, "committed", "unlock")
            ELSE /\ UNCHANGED touched
                 /\ Primary(c, "commitFailed", "rollback")
  /\ UNCHANGED <<sst, alive, dbOpen, taint>>

(***************************************************************************)
(* Cleanup and the end of run().                                           *)
(***************************************************************************)

\* Mutant: a cleanup phase that ran out of budget counts as done.
CleanupStepForgivesTimeout(reply) == reply \notin {"ok", "dropped"}

\* cleanup_step: an error and an exhausted budget ("dropped") both fail the phase.
CleanupStepFails(reply) == reply # "ok"

\* cleanup(): rollback 0 first.
CleanupRollback(c) ==
  LET s == sessOf[c] IN
  /\ pc[c] = "rollback"
  /\ \E reply \in Replies :
       /\ Rpc(s, reply, DevRevert(s))
       /\ rbErr' = [rbErr EXCEPT ![c] = CleanupStepFails(reply)]
  /\ Goto(c, "unlock")
  /\ UNCHANGED <<mode, sessOf, primary, ulErr>>
  /\ SetTouched(s)

\* execute(): reusable iff cleanup succeeded and no primary RPC was dropped.
Reusable(c, unlockFails) == ~unlockFails /\ ~rbErr[c] /\ primary[c] # "dropped"

\* Mutant: a failed cleanup is tried again before the session is closed.
CleanupRepeated(c, unlockFails) ==
  IF Reusable(c, unlockFails) THEN "finish"
  ELSE IF unlockFails THEN "rollback" ELSE "close"

AfterCleanup(c, unlockFails) == IF Reusable(c, unlockFails) THEN "finish" ELSE "close"

\* Unlock is attempted even when the rollback failed.
CleanupUnlock(c) ==
  LET s == sessOf[c] IN
  /\ pc[c] = "unlock"
  /\ \E reply \in Replies :
       /\ Rpc(s, reply, DevUnlock(s))
       /\ ulErr' = [ulErr EXCEPT ![c] = CleanupStepFails(reply)]
       /\ dbOpen' = [dbOpen EXCEPT ![s] = @ /\ reply # "ok"]
       /\ Goto(c, AfterCleanup(c, CleanupStepFails(reply)))
  /\ UNCHANGED <<mode, sessOf, primary, rbErr>>
  /\ UNCHANGED <<sst, alive, touched, taint>>

\* The guard is dropped as the call returns.
Returns(c, reuse_allowed, outcome) ==
  LET s == sessOf[c] IN
  /\ sst' = [sst EXCEPT ![s] = DropTo(s, reuse_allowed)]
  /\ Ends(c, outcome)
  /\ UNCHANGED <<alive, touched, dbOpen>>

\* Reusable: clear the taint, allow_reuse, drop the guard.
Finish(c) ==
  /\ pc[c] = "finish"
  /\ Returns(c, TRUE, primary[c])
  /\ taint' = FALSE
  /\ UNCHANGED devVars

\* Not reusable: close within the cleanup budget, before returning.
CloseNow(c) ==
  LET s == sessOf[c] IN
  /\ pc[c] = "close"
  /\ Shut(s)
  /\ sessOf' = [sessOf EXCEPT ![c] = NoSession]
  /\ Goto(c, "record")
  /\ UNCHANGED <<mode, primary, rbErr, ulErr>>
  /\ UNCHANGED taint

\* A CandidateCleanupFailed result leaves a taint for the next caller.
RecordTaint(c) ==
  /\ pc[c] = "record"
  /\ taint' = (taint \/ rbErr[c] \/ ulErr[c])
  /\ Ends(c, primary[c])
  /\ UNCHANGED <<sst, alive, touched, dbOpen>>
  /\ UNCHANGED devVars

(***************************************************************************)
(* run_cli and confirm_commit.                                             *)
(***************************************************************************)

\* The command's outcome is final: the session is given back.
CliReturns(c, replies) ==
  \E reply \in replies :
    /\ ReadRpc(sessOf[c], reply)
    /\ Returns(c, ReuseAllowed(c), IF reply = "ok" THEN "ok" ELSE Failed(reply))
    /\ UNCHANGED taint

\* A transient error: the session is dropped and a fresh one opened.
CliReconnects(c) ==
  LET s == sessOf[c] IN
  /\ ReadRpc(s, "lost")
  /\ sst' = [sst EXCEPT ![s] = DropTo(s, ReuseAllowed(c))]
  /\ sessOf' = [sessOf EXCEPT ![c] = NoSession]
  /\ Goto(c, "fresh")
  /\ UNCHANGED <<mode, primary, rbErr, ulErr>>
  /\ UNCHANGED <<alive, touched, dbOpen, taint>>

Cli(c) == pc[c] = "cli" /\ (CliReturns(c, Replies \ {"lost"}) \/ CliReconnects(c))

\* open_fresh evicts the slot, then connects.
OpenFresh(c) ==
  /\ pc[c] = "fresh"
  /\ sst' = Invalidated
  /\ Moves(c, "reconnect")
  /\ UNCHANGED <<alive, touched, dbOpen, taint>>
  /\ UNCHANGED devVars

Reconnect(c) ==
  /\ pc[c] = "reconnect"
  /\ \E s \in Sessions : ConnectFresh(s) /\ Owns(c, s, "recli")
  /\ UNCHANGED devVars

\* Mutant: the retry itself is retried.
RetryCliForever(c) ==
  pc[c] = "recli" /\ (CliReturns(c, Replies \ {"lost"}) \/ CliReconnects(c))

\* The one retry.
RetryCli(c) == pc[c] = "recli" /\ CliReturns(c, Replies)

\* confirm_commit: a plain commit on the shared candidate, no lock taken.
ConfirmCommit(c) ==
  LET s == sessOf[c] IN
  /\ pc[c] = "confirm"
  /\ \E reply \in Replies \ {"dropped"} :
       /\ Rpc(s, reply, DevCommit(s))
       /\ Primary(c, IF reply = "ok" THEN "committed" ELSE "commitFailed",
                  "confirmClose")
  /\ UNCHANGED poolVars

\* close_in_place: the guard keeps no session for Drop to pool.
ConfirmClose(c) ==
  LET s == sessOf[c] IN
  /\ pc[c] = "confirmClose"
  /\ Shut(s)
  /\ Ends(c, primary[c])
  /\ UNCHANGED taint

(***************************************************************************)
(* The task of a call is dropped (a panic unwinds it, the runtime shuts    *)
(* down).  Its guard's Drop runs; the RPC it awaited may be carried out.   *)
(***************************************************************************)

InFlight(c) ==
  LET s == sessOf[c] IN
  CASE pc[c] = "lock" -> DevLock(s)
    [] pc[c] = "load" -> DevLoad(s, c)
    [] pc[c] \in {"discard", "rollback"} -> DevRevert(s)
    [] pc[c] = "commit" -> DevCommitAs(mode[c], s)
    [] pc[c] = "confirm" -> DevCommit(s)
    [] pc[c] = "unlock" -> DevUnlock(s)
    [] OTHER -> UNCHANGED devVars

Abort(c) ==
  LET s == sessOf[c]
      dirty == touched[s] \/ pc[c] \in {"load", "discard", "rollback"} IN
  /\ pc[c] \in HoldingPcs
  /\ UNCHANGED devVars \/ (alive[s] /\ InFlight(c))
  /\ touched' = [touched EXCEPT ![s] = dirty]
  /\ sst' = [sst EXCEPT ![s] =
                IF should_pool(ReuseAllowed(c), dbOpen[s], dirty) THEN "returning"
                                                                  ELSE "closing"]
  /\ Ends(c, "aborted")
  /\ UNCHANGED <<alive, dbOpen, taint>>

ToolCall(c) ==
  \/ LoadAndCommitConfig(c) \/ CommitCheckConfig(c) \/ RollbackConfig(c)
  \/ RenderAndApplyTemplate(c) \/ DiscardCandidateConfig(c)
  \/ ConfirmCommitTool(c) \/ ExecuteJunosCommand(c)

\* What the server does for a call once it has been received.
Step(c) ==
  \/ TryCheckout(c) \/ Connect(c) \/ OpenFails(c)
  \/ Lock(c) \/ Discard(c) \/ Load(c) \/ Diff(c) \/ CommitCheck(c)
  \/ CommitNotSent(c) \/ Commit(c) \/ CleanupRollback(c) \/ CleanupUnlock(c)
  \/ Finish(c) \/ CloseNow(c) \/ RecordTaint(c)
  \/ Cli(c) \/ OpenFresh(c) \/ Reconnect(c) \/ RetryCli(c)
  \/ ConfirmCommit(c) \/ ConfirmClose(c)

DeviceAlone == WindowExpires \/ \E o \in Operators : OperatorEdit(o) \/ OperatorFinish(o)

Next ==
  \/ \E c \in Calls : ToolCall(c)
  \/ \E c \in Calls : Step(c)
  \/ \E c \in Calls : Abort(c)
  \/ PoolTasks /\ UNCHANGED callVars
  \/ DeviceAlone /\ UNCHANGED <<poolVars, callVars>>

Spec == Init /\ [][Next]_vars

(***************************************************************************)
(* Fairness: the runtime polls every call and every spawned task, each     *)
(* step of a call is bounded by its deadline, the cleanup budget or the    *)
(* RPC timeout, and the device notices a closed transport.                 *)
(***************************************************************************)
Fairness ==
  /\ \A c \in Calls : WF_vars(Step(c))
  /\ \A s \in Sessions : /\ WF_vars(ReturnSession(s) /\ UNCHANGED callVars)
                         /\ WF_vars(CloseSession(s) /\ UNCHANGED callVars)
                         /\ WF_vars(DeviceEnds(s) /\ UNCHANGED callVars)

FairSpec == Spec /\ Fairness

(***************************************************************************)
(* Properties.                                                             *)
(***************************************************************************)

\* combine(): a failed cleanup phase turns every outcome into
\* CandidateCleanupFailed.
CleanupFailed(c) == rbErr[c] \/ ulErr[c]

\* A session on its way to the pool or in it holds no lock and carries no armed
\* <discard-changes/>: what Drop and should_pool exist for (#316).
PooledSessionIsClean ==
  \A s \in Sessions :
    sst[s] \in {"returning", "pooled"} => lockHolder # s /\ ~touched[s] /\ ~dbOpen[s]

\* The candidate lock is always in the hands of a call that is still going to
\* unlock or close, or of a session that is being closed: no path of execute()
\* and run() leaves a lock behind in the pool, whatever replies were lost.
LockHasOwner ==
  \A s \in Sessions : lockHolder = s =>
    \/ sst[s] \in {"closing", "gone"}
    \/ \E c \in Calls : /\ sessOf[c] = s
                        /\ pc[c] \in {"load", "diff", "check", "commit", "rollback",
                                     "unlock", "close"}

\* The commit of a transaction activates at most the call's own edits, never
\* what an operator or another call had in the shared candidate.
CommitsOnlyOwnEdits ==
  [][\A c \in Calls : Commit(c) => running' \ running \subseteq {c}]_vars

\* A call that returns anything but CandidateCleanupFailed has left none of its
\* edits in the shared candidate.
NoSilentResidue ==
  \A c \in Calls :
    pc[c] = "done" /\ c \in candidate => CleanupFailed(c) \/ primary[c] = "aborted"

\* Edits of a call are in the running configuration only if the call reported a
\* commit, a failed commit or a failed cleanup: a dry run, a check, a refusal
\* and a cancelled or timed-out call have changed nothing for good.
NoSilentCommit ==
  \A c \in Calls :
    pc[c] = "done" /\ c \in running =>
      CleanupFailed(c) \/ primary[c] \in {"committed", "commitFailed", "aborted"}

\* Every call that was received returns, whichever replies are lost.
CallReturns == \A c \in Calls : pc[c] = "open" ~> pc[c] = "done"

\* Whoever holds the candidate lock gives it up.
LockReleased == \A s \in Sessions : lockHolder = s ~> lockHolder # s

(***************************************************************************)
(* The inductive invariant behind these properties.                        *)
(***************************************************************************)

\* A call owns a session exactly at the positions of HoldingPcs, a held session
\* has exactly one owner.
SessionsOwned ==
  /\ \A c \in Calls : sessOf[c] \in Sessions <=> pc[c] \in HoldingPcs
  /\ \A c \in Calls : pc[c] \in HoldingPcs => sst[sessOf[c]] = "held"
  /\ \A c, d \in Calls : pc[c] \in HoldingPcs /\ sessOf[c] = sessOf[d] => c = d
  /\ \A s \in Sessions : sst[s] = "held" => \E c \in Calls : sessOf[c] = s

TxPcs == {"lock", "load", "diff", "check", "commit", "rollback", "unlock", "finish",
          "close", "record"}

\* The position of a call fits its mode.
ModesFit ==
  \A c \in Calls :
    /\ pc[c] \in {"open", "connect"} => mode[c] \in AllModes
    /\ pc[c] \in TxPcs \cup {"discard"} => mode[c] \in LockingModes \cup {"discard"}
    /\ pc[c] \in {"cli", "fresh", "reconnect", "recli"} => mode[c] = "cli"
    /\ pc[c] \in {"confirm", "confirmClose"} => mode[c] = "confirm"

Clean(s) == lockHolder # s /\ ~touched[s] /\ ~dbOpen[s]

\* No session the pool may hand out or take back holds the lock.
CleanBeforeUse ==
  /\ \A s \in Sessions : sst[s] = "none" => lockHolder # s
  /\ \A c \in Calls :
       /\ pc[c] \in {"lock", "discard", "cli", "recli", "confirm", "confirmClose"} =>
            Clean(sessOf[c])
       /\ pc[c] = "finish" => lockHolder # sessOf[c] /\ ~dbOpen[sessOf[c]]

EditingPcs == {"load", "diff", "check", "commit"}

\* A transaction whose session lives holds the lock from its first edit until
\* the edits are gone, and the candidate holds nothing else.
EditsUnderLock ==
  \A c \in Calls :
    /\ pc[c] \in EditingPcs /\ alive[sessOf[c]] =>
         lockHolder = sessOf[c] /\ candidate \subseteq {c}
    /\ pc[c] = "rollback" /\ alive[sessOf[c]] /\ c \in candidate =>
         lockHolder = sessOf[c]

\* Edits in the candidate are those of a call that will still roll back or that
\* reports a failed cleanup.
ResidueReported ==
  \A c \in Calls : c \in candidate =>
    \/ pc[c] \in EditingPcs \cup {"rollback"}
    \/ /\ pc[c] \in {"unlock", "finish", "close", "record", "done"}
       /\ rbErr[c] \/ primary[c] = "aborted"

\* Edits in the running configuration are reported, or those of a call whose
\* dead session makes its rollback fail.
RunningReported ==
  \A c \in Calls : c \in running =>
    \/ CleanupFailed(c)
    \/ primary[c] \in {"committed", "commitFailed", "aborted"}
    \/ pc[c] \in EditingPcs \cup {"rollback"} /\ ~alive[sessOf[c]]

EarlyPcs == PCs \ {"rollback", "unlock", "finish", "close", "confirmClose", "record",
                   "done"}

\* The outcome of a call is written once: nothing is set before its phase.
WrittenOnce ==
  \A c \in Calls :
    /\ pc[c] \in EarlyPcs => primary[c] = "none"
    /\ pc[c] \in EarlyPcs \cup {"rollback"} => ~rbErr[c] /\ ~ulErr[c]
    /\ pc[c] = "unlock" => ~ulErr[c]

SessionInv == SessionsOwned /\ ModesFit /\ CleanBeforeUse /\ PooledSessionIsClean
EditInv == EditsUnderLock /\ ResidueReported /\ RunningReported /\ WrittenOnce
IInv == TypeOK /\ SessionInv /\ EditInv

(***************************************************************************)
(* Statements of the repository that the code does not keep.               *)
(***************************************************************************)

\* CHANGELOG: "A refused lock no longer destroys an operator's uncommitted work
\* (#316)": cleanup of a transaction leaves the operator's edits alone.
RefusedLockKeepsOperatorWork ==
  [][(\E c \in Calls : CleanupRollback(c)) =>
       candidate \cap Operators \subseteq candidate']_vars

\* Drop for PooledDevice: "Every path that gives up a lock is supposed to have
\* released this session explicitly, under the lock": while no task has been
\* aborted, the discard of a spawned close never reaches an operator's edits.
SpawnedCloseSparesOperators ==
  [][(\E s \in Sessions : CloseSession(s)) /\ (\A c \in Calls : primary[c] # "aborted")
       => candidate \cap Operators \subseteq candidate']_vars

\* run(): "The device is not locked, so any prior taint was stale or resolved
\* itself": when a reusable transaction clears a recorded taint, no session the
\* server has given up still holds the lock.
TaintClearedMeansUnlocked ==
  [][taint /\ (\E c \in Calls : Finish(c)) =>
       \A s \in Sessions : sst[s] = "gone" => lockHolder # s]_vars

\* load_commit.rs: "auto-rollback in {} minutes unless confirmed": what a call
\* reported as confirmed-committed is taken back by the deadline and by nothing
\* else, as long as no transport fails.
ConfirmWindowHonoured ==
  [][/\ winBy # NoSession
     /\ \A c \in winEdits \cap Calls :
          pc[c] = "done" /\ primary[c] = "committed" /\ ~CleanupFailed(c)
     /\ ~(winEdits \subseteq running')
     => WindowExpires \/ \E s \in Sessions : SessionDies(s)]_vars
=============================================================================
