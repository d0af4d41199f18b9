-------------------- MODULE CandidateTransaction_proofs --------------------
(***************************************************************************)
(* Proofs about CandidateTransaction for every set of sessions, calls,     *)
(* operators and modes.                                                    *)
(***************************************************************************)
EXTENDS CandidateTransaction, TLAPS

(***************************************************************************)
(* The device.                                                             *)
(***************************************************************************)

\* What any RPC of session s, whatever its reply, may do to the device.
DevStep(s) ==
  \/ UNCHANGED devVars
  \/ DevLock(s) \/ DevUnlock(s) \/ DevRevert(s) \/ DevCommit(s)
  \/ DevCommitConfirmed(s) \/ \E a \in Calls : DevLoad(s, a)
  \/ DevEndSession(s)

\* Every device operation keeps the device's types.
LEMMA DevStepType ==
  ASSUME DeviceTypeOK, NEW s \in Sessions, DevStep(s)
  PROVE  DeviceTypeOK'
BY DEF DeviceTypeOK, DevStep, devVars, DevLock, DevUnlock, DevRevert, DevCommit,
       DevCommitConfirmed, DevOpenWindow, DevLoad, DevEndSession, Authors

\* The device, the pool and the operators keep the types.
LEMMA DeviceAloneType ==
  ASSUME DeviceTypeOK, DeviceAlone
  PROVE  DeviceTypeOK'
BY DEF DeviceTypeOK, DeviceAlone, WindowExpires, OperatorEdit, OperatorFinish, Authors

\* The initial state is type-correct.
LEMMA InitType == ASSUME Init PROVE TypeOK
BY DeviceAssumption DEF Init, TypeOK, DeviceInit, PoolInit, DeviceTypeOK, PoolTypeOK,
       CallTypeOK, SessionStates, PCs, HoldingPcs, Outcomes, AllModes

(***************************************************************************)
(* Type correctness.                                                       *)
(***************************************************************************)

LEMMA ToolCallType ==
  ASSUME TypeOK, NEW c \in Calls, ToolCall(c)
  PROVE  TypeOK'
<1>1. PICK modes \in SUBSET AllModes : Handle(c, modes)
  BY DEF ToolCall, LoadAndCommitConfig, CommitCheckConfig, RollbackConfig,
         RenderAndApplyTemplate, DiscardCandidateConfig, ConfirmCommitTool,
         ExecuteJunosCommand, ResolveConfirmTimeout, AllModes, LockingModes, CommitModes
<1>2. DeviceTypeOK' /\ PoolTypeOK'
  BY <1>1 DEF Handle, TypeOK, DeviceTypeOK, PoolTypeOK, devVars, poolVars
<1>3. CallTypeOK'
  BY <1>1 DEF Handle, Goto, TypeOK, CallTypeOK, PCs, Outcomes
<1> QED BY <1>2, <1>3 DEF TypeOK

\* The steps that open a session.
LEMMA OpenType ==
  ASSUME TypeOK, ModesFit, NEW c \in Calls,
         TryCheckout(c) \/ Connect(c) \/ OpenFails(c) \/ OpenFresh(c) \/ Reconnect(c)
  PROVE  TypeOK'
<1>0. pc[c] \in {"open", "connect"} => FirstStep(c) \in PCs
  BY DEF ModesFit, FirstStep, AllModes, LockingModes, CommitModes, PCs, HoldingPcs
<1>1. DeviceTypeOK'
  BY DEF TypeOK, DeviceTypeOK, devVars, TryCheckout, Connect, OpenFails, OpenFresh,
         Reconnect
<1>2. PoolTypeOK'
  BY DEF TypeOK, PoolTypeOK, SessionStates, poolVars, TryCheckout, Connect, OpenFails,
         OpenFresh, Reconnect, CheckoutHit, CheckoutStale, ConnectFresh, Invalidated
<1>3. CallTypeOK'
  BY <1>0 DEF TypeOK, CallTypeOK, Goto, Owns, Moves, Ends, PCs, HoldingPcs, Outcomes,
         TryCheckout, Connect, OpenFails, OpenFresh, Reconnect
<1> QED BY <1>1, <1>2, <1>3 DEF TypeOK

\* The RPCs of a transaction.
LEMMA RpcType ==
  ASSUME TypeOK, SessionsOwned, NEW c \in Calls,
         Lock(c) \/ Discard(c) \/ Load(c) \/ Diff(c) \/ CommitCheck(c)
         \/ CommitNotSent(c) \/ Commit(c)
  PROVE  TypeOK'
<1> DEFINE s == sessOf[c]
<1>0. s \in Sessions
  BY DEF SessionsOwned, HoldingPcs, Lock, Discard, Load, Diff, CommitCheck,
         CommitNotSent, Commit
<1>1. DevStep(s)
  BY <1>0 DEF Lock, Discard, Load, Diff, CommitCheck, CommitNotSent, Commit, Rpc,
              ReadRpc, DevStep, DevCommitAs
<1>2. DeviceTypeOK'
  BY <1>0, <1>1, DevStepType DEF TypeOK
<1>3. PoolTypeOK'
  BY <1>0 DEF TypeOK, PoolTypeOK, poolVars, SetTouched, Lock, Discard, Load, Diff,
              CommitCheck, CommitNotSent, Commit
<1>4. CallTypeOK'
  BY DEF TypeOK, CallTypeOK, Goto, Moves, Primary, Failed, LockErrorTo, PCs,
         HoldingPcs, Outcomes, Lock, Discard, Load, Diff, CommitCheck, CommitNotSent,
         Commit
<1> QED BY <1>2, <1>3, <1>4 DEF TypeOK

\* Cleanup and the ends of a call.
LEMMA CleanupType ==
  ASSUME TypeOK, SessionsOwned, NEW c \in Calls,
         CleanupRollback(c) \/ CleanupUnlock(c) \/ Finish(c) \/ CloseNow(c)
         \/ RecordTaint(c)
  PROVE  TypeOK'
<1> DEFINE s == sessOf[c]
<1>0. pc[c] # "record" => s \in Sessions
  BY DEF SessionsOwned, HoldingPcs, CleanupRollback, CleanupUnlock, Finish, CloseNow,
         RecordTaint
<1>1. UNCHANGED devVars \/ (s \in Sessions /\ DevStep(s))
  BY <1>0 DEF CleanupRollback, CleanupUnlock, Finish, CloseNow, RecordTaint, Shut,
              CloseEffect, Rpc, DevStep
<1>2. DeviceTypeOK'
  BY <1>1, DevStepType DEF TypeOK, DeviceTypeOK, devVars
<1>3. PoolTypeOK'
  BY <1>0 DEF TypeOK, PoolTypeOK, CallTypeOK, SessionStates, SetTouched, Shut, Returns,
              DropTo, should_pool, CleanupRollback, CleanupUnlock, Finish, CloseNow,
              RecordTaint
<1>4. CallTypeOK'
  BY DEF TypeOK, CallTypeOK, Goto, Ends, Returns, CleanupStepFails, AfterCleanup,
         PCs, HoldingPcs, Outcomes, AllModes,
         CleanupRollback, CleanupUnlock, Finish, CloseNow, RecordTaint
<1> QED BY <1>2, <1>3, <1>4 DEF TypeOK

\* run_cli, confirm_commit and a dropped task.
LEMMA OtherCallType ==
  ASSUME TypeOK, SessionsOwned, NEW c \in Calls,
         Cli(c) \/ RetryCli(c) \/ ConfirmCommit(c) \/ ConfirmClose(c) \/ Abort(c)
  PROVE  TypeOK'
<1> DEFINE s == sessOf[c]
<1>0. s \in Sessions
  BY DEF SessionsOwned, HoldingPcs, Cli, RetryCli, ConfirmCommit, ConfirmClose, Abort
<1>1. DevStep(s)
  BY <1>0 DEF Cli, RetryCli, CliReturns, CliReconnects, ReadRpc, ConfirmCommit,
              ConfirmClose, Shut, CloseEffect, Abort, InFlight, Rpc, DevStep, DevCommitAs
<1>2. DeviceTypeOK'
  BY <1>0, <1>1, DevStepType DEF TypeOK
<1>3. PoolTypeOK'
  BY <1>0 DEF TypeOK, PoolTypeOK, poolVars, SessionStates, Shut, Returns, DropTo,
              should_pool, Cli, RetryCli, CliReturns, CliReconnects, ConfirmCommit,
              ConfirmClose, Abort
<1>4. CallTypeOK'
  BY DEF TypeOK, CallTypeOK, Goto, Ends, Returns, Primary, Failed, PCs, HoldingPcs,
         Outcomes, Cli, RetryCli, CliReturns, CliReconnects, ConfirmCommit,
         ConfirmClose, Abort
<1> QED BY <1>2, <1>3, <1>4 DEF TypeOK

\* Background tasks, the device on its own, and stuttering.
LEMMA EnvType ==
  ASSUME TypeOK,
         \/ PoolTasks /\ UNCHANGED callVars
         \/ DeviceAlone /\ UNCHANGED <<poolVars, callVars>>
         \/ UNCHANGED vars
  PROVE  TypeOK'
<1>1. CallTypeOK'
  BY DEF TypeOK, CallTypeOK, callVars, vars
<1>2. CASE PoolTasks
  <2>1. PoolTypeOK'
    BY <1>2 DEF TypeOK, PoolTypeOK, SessionStates, PoolTasks, ReturnSession,
                CloseSession, DeviceEnds, SessionDies, EvictExpired, Shut, Invalidated
  <2>2. UNCHANGED devVars \/ \E s \in Sessions : DevStep(s)
    BY <1>2 DEF PoolTasks, ReturnSession, CloseSession, DeviceEnds, SessionDies,
                EvictExpired, Shut, CloseEffect, DevStep
  <2> QED BY <1>1, <2>1, <2>2, DevStepType DEF TypeOK, DeviceTypeOK, devVars
<1>3. CASE DeviceAlone /\ UNCHANGED <<poolVars, callVars>>
  BY <1>1, <1>3, DeviceAloneType DEF TypeOK, PoolTypeOK, poolVars
<1>4. CASE UNCHANGED vars
  BY <1>1, <1>4 DEF TypeOK, PoolTypeOK, DeviceTypeOK, vars, poolVars, devVars
<1> QED BY <1>2, <1>3, <1>4

(***************************************************************************)
(* Sessions: who owns them, and which of them are clean.                   *)
(***************************************************************************)

LEMMA InitSession == ASSUME Init PROVE SessionInv
BY DeviceAssumption
   DEF Init, DeviceInit, PoolInit, SessionInv, SessionsOwned, ModesFit, CleanBeforeUse,
       PooledSessionIsClean, Clean, HoldingPcs, TxPcs

\* The three ways a step changes ownership: it takes a session nobody holds, ...
LEMMA OwnAcquire ==
  ASSUME TypeOK, SessionsOwned, NEW c \in Calls, NEW s \in Sessions,
         NEW p \in HoldingPcs, pc[c] \notin HoldingPcs, sst[s] # "held",
         sst' = [sst EXCEPT ![s] = "held"],
         sessOf' = [sessOf EXCEPT ![c] = s], pc' = [pc EXCEPT ![c] = p]
  PROVE  SessionsOwned'
<1>1. \A d \in Calls : sessOf[d] # s
  BY DEF SessionsOwned
<1>2. \A d \in Calls : /\ pc'[d] = IF d = c THEN p ELSE pc[d]
                       /\ sessOf'[d] = IF d = c THEN s ELSE sessOf[d]
  BY DEF TypeOK, CallTypeOK
<1>3. \A r \in Sessions : sst'[r] = IF r = s THEN "held" ELSE sst[r]
  BY DEF TypeOK, PoolTypeOK
<1> QED BY <1>1, <1>2, <1>3 DEF SessionsOwned

\* ... it gives its session up, ...
LEMMA OwnRelease ==
  ASSUME TypeOK, SessionsOwned, NEW c \in Calls, NEW p \in PCs \ HoldingPcs,
         NEW x, x # "held", pc[c] \in HoldingPcs,
         sst' = [sst EXCEPT ![sessOf[c]] = x],
         sessOf' = [sessOf EXCEPT ![c] = NoSession], pc' = [pc EXCEPT ![c] = p]
  PROVE  SessionsOwned'
<1>2. \A d \in Calls : /\ pc'[d] = IF d = c THEN p ELSE pc[d]
                       /\ sessOf'[d] = IF d = c THEN NoSession ELSE sessOf[d]
  BY DEF TypeOK, CallTypeOK
<1>3. \A r \in Sessions : sst'[r] = IF r = sessOf[c] THEN x ELSE sst[r]
  BY DEF TypeOK, PoolTypeOK
<1>4. \A d \in Calls : pc[d] \in HoldingPcs => sessOf[d] \in Sessions
  BY DEF SessionsOwned
<1> QED BY <1>2, <1>3, <1>4, DeviceAssumption DEF SessionsOwned

\* ... or it leaves ownership alone.
LEMMA OwnKeep ==
  ASSUME TypeOK, SessionsOwned, sessOf' = sessOf,
         \A d \in Calls : pc'[d] \in HoldingPcs <=> pc[d] \in HoldingPcs,
         \A r \in Sessions : sst'[r] = "held" <=> sst[r] = "held"
  PROVE  SessionsOwned'
BY DEF SessionsOwned

\* A tool call starts without a session.
LEMMA ToolCallSession ==
  ASSUME TypeOK, SessionInv, NEW c \in Calls, ToolCall(c)
  PROVE  SessionInv'
<1>1. PICK modes \in SUBSET AllModes : Handle(c, modes)
  BY DEF ToolCall, LoadAndCommitConfig, CommitCheckConfig, RollbackConfig,
         RenderAndApplyTemplate, DiscardCandidateConfig, ConfirmCommitTool,
         ExecuteJunosCommand, ResolveConfirmTimeout, AllModes, LockingModes, CommitModes
<1>2. SessionsOwned'
  BY <1>1 DEF Handle, Goto, TypeOK, CallTypeOK, SessionInv, SessionsOwned, HoldingPcs,
              devVars, poolVars
<1>3. ModesFit'
  BY <1>1 DEF Handle, Goto, TypeOK, CallTypeOK, SessionInv, ModesFit, TxPcs
<1>4. CleanBeforeUse' /\ PooledSessionIsClean'
  BY <1>1 DEF Handle, Goto, TypeOK, CallTypeOK, SessionInv, CleanBeforeUse,
              PooledSessionIsClean, Clean, devVars, poolVars
<1> QED BY <1>2, <1>3, <1>4 DEF SessionInv

\* A call that opens takes a clean session, ...
LEMMA AcquireSession ==
  ASSUME TypeOK, SessionInv, NEW c \in Calls, NEW s \in Sessions,
         NEW p \in {"lock", "discard", "cli", "recli", "confirm"},
         CheckoutHit(s) \/ ConnectFresh(s), Owns(c, s, p), UNCHANGED devVars,
         pc[c] \notin HoldingPcs,
         p = "lock" => mode[c] \in LockingModes,
         p = "discard" => mode[c] = "discard",
         p \in {"cli", "recli"} => mode[c] = "cli",
         p = "confirm" => mode[c] = "confirm"
  PROVE  SessionInv'
<1>1. SessionsOwned'
  BY OwnAcquire DEF SessionInv, CheckoutHit, ConnectFresh, Owns, Goto, HoldingPcs
<1>2. \A d \in Calls : /\ pc'[d] = IF d = c THEN p ELSE pc[d]
                       /\ sessOf'[d] = IF d = c THEN s ELSE sessOf[d]
  BY DEF TypeOK, CallTypeOK, Owns, Goto
<1>3. ModesFit'
  BY <1>2 DEF SessionInv, ModesFit, Owns, TxPcs
<1>4. /\ \A r \in Sessions : sst'[r] = IF r = s THEN "held" ELSE sst[r]
      /\ \A r \in Sessions : r # s => touched'[r] = touched[r] /\ dbOpen'[r] = dbOpen[r]
      /\ ~touched'[s] /\ ~dbOpen'[s] /\ lockHolder # s /\ lockHolder' = lockHolder
  BY DEF TypeOK, PoolTypeOK, SessionInv, CleanBeforeUse, PooledSessionIsClean,
         CheckoutHit, ConnectFresh, devVars
<1>5. \A d \in Calls : d # c /\ pc[d] \in HoldingPcs => sessOf[d] \in Sessions \ {s}
  BY DEF SessionInv, SessionsOwned, CheckoutHit, ConnectFresh
<1>6. CleanBeforeUse'
  BY <1>2, <1>4, <1>5 DEF SessionInv, CleanBeforeUse, Clean, HoldingPcs
<1>7. PooledSessionIsClean'
  BY <1>4 DEF SessionInv, PooledSessionIsClean
<1> QED BY <1>1, <1>3, <1>6, <1>7 DEF SessionInv

\* ... and while it has none, only pooled sessions are moved to be closed.
LEMMA NoSessionStep ==
  ASSUME TypeOK, SessionInv, NEW c \in Calls, NEW p \in {"connect", "reconnect", "done"},
         \A r \in Sessions : sst'[r] # sst[r] => sst[r] = "pooled" /\ sst'[r] = "closing",
         pc' = [pc EXCEPT ![c] = p], pc[c] \notin HoldingPcs,
         \/ UNCHANGED <<mode, sessOf>>
         \/ p = "done" /\ mode' = [mode EXCEPT ![c] = "none"]
                       /\ sessOf' = [sessOf EXCEPT ![c] = NoSession],
         p = "connect" => mode[c] \in AllModes, p = "reconnect" => mode[c] = "cli",
         UNCHANGED <<touched, dbOpen>>, UNCHANGED devVars
  PROVE  SessionInv'
<1>1. \A d \in Calls : pc'[d] = IF d = c THEN p ELSE pc[d]
  BY DEF TypeOK, CallTypeOK
<1>2. sessOf' = sessOf
  BY DEF TypeOK, CallTypeOK, SessionInv, SessionsOwned
<1>3. SessionsOwned'
  BY <1>1, <1>2, OwnKeep DEF SessionInv, HoldingPcs
<1>4. ModesFit'
  BY <1>1 DEF TypeOK, CallTypeOK, SessionInv, ModesFit, TxPcs
<1>5. CleanBeforeUse' /\ PooledSessionIsClean'
  BY <1>1, <1>2 DEF SessionInv, CleanBeforeUse, PooledSessionIsClean, Clean, devVars
<1> QED BY <1>3, <1>4, <1>5 DEF SessionInv

\* open and open_fresh hand out a session nobody else has.
LEMMA OpenSession ==
  ASSUME TypeOK, SessionInv, NEW c \in Calls,
         TryCheckout(c) \/ Connect(c) \/ OpenFails(c) \/ OpenFresh(c) \/ Reconnect(c)
  PROVE  SessionInv'
<1>0. pc[c] \in {"open", "connect"} =>
        \/ FirstStep(c) = "lock" /\ mode[c] \in LockingModes
        \/ FirstStep(c) = "discard" /\ mode[c] = "discard"
        \/ FirstStep(c) = "cli" /\ mode[c] = "cli"
        \/ FirstStep(c) = "confirm" /\ mode[c] = "confirm"
  BY DEF SessionInv, ModesFit, FirstStep, AllModes, LockingModes, CommitModes
<1>1. pc[c] \notin HoldingPcs /\ UNCHANGED devVars
  BY DEF HoldingPcs, TryCheckout, Connect, OpenFails, OpenFresh, Reconnect
<1>2. CASE \E s \in Sessions : CheckoutHit(s) /\ Owns(c, s, FirstStep(c)) /\ pc[c] = "open"
  BY <1>0, <1>1, <1>2, AcquireSession
<1>3. CASE Connect(c)
  BY <1>0, <1>1, <1>3, AcquireSession DEF Connect
<1>4. CASE Reconnect(c)
  BY <1>1, <1>4, AcquireSession DEF Reconnect, SessionInv, ModesFit
<1>5. CASE OpenFails(c)
  BY <1>1, <1>5, NoSessionStep DEF OpenFails, Ends, Goto, poolVars
<1>6. CASE OpenFresh(c)
  BY <1>1, <1>6, NoSessionStep
     DEF OpenFresh, Invalidated, Moves, Goto, SessionInv, ModesFit, TypeOK, PoolTypeOK
<1>7. CASE pc[c] = "open" /\ Moves(c, "connect")
           /\ ((\E s \in Sessions : CheckoutStale(s)) \/ UNCHANGED poolVars)
  BY <1>1, <1>7, NoSessionStep
     DEF CheckoutStale, poolVars, Moves, Goto, SessionInv, ModesFit, TypeOK, PoolTypeOK
<1> QED BY <1>2, <1>3, <1>4, <1>5, <1>6, <1>7 DEF TryCheckout

\* What a call may do to the lock and to the flags while it owns session s.
OnlyTouches(s) ==
  /\ lockHolder' \in {lockHolder, s, NoSession}
  /\ \A r \in Sessions : r # s => touched'[r] = touched[r] /\ dbOpen'[r] = dbOpen[r]

\* A step that keeps the session.
LEMMA StaySession ==
  ASSUME TypeOK, SessionInv, NEW c \in Calls, pc[c] \in HoldingPcs,
         NEW p \in HoldingPcs \ {"lock", "discard", "cli", "recli", "confirm"},
         OnlyTouches(sessOf[c]), UNCHANGED <<sst, sessOf, mode>>,
         pc' = [pc EXCEPT ![c] = p],
         p \in TxPcs => mode[c] \in LockingModes \cup {"discard"},
         p = "finish" => lockHolder' # sessOf[c] /\ ~dbOpen'[sessOf[c]],
         p = "confirmClose" =>
           /\ mode[c] = "confirm"
           /\ lockHolder' # sessOf[c] /\ ~touched'[sessOf[c]] /\ ~dbOpen'[sessOf[c]]
  PROVE  SessionInv'
<1> DEFINE s == sessOf[c]
<1>0. s \in Sessions /\ sst[s] = "held"
  BY DEF SessionInv, SessionsOwned
<1>1. \A d \in Calls : pc'[d] = IF d = c THEN p ELSE pc[d]
  BY DEF TypeOK, CallTypeOK
<1>2. \A d \in Calls : d # c /\ pc[d] \in HoldingPcs => sessOf[d] \in Sessions \ {s}
  BY DEF SessionInv, SessionsOwned
<1>3. SessionsOwned'
  BY <1>1, OwnKeep DEF SessionInv
<1>4. ModesFit'
  BY <1>1 DEF SessionInv, ModesFit, HoldingPcs, TxPcs
<1>5. CleanBeforeUse'
  BY <1>0, <1>1, <1>2, DeviceAssumption
     DEF SessionInv, CleanBeforeUse, Clean, OnlyTouches, HoldingPcs
<1>6. PooledSessionIsClean'
  BY <1>0, DeviceAssumption DEF SessionInv, PooledSessionIsClean, OnlyTouches
<1> QED BY <1>3, <1>4, <1>5, <1>6 DEF SessionInv

\* A step that gives the session up.
LEMMA LeaveSession ==
  ASSUME TypeOK, SessionInv, NEW c \in Calls, pc[c] \in HoldingPcs,
         NEW p \in {"done", "record", "fresh"}, NEW x \in {"returning", "closing", "gone"},
         OnlyTouches(sessOf[c]), sst' = [sst EXCEPT ![sessOf[c]] = x],
         sessOf' = [sessOf EXCEPT ![c] = NoSession], pc' = [pc EXCEPT ![c] = p],
         mode' = mode \/ (p = "done" /\ mode' = [mode EXCEPT ![c] = "none"]),
         p = "record" => mode[c] \in LockingModes \cup {"discard"},
         p = "fresh" => mode[c] = "cli",
         x = "returning" =>
           lockHolder' # sessOf[c] /\ ~touched'[sessOf[c]] /\ ~dbOpen'[sessOf[c]]
  PROVE  SessionInv'
<1> DEFINE s == sessOf[c]
<1>0. s \in Sessions /\ sst[s] = "held"
  BY DEF SessionInv, SessionsOwned
<1>1. \A d \in Calls : /\ pc'[d] = IF d = c THEN p ELSE pc[d]
                       /\ d # c => mode'[d] = mode[d] /\ sessOf'[d] = sessOf[d]
  BY DEF TypeOK, CallTypeOK
<1>2. \A d \in Calls : d # c /\ pc[d] \in HoldingPcs => sessOf[d] \in Sessions \ {s}
  BY DEF SessionInv, SessionsOwned
<1>3. \A r \in Sessions : sst'[r] = IF r = s THEN x ELSE sst[r]
  BY DEF TypeOK, PoolTypeOK
<1>4. SessionsOwned'
  BY OwnRelease DEF SessionInv, PCs, HoldingPcs
<1>5. ModesFit'
  BY <1>1 DEF SessionInv, ModesFit, TxPcs
<1>6. CleanBeforeUse'
  BY <1>0, <1>1, <1>2, <1>3, DeviceAssumption
     DEF SessionInv, CleanBeforeUse, Clean, OnlyTouches, HoldingPcs
<1>7. PooledSessionIsClean'
  BY <1>0, <1>3, DeviceAssumption DEF SessionInv, PooledSessionIsClean, OnlyTouches
<1> QED BY <1>4, <1>5, <1>6, <1>7 DEF SessionInv

\* An RPC, whatever its reply, leaves ownership and cleanness as they must be.
LEMMA RpcSession ==
  ASSUME TypeOK, SessionInv, NEW c \in Calls,
         Lock(c) \/ Discard(c) \/ Load(c) \/ Diff(c) \/ CommitCheck(c)
         \/ CommitNotSent(c) \/ Commit(c) \/ CleanupRollback(c) \/ CleanupUnlock(c)
         \/ ConfirmCommit(c)
  PROVE  SessionInv'
<1> DEFINE s == sessOf[c]
<1>0. pc[c] \in HoldingPcs /\ s \in Sessions
  BY DEF SessionInv, SessionsOwned, HoldingPcs, Lock, Discard, Load, Diff, CommitCheck,
         CommitNotSent, Commit, CleanupRollback, CleanupUnlock, ConfirmCommit
<1>1. lockHolder' \in {lockHolder, s, NoSession}
  BY DEF Lock, Discard, Load, Diff, CommitCheck, CommitNotSent, Commit, CleanupRollback,
         CleanupUnlock, ConfirmCommit, Rpc, ReadRpc, devVars, DevLock, DevRevert,
         DevLoad, DevCommitAs, DevCommit, DevCommitConfirmed, DevOpenWindow, DevUnlock
<1>2. UNCHANGED <<sst, sessOf, mode>>
  BY DEF Lock, Discard, Load, Diff, CommitCheck, CommitNotSent, Commit, CleanupRollback,
         CleanupUnlock, ConfirmCommit, Moves, Primary, SetTouched, poolVars
<1>3. OnlyTouches(s)
  BY <1>0, <1>1 DEF OnlyTouches, TypeOK, PoolTypeOK, SetTouched, poolVars, Lock, Discard, Load,
         Diff, CommitCheck, CommitNotSent, Commit, CleanupRollback, CleanupUnlock,
         ConfirmCommit
<1>4. CASE Lock(c)
  BY <1>0, <1>2, <1>3, <1>4, StaySession
     DEF Lock, LockErrorTo, Moves, Primary, Goto, SessionInv, ModesFit, HoldingPcs, TxPcs
<1>5. CASE Discard(c)
  <2>1. lockHolder' # s /\ ~dbOpen'[s]
    BY <1>5, <1>0, DeviceAssumption
       DEF Discard, Rpc, DevRevert, devVars, SetTouched, SessionInv, CleanBeforeUse, Clean
  <2> QED BY <1>0, <1>2, <1>3, <1>5, <2>1, StaySession
          DEF Discard, Primary, Goto, SessionInv, ModesFit, HoldingPcs, TxPcs
<1>6. CASE Load(c) \/ Diff(c) \/ CommitCheck(c) \/ CommitNotSent(c) \/ Commit(c)
           \/ CleanupRollback(c)
  BY <1>0, <1>2, <1>3, <1>6, StaySession
     DEF Load, Diff, CommitCheck, CommitNotSent, Commit, CleanupRollback, Moves, Primary,
         Goto, SessionInv, ModesFit, HoldingPcs, TxPcs
<1>7. CASE CleanupUnlock(c)
  <2>1. PICK reply \in Replies :
          /\ Rpc(s, reply, DevUnlock(s))
          /\ dbOpen' = [dbOpen EXCEPT ![s] = @ /\ reply # "ok"]
          /\ pc' = [pc EXCEPT ![c] = AfterCleanup(c, CleanupStepFails(reply))]
    BY <1>7 DEF CleanupUnlock, Goto
  <2>2. reply = "ok" => lockHolder' # s /\ ~dbOpen'[s]
    BY <1>0, <2>1, DeviceAssumption DEF Rpc, DevUnlock, TypeOK, PoolTypeOK
  <2>3. AfterCleanup(c, CleanupStepFails(reply)) \in {"finish", "close"}
    BY DEF AfterCleanup
  <2>4. AfterCleanup(c, CleanupStepFails(reply)) = "finish" => reply = "ok"
    BY DEF AfterCleanup, CleanupStepFails, Reusable
  <2>5. mode[c] \in LockingModes \cup {"discard"}
    BY <1>7 DEF CleanupUnlock, SessionInv, ModesFit, TxPcs
  <2> QED BY <1>0, <1>2, <1>3, <2>1, <2>2, <2>3, <2>4, <2>5, StaySession DEF HoldingPcs
<1>8. CASE ConfirmCommit(c)
  <2>1. lockHolder' # s /\ ~touched'[s] /\ ~dbOpen'[s]
    BY <1>0, <1>8 DEF ConfirmCommit, Rpc, DevCommit, devVars, poolVars, SessionInv,
                      CleanBeforeUse, Clean
  <2> QED BY <1>0, <1>2, <1>3, <1>8, <2>1, StaySession
          DEF ConfirmCommit, Primary, Goto, SessionInv, ModesFit, HoldingPcs, TxPcs
<1> QED BY <1>4, <1>5, <1>6, <1>7, <1>8

\* A session given back is clean.
LEMMA ReturnSessionInv ==
  ASSUME TypeOK, SessionInv, NEW c \in Calls,
         Finish(c) \/ CloseNow(c) \/ ConfirmClose(c) \/ Cli(c) \/ RetryCli(c)
  PROVE  SessionInv'
<1> DEFINE s == sessOf[c]
<1>0. pc[c] \in HoldingPcs /\ s \in Sessions
  BY DEF SessionInv, SessionsOwned, HoldingPcs, Finish, CloseNow, ConfirmClose, Cli,
         RetryCli
<1>1. OnlyTouches(s)
  BY <1>0 DEF OnlyTouches, TypeOK, PoolTypeOK, Finish, CloseNow, ConfirmClose, Cli,
         RetryCli, CliReturns, CliReconnects, Returns, Shut, CloseEffect, ReadRpc,
         devVars, DevRevert
<1>2. CASE Finish(c)
  <2>1. DropTo(s, TRUE) = "returning" => ~touched[s]
    BY DEF DropTo, should_pool
  <2>2. DropTo(s, TRUE) \in {"returning", "closing"}
    BY DEF DropTo
  <2>3. lockHolder' # s /\ ~dbOpen'[s] /\ touched' = touched
    BY <1>2 DEF Finish, Returns, SessionInv, CleanBeforeUse, devVars
  <2>4. /\ sst' = [sst EXCEPT ![s] = DropTo(s, TRUE)]
        /\ Ends(c, primary[c])
    BY <1>2 DEF Finish, Returns
  <2> QED BY <1>0, <1>1, <2>1, <2>2, <2>3, <2>4, LeaveSession DEF Ends, Goto
<1>3. CASE CloseNow(c)
  BY <1>0, <1>1, <1>3, LeaveSession
     DEF CloseNow, Shut, Goto, SessionInv, ModesFit, TxPcs
<1>4. CASE ConfirmClose(c)
  BY <1>0, <1>1, <1>4, LeaveSession DEF ConfirmClose, Shut, Ends, Goto
<1>5. CASE Cli(c) \/ RetryCli(c)
  <2>1. Clean(s) /\ mode[c] = "cli"
    BY <1>5 DEF Cli, RetryCli, SessionInv, CleanBeforeUse, ModesFit
  <2>2. DropTo(s, ReuseAllowed(c)) = "returning"
    BY <2>1 DEF Clean, DropTo, should_pool, ReuseAllowed
  <2>3. UNCHANGED <<lockHolder, touched, dbOpen>>
    BY <1>5 DEF Cli, RetryCli, CliReturns, CliReconnects, Returns, ReadRpc, devVars
  <2>4. /\ sst' = [sst EXCEPT ![s] = "returning"]
        /\ sessOf' = [sessOf EXCEPT ![c] = NoSession]
        /\ \/ Goto(c, "fresh") /\ mode' = mode
           \/ Goto(c, "done") /\ mode' = [mode EXCEPT ![c] = "none"]
    BY <1>5, <2>2 DEF Cli, RetryCli, CliReturns, CliReconnects, Returns, Ends
  <2> QED BY <1>0, <1>1, <2>1, <2>3, <2>4, LeaveSession DEF Goto, Clean
<1> QED BY <1>2, <1>3, <1>4, <1>5

\* Drop of a cancelled call gives up the session it held.
LEMMA AbortSession ==
  ASSUME TypeOK, SessionInv, NEW c \in Calls, Abort(c)
  PROVE  SessionInv'
<1> DEFINE s == sessOf[c]
           dirty == touched[s] \/ pc[c] \in {"load", "discard", "rollback"}
           x == IF should_pool(ReuseAllowed(c), dbOpen[s], dirty) THEN "returning"
                                                                  ELSE "closing"
<1>0. pc[c] \in HoldingPcs /\ s \in Sessions
  BY DEF Abort, SessionInv, SessionsOwned
<1>1. lockHolder' \in {lockHolder, s, NoSession}
  BY DEF Abort, InFlight, devVars, DevLock, DevRevert, DevLoad, DevCommitAs, DevCommit,
         DevCommitConfirmed, DevOpenWindow, DevUnlock
<1>2. OnlyTouches(s)
  BY <1>0, <1>1 DEF OnlyTouches, TypeOK, PoolTypeOK, Abort
<1>3. /\ sst' = [sst EXCEPT ![s] = x]
      /\ Ends(c, "aborted")
      /\ touched' = [touched EXCEPT ![s] = dirty] /\ dbOpen' = dbOpen
  BY DEF Abort
<1>4. CASE ReuseAllowed(c)
  <2>1. pc[c] \in {"cli", "recli", "confirm", "confirmClose"} /\ Clean(s)
    BY <1>0, <1>4 DEF SessionInv, ModesFit, CleanBeforeUse, ReuseAllowed, HoldingPcs,
                      TxPcs, LockingModes, CommitModes
  <2>2. lockHolder' # s
    BY <2>1 DEF Abort, InFlight, devVars, DevCommit, Clean
  <2>3. ~touched'[s] /\ ~dbOpen'[s]
    BY <1>0, <1>3, <2>1 DEF Clean, TypeOK, PoolTypeOK
  <2> QED BY <1>0, <1>2, <1>3, <2>2, <2>3, LeaveSession DEF Ends, Goto
<1>5. CASE ~ReuseAllowed(c)
  <2>1. x = "closing"
    BY <1>5 DEF should_pool
  <2> QED BY <1>0, <1>2, <1>3, <2>1, LeaveSession DEF Ends, Goto
<1> QED BY <1>4, <1>5

\* Recording a taint touches no session.
LEMMA RecordTaintSession ==
  ASSUME TypeOK, SessionInv, NEW c \in Calls, RecordTaint(c)
  PROVE  SessionInv'
<1>1. pc[c] \notin HoldingPcs
  BY DEF RecordTaint, HoldingPcs
<1> QED BY <1>1, NoSessionStep DEF RecordTaint, Ends, Goto

\* Background tasks: sessions nobody holds move, and none becomes dirty.
LEMMA TasksSession ==
  ASSUME TypeOK, SessionInv, PoolTasks, UNCHANGED callVars
  PROVE  SessionInv'
<1>1. \A r \in Sessions : sst'[r] = "held" <=> sst[r] = "held"
  BY DEF TypeOK, PoolTypeOK, PoolTasks, ReturnSession, CloseSession, DeviceEnds,
         SessionDies, EvictExpired, Shut, Invalidated
<1>2. SessionsOwned' /\ ModesFit'
  BY <1>1, OwnKeep DEF SessionInv, ModesFit, callVars
<1>3. lockHolder' \in {lockHolder, NoSession}
  BY DEF PoolTasks, ReturnSession, CloseSession, DeviceEnds, SessionDies, EvictExpired,
         Shut, CloseEffect, devVars, DevRevert, DevEndSession
<1>4. \A r \in Sessions : /\ touched'[r] => touched[r]
                          /\ dbOpen'[r] => dbOpen[r]
  BY DEF TypeOK, PoolTypeOK, PoolTasks, ReturnSession, CloseSession, DeviceEnds,
         SessionDies, EvictExpired, Shut
<1>5. \A r \in Sessions : sst'[r] \in {"returning", "pooled"} =>
                            sst[r] \in {"returning", "pooled"}
  BY DEF TypeOK, PoolTypeOK, PoolTasks, ReturnSession, CloseSession, DeviceEnds,
         SessionDies, EvictExpired, Shut, Invalidated
<1>6. \A r \in Sessions : sst'[r] = "none" => sst[r] = "none" \/ lockHolder' # r
  BY DeviceAssumption
     DEF TypeOK, PoolTypeOK, PoolTasks, ReturnSession, CloseSession, DeviceEnds,
         SessionDies, EvictExpired, Shut, Invalidated, DevEndSession
<1>7. PooledSessionIsClean'
  BY <1>3, <1>4, <1>5, DeviceAssumption DEF SessionInv, PooledSessionIsClean
<1>8. \A c \in Calls : pc[c] \in HoldingPcs => sessOf[c] \in Sessions
  BY DEF SessionInv, SessionsOwned
<1>9. CleanBeforeUse'
  BY <1>3, <1>4, <1>6, <1>8, DeviceAssumption
     DEF SessionInv, CleanBeforeUse, Clean, callVars, HoldingPcs
<1> QED BY <1>2, <1>7, <1>9 DEF SessionInv

\* Steps that leave sessions and positions alone keep the invariant.
LEMMA QuietSession ==
  ASSUME TypeOK, SessionInv,
         \/ DeviceAlone /\ UNCHANGED <<poolVars, callVars>>
         \/ UNCHANGED vars
  PROVE  SessionInv'
<1>1. UNCHANGED <<lockHolder, poolVars, callVars>>
  BY DEF DeviceAlone, WindowExpires, OperatorEdit, OperatorFinish, vars, devVars
<1> QED BY <1>1 DEF SessionInv, SessionsOwned, ModesFit, CleanBeforeUse,
                    PooledSessionIsClean, Clean, poolVars, callVars

(***************************************************************************)
(* The first theorem: types, ownership and cleanness together.             *)
(***************************************************************************)

LEMMA NextTypeSession ==
  ASSUME TypeOK, SessionInv, [Next]_vars
  PROVE  TypeOK' /\ SessionInv'
<1>0. SessionsOwned /\ ModesFit
  BY DEF SessionInv
<1>1. ASSUME NEW c \in Calls, ToolCall(c) PROVE TypeOK' /\ SessionInv'
  BY <1>1, ToolCallType, ToolCallSession
<1>2. ASSUME NEW c \in Calls, Step(c) PROVE TypeOK' /\ SessionInv'
  <2>1. TypeOK'
    BY <1>0, <1>2, OpenType, RpcType, CleanupType, OtherCallType DEF Step
  <2>2. SessionInv'
    BY <1>2, OpenSession, RpcSession, ReturnSessionInv, RecordTaintSession DEF Step
  <2> QED BY <2>1, <2>2
<1>3. ASSUME NEW c \in Calls, Abort(c) PROVE TypeOK' /\ SessionInv'
  BY <1>0, <1>3, OtherCallType, AbortSession
<1>4. CASE PoolTasks /\ UNCHANGED callVars
  BY <1>4, EnvType, TasksSession
<1>5. CASE (DeviceAlone /\ UNCHANGED <<poolVars, callVars>>) \/ UNCHANGED vars
  BY <1>5, EnvType, QuietSession
<1> QED BY <1>1, <1>2, <1>3, <1>4, <1>5 DEF Next

\* Every variable keeps its type, whatever the sets of sessions, calls,
\* operators and modes.
THEOREM TypeCorrect == Spec => []TypeOK
<1>1. Init => TypeOK /\ SessionInv
  BY InitType, InitSession
<1>2. TypeOK /\ SessionInv /\ [Next]_vars => (TypeOK /\ SessionInv)'
  BY NextTypeSession
<1> QED BY <1>1, <1>2, PTL DEF Spec

\* The invariant of the sessions, with the types it needs.
LEMMA SessionInvHolds == Spec => [](TypeOK /\ SessionInv)
<1>1. Init => TypeOK /\ SessionInv
  BY InitType, InitSession
<1>2. TypeOK /\ SessionInv /\ [Next]_vars => (TypeOK /\ SessionInv)'
  BY NextTypeSession
<1> QED BY <1>1, <1>2, PTL DEF Spec

\* No session on its way to the pool or in it holds the candidate lock or
\* carries an armed <discard-changes/>: what should_pool and the Drop of
\* PooledDevice are for.
THEOREM PooledSessionsAreClean == Spec => []PooledSessionIsClean
<1>1. SessionInv => PooledSessionIsClean
  BY DEF SessionInv
<1> QED BY <1>1, SessionInvHolds, PTL

\* The candidate lock is never left with a session that nobody is going to
\* unlock or close, whichever replies execute() lost.
THEOREM LockAlwaysHasOwner == Spec => []LockHasOwner
<1>1. ASSUME TypeOK, SessionInv, NEW s \in Sessions, lockHolder = s
      PROVE  \/ sst[s] \in {"closing", "gone"}
             \/ \E c \in Calls : /\ sessOf[c] = s
                                 /\ pc[c] \in {"load", "diff", "check", "commit",
                                              "rollback", "unlock", "close"}
  <2>1. sst[s] \in {"closing", "gone", "held"}
    BY <1>1 DEF TypeOK, PoolTypeOK, SessionStates, SessionInv, CleanBeforeUse,
                PooledSessionIsClean
  <2>2. SUFFICES ASSUME sst[s] = "held"
                 PROVE  \E c \in Calls : /\ sessOf[c] = s
                                         /\ pc[c] \in {"load", "diff", "check", "commit",
                                                      "rollback", "unlock", "close"}
    BY <2>1
  <2>3. PICK c \in Calls : sessOf[c] = s
    BY <1>1, <2>2 DEF SessionInv, SessionsOwned
  <2>4. pc[c] \in HoldingPcs
    BY <1>1, <2>3 DEF SessionInv, SessionsOwned
  <2> QED BY <1>1, <2>3, <2>4 DEF SessionInv, CleanBeforeUse, Clean, HoldingPcs
<1>2. TypeOK /\ SessionInv => LockHasOwner
  BY <1>1 DEF LockHasOwner
<1> QED BY <1>2, SessionInvHolds, PTL

(***************************************************************************)
(* Whose edits are in the candidate and in the running configuration: the  *)
(* invariant EditInv is inductive relative to TypeOK and SessionInv, and   *)
(* with it a commit activates the committer's edits only, and a call that  *)
(* reports success or failure has left nothing unreported behind.          *)
(***************************************************************************)

(***************************************************************************)
(* The invariant of one call.                                              *)
(***************************************************************************)

Edits(c) ==
  /\ pc[c] \in EditingPcs /\ alive[sessOf[c]] =>
       lockHolder = sessOf[c] /\ candidate \subseteq {c}
  /\ pc[c] = "rollback" /\ alive[sessOf[c]] /\ c \in candidate =>
       lockHolder = sessOf[c]
Residue(c) == c \in candidate =>
  \/ pc[c] \in EditingPcs \cup {"rollback"}
  \/ /\ pc[c] \in {"unlock", "finish", "close", "record", "done"}
     /\ rbErr[c] \/ primary[c] = "aborted"
Running(c) == c \in running =>
  \/ CleanupFailed(c)
  \/ primary[c] \in {"committed", "commitFailed", "aborted"}
  \/ pc[c] \in EditingPcs \cup {"rollback"} /\ ~alive[sessOf[c]]
Once(c) ==
  /\ pc[c] \in EarlyPcs => primary[c] = "none"
  /\ pc[c] \in EarlyPcs \cup {"rollback"} => ~rbErr[c] /\ ~ulErr[c]
  /\ pc[c] = "unlock" => ~ulErr[c]
CallInv(c) == Edits(c) /\ Residue(c) /\ Running(c) /\ Once(c)

\* The invariant of the edits is one statement per call.
LEMMA EditInvPerCall == EditInv <=> \A c \in Calls : CallInv(c)
BY DEF EditInv, EditsUnderLock, ResidueReported, RunningReported, WrittenOnce, CallInv,
       Edits, Residue, Running, Once

\* The same of the next state.
LEMMA EditInvPerCallPrime == EditInv' <=> \A c \in Calls : CallInv(c)'
BY DEF EditInv, EditsUnderLock, ResidueReported, RunningReported, WrittenOnce, CallInv,
       Edits, Residue, Running, Once

\* Nothing is edited at the start.
LEMMA InitEdit == ASSUME Init PROVE EditInv
BY DEF Init, DeviceInit, EditInv, EditsUnderLock, ResidueReported, RunningReported,
       WrittenOnce, EditingPcs, EarlyPcs, PCs, HoldingPcs

(***************************************************************************)
(* What a step of call c does to the device and to the other calls.        *)
(***************************************************************************)

\* The device carries out an RPC of call c over its live session, or nothing.
DevStepOf(c) ==
  \/ UNCHANGED devVars
  \/ /\ pc[c] \in HoldingPcs
     /\ alive[sessOf[c]]
     /\ \/ DevLock(sessOf[c]) \/ DevUnlock(sessOf[c]) \/ DevRevert(sessOf[c])
        \/ DevCommit(sessOf[c]) \/ DevCommitConfirmed(sessOf[c])
        \/ DevLoad(sessOf[c], c)

\* Everything about call d is as before.
Untouched(d) ==
  /\ pc'[d] = pc[d] /\ sessOf'[d] = sessOf[d] /\ primary'[d] = primary[d]
  /\ rbErr'[d] = rbErr[d] /\ ulErr'[d] = ulErr[d]
  /\ pc[d] \in HoldingPcs => alive'[sessOf[d]] = alive[sessOf[d]]

\* What a step of a call may do to the device depends on who holds the lock.
LEMMA StepOnDevice ==
  ASSUME NEW c \in Calls, ToolCall(c) \/ Step(c) \/ Abort(c)
  PROVE  DevStepOf(c)
<1>1. CASE ToolCall(c)
  BY <1>1 DEF ToolCall, LoadAndCommitConfig, CommitCheckConfig, RollbackConfig,
         RenderAndApplyTemplate, DiscardCandidateConfig, ConfirmCommitTool,
         ExecuteJunosCommand, Handle, DevStepOf, devVars
<1>2. CASE TryCheckout(c) \/ Connect(c) \/ OpenFails(c) \/ OpenFresh(c) \/ Reconnect(c)
           \/ Diff(c) \/ CommitCheck(c) \/ CommitNotSent(c) \/ Finish(c)
           \/ RecordTaint(c) \/ Cli(c) \/ RetryCli(c)
  BY <1>2 DEF TryCheckout, Connect, OpenFails, OpenFresh, Reconnect, Diff, CommitCheck,
         CommitNotSent, Finish, RecordTaint, Cli, RetryCli, CliReturns, CliReconnects,
         ReadRpc, DevStepOf, devVars
<1>3. CASE Lock(c) \/ Discard(c) \/ Load(c) \/ Commit(c) \/ CleanupRollback(c)
           \/ CleanupUnlock(c) \/ ConfirmCommit(c)
  BY <1>3 DEF Lock, Discard, Load, Commit, CleanupRollback, CleanupUnlock, ConfirmCommit,
         Rpc, DevCommitAs, DevStepOf, HoldingPcs
<1>4. CASE CloseNow(c) \/ ConfirmClose(c)
  BY <1>4 DEF CloseNow, ConfirmClose, Shut, CloseEffect, DevStepOf, HoldingPcs
<1>5. CASE Abort(c)
  BY <1>5 DEF Abort, InFlight, DevCommitAs, DevStepOf, devVars
<1> QED BY <1>1, <1>2, <1>3, <1>4, <1>5 DEF Step

\* A step of one call leaves the variables of the others alone.
LEMMA StepLeavesOthers ==
  ASSUME TypeOK, SessionsOwned, NEW c \in Calls, ToolCall(c) \/ Step(c) \/ Abort(c),
         NEW d \in Calls, d # c
  PROVE  Untouched(d)
<1>1. CASE ToolCall(c)
  BY <1>1 DEF ToolCall, LoadAndCommitConfig, CommitCheckConfig, RollbackConfig,
         RenderAndApplyTemplate, DiscardCandidateConfig, ConfirmCommitTool,
         ExecuteJunosCommand, Handle, Goto, Untouched, poolVars, TypeOK, CallTypeOK
<1>2. CASE TryCheckout(c) \/ Connect(c) \/ OpenFails(c) \/ OpenFresh(c) \/ Reconnect(c)
  <2>1. pc[d] \in HoldingPcs => alive'[sessOf[d]] = alive[sessOf[d]]
    <3>1. ASSUME NEW s \in Sessions, ConnectFresh(s), pc[d] \in HoldingPcs
          PROVE  alive'[sessOf[d]] = alive[sessOf[d]]
      BY <3>1 DEF ConnectFresh, SessionsOwned, TypeOK, PoolTypeOK
    <3> QED BY <1>2, <3>1 DEF TryCheckout, Connect, OpenFails, OpenFresh, Reconnect,
                              CheckoutHit, CheckoutStale, poolVars
  <2>2. /\ \E p : pc' = [pc EXCEPT ![c] = p]
        /\ \E s : sessOf' = [sessOf EXCEPT ![c] = s]
        /\ \E o : primary' = [primary EXCEPT ![c] = o]
        /\ UNCHANGED <<rbErr, ulErr>>
    BY <1>2 DEF TryCheckout, Connect, OpenFails, OpenFresh, Reconnect, Owns, Moves, Ends,
                Goto, TypeOK, CallTypeOK
  <2> QED BY <2>1, <2>2 DEF Untouched, TypeOK, CallTypeOK
<1>3. CASE Lock(c) \/ Discard(c) \/ Load(c) \/ Diff(c) \/ CommitCheck(c)
           \/ CommitNotSent(c) \/ Commit(c) \/ CleanupRollback(c) \/ CleanupUnlock(c)
           \/ ConfirmCommit(c)
  BY <1>3 DEF Lock, Discard, Load, Diff, CommitCheck, CommitNotSent, Commit,
         CleanupRollback, CleanupUnlock, ConfirmCommit, Moves, Primary, Goto, SetTouched,
         Untouched, poolVars, TypeOK, CallTypeOK
<1>4. CASE Finish(c) \/ CloseNow(c) \/ RecordTaint(c) \/ Cli(c) \/ RetryCli(c)
           \/ ConfirmClose(c) \/ Abort(c)
  BY <1>4 DEF Finish, CloseNow, RecordTaint, Cli, RetryCli, CliReturns, CliReconnects,
         ConfirmClose, Abort, Returns, Shut, Ends, Goto, Untouched, TypeOK, CallTypeOK
<1> QED BY <1>1, <1>2, <1>3, <1>4 DEF Step

\* The lock of a live transaction keeps every other call off the candidate, so
\* its own part of the invariant survives their steps.
LEMMA OthersKeepInv ==
  ASSUME TypeOK, SessionsOwned, NEW c \in Calls, NEW d \in Calls, d # c,
         CallInv(d), DevStepOf(c), Untouched(d)
  PROVE  CallInv(d)'
<1>0. pc[c] \in HoldingPcs /\ pc[d] \in HoldingPcs =>
        sessOf[c] # sessOf[d] /\ sessOf[c] \in Sessions /\ sessOf[d] \in Sessions
  BY DEF SessionsOwned
<1>1. pc[d] \in EditingPcs \cup {"rollback"} => pc[d] \in HoldingPcs
  BY DEF EditingPcs, HoldingPcs
<1>2. ASSUME pc[d] \in HoldingPcs, lockHolder = sessOf[d]
      PROVE  lockHolder' = lockHolder /\ candidate' = candidate /\ running' = running
  BY <1>0, <1>2, DeviceAssumption
     DEF DevStepOf, devVars, DevLock, DevUnlock, DevRevert, DevCommit,
         DevCommitConfirmed, DevOpenWindow, DevLoad, MayWrite, SessionsOwned
<1>3. /\ d \in candidate' => d \in candidate
      /\ d \in running' => d \in running \cup candidate
  BY DEF DevStepOf, devVars, DevLock, DevUnlock, DevRevert, DevCommit,
         DevCommitConfirmed, DevOpenWindow, DevLoad
<1>4. Edits(d)'
  BY <1>1, <1>2, <1>3 DEF CallInv, Edits, Untouched
<1>5. Residue(d)'
  BY <1>3 DEF CallInv, Residue, Untouched
<1>6. Running(d)'
  <2>1. CASE d \in running
    BY <1>1, <2>1 DEF CallInv, Running, Untouched, CleanupFailed
  <2>2. CASE d \notin running /\ d \in running'
    <3>1. d \in candidate /\ running' # running
      BY <1>3, <2>2
    <3>2. pc[d] \in EditingPcs \cup {"rollback"} => ~alive[sessOf[d]]
      BY <1>1, <1>2, <3>1 DEF CallInv, Edits
    <3> QED BY <1>1, <3>1, <3>2 DEF CallInv, Residue, Running, Untouched, CleanupFailed
  <2> QED BY <2>1, <2>2 DEF Running
<1>7. Once(d)'
  BY DEF CallInv, Once, Untouched
<1> QED BY <1>4, <1>5, <1>6, <1>7 DEF CallInv

(***************************************************************************)
(* The steps of call c keep its own part of the invariant.                 *)
(***************************************************************************)

\* Before its first load a call is in neither configuration.
LEMMA NothingEarly ==
  ASSUME NEW c \in Calls, CallInv(c), pc[c] \in EarlyPcs \ EditingPcs
  PROVE  c \notin candidate /\ c \notin running
BY DEF CallInv, Residue, Running, Once, EarlyPcs, EditingPcs, CleanupFailed

\* Steps that neither load nor hold edits.
LEMMA QuietOwn ==
  ASSUME TypeOK, NEW c \in Calls, CallInv(c), pc[c] \in EarlyPcs \ EditingPcs,
         DevStepOf(c), ~DevLoad(sessOf[c], c) \/ UNCHANGED devVars,
         pc'[c] \notin EditingPcs \cup {"rollback", "unlock"},
         rbErr'[c] = rbErr[c], ulErr'[c] = ulErr[c],
         pc'[c] \in EarlyPcs => primary'[c] = primary[c]
  PROVE  CallInv(c)'
<1>1. c \notin candidate' /\ c \notin running'
  BY NothingEarly DEF DevStepOf, devVars, DevLock, DevUnlock, DevRevert, DevCommit,
                      DevCommitConfirmed, DevOpenWindow
<1> QED BY <1>1 DEF CallInv, Edits, Residue, Running, Once

\* Before its first edit a call keeps its own invariant.
LEMMA EarlyOwn ==
  ASSUME TypeOK, ModesFit, NEW c \in Calls, CallInv(c),
         ToolCall(c) \/ TryCheckout(c) \/ Connect(c) \/ OpenFails(c) \/ OpenFresh(c)
         \/ Reconnect(c) \/ Discard(c) \/ Cli(c) \/ RetryCli(c) \/ ConfirmCommit(c)
  PROVE  CallInv(c)'
<1>1. pc[c] \in EarlyPcs \ EditingPcs
  BY DEF ToolCall, LoadAndCommitConfig, CommitCheckConfig, RollbackConfig,
         RenderAndApplyTemplate, DiscardCandidateConfig, ConfirmCommitTool,
         ExecuteJunosCommand, Handle, TryCheckout, Connect, OpenFails, OpenFresh,
         Reconnect, Discard, Cli, RetryCli, ConfirmCommit, EarlyPcs, EditingPcs, PCs,
         HoldingPcs
<1>2. DevStepOf(c)
  BY StepOnDevice DEF Step
<1>3. UNCHANGED devVars \/ DevRevert(sessOf[c]) \/ DevCommit(sessOf[c])
  BY DEF ToolCall, LoadAndCommitConfig, CommitCheckConfig, RollbackConfig,
         RenderAndApplyTemplate, DiscardCandidateConfig, ConfirmCommitTool,
         ExecuteJunosCommand, Handle, TryCheckout, Connect, OpenFails, OpenFresh,
         Reconnect, Discard, Cli, RetryCli, CliReturns, CliReconnects, ReadRpc,
         ConfirmCommit, Rpc, devVars
<1>4. ~DevLoad(sessOf[c], c) \/ UNCHANGED devVars
  BY <1>1, <1>3, NothingEarly DEF DevRevert, DevCommit, DevLoad
<1>5. pc[c] \in {"open", "connect"} => FirstStep(c) \in {"lock", "discard", "cli", "confirm"}
  BY DEF ModesFit, FirstStep, AllModes, LockingModes, CommitModes
<1>6. /\ \E p \in {"open", "connect", "lock", "discard", "cli", "confirm", "recli",
                    "reconnect", "fresh", "finish", "close", "confirmClose", "done"} :
             /\ pc' = [pc EXCEPT ![c] = p]
             /\ p \notin {"finish", "close", "confirmClose", "done"} => primary' = primary
      /\ UNCHANGED <<rbErr, ulErr>>
  BY <1>5 DEF ToolCall, LoadAndCommitConfig, CommitCheckConfig, RollbackConfig,
         RenderAndApplyTemplate, DiscardCandidateConfig, ConfirmCommitTool,
         ExecuteJunosCommand, Handle, TryCheckout, Connect, OpenFails, OpenFresh,
         Reconnect, Discard, Cli, RetryCli, CliReturns, CliReconnects, ConfirmCommit,
         Owns, Moves, Ends, Returns, Primary, Goto
<1>7. /\ pc'[c] \notin EditingPcs \cup {"rollback", "unlock"}
      /\ pc'[c] \in EarlyPcs => primary'[c] = primary[c]
  BY <1>6 DEF TypeOK, CallTypeOK, EarlyPcs, EditingPcs
<1> QED BY <1>1, <1>2, <1>4, <1>6, <1>7, QuietOwn

\* The steps that run under the lock.
LEMMA LockedOwn ==
  ASSUME TypeOK, SessionsOwned, NEW c \in Calls, CallInv(c),
         Lock(c) \/ Load(c) \/ Diff(c) \/ CommitCheck(c) \/ CommitNotSent(c) \/ Commit(c)
  PROVE  CallInv(c)'
<1> DEFINE s == sessOf[c]
<1>0. s \in Sessions /\ UNCHANGED <<alive, sessOf, rbErr, ulErr>>
  BY DEF SessionsOwned, HoldingPcs, Lock, Load, Diff, CommitCheck, CommitNotSent, Commit,
         SetTouched, Moves, Primary, poolVars
<1>1. ~rbErr[c] /\ ~ulErr[c] /\ primary[c] = "none"
  BY DEF CallInv, Once, EarlyPcs, PCs, HoldingPcs, Lock, Load, Diff, CommitCheck,
         CommitNotSent, Commit
<1>2. CASE Lock(c)
  <2>1. c \notin candidate /\ c \notin running
    BY <1>2, NothingEarly DEF Lock, EarlyPcs, EditingPcs, PCs, HoldingPcs
  <2>2. PICK reply \in Replies :
          /\ Rpc(s, reply, DevLock(s))
          /\ IF reply = "ok" THEN Moves(c, "load")
             ELSE Primary(c, Failed(reply), LockErrorTo(reply))
    BY <1>2 DEF Lock
  <2>3. /\ candidate' = candidate /\ running' = running
        /\ reply = "ok" => lockHolder' = s /\ candidate' = {}
    BY <2>2 DEF Rpc, DevLock, devVars
  <2>4. /\ pc'[c] = IF reply = "ok" THEN "load" ELSE LockErrorTo(reply)
        /\ reply = "ok" => primary' = primary
    BY <2>2 DEF Moves, Primary, Goto, TypeOK, CallTypeOK
  <2> QED BY <1>0, <1>1, <2>1, <2>3, <2>4
          DEF CallInv, Edits, Residue, Running, Once, EditingPcs, EarlyPcs, LockErrorTo
<1>3. CASE Load(c)
  <2>1. PICK reply \in Replies :
          /\ Rpc(s, reply, DevLoad(s, c)) \/ DevLoad(s, c)
          /\ reply = "ok" => alive[s]
          /\ IF reply = "ok" THEN Moves(c, "diff")
                             ELSE Primary(c, Failed(reply), "rollback")
    BY <1>3 DEF Load, Rpc
  <2>2. /\ lockHolder' = lockHolder /\ running' = running
        /\ candidate' = candidate \/ candidate' = candidate \cup {c}
    BY <2>1 DEF Rpc, DevLoad, devVars
  <2>3. /\ pc[c] = "load"
        /\ pc'[c] = IF reply = "ok" THEN "diff" ELSE "rollback"
        /\ reply = "ok" => primary' = primary
    BY <1>3, <2>1 DEF Load, Moves, Primary, Goto, TypeOK, CallTypeOK
  <2> QED BY <1>0, <1>1, <2>2, <2>3
          DEF CallInv, Edits, Residue, Running, Once, EditingPcs, EarlyPcs, CleanupFailed
<1>4. CASE Diff(c) \/ CommitCheck(c) \/ CommitNotSent(c)
  <2>1. UNCHANGED <<lockHolder, candidate, running>>
    BY <1>4 DEF Diff, CommitCheck, CommitNotSent, ReadRpc, devVars
  <2>2. /\ pc[c] \in EditingPcs
        /\ \/ pc'[c] \in {"check", "commit"} /\ primary' = primary
           \/ pc'[c] = "rollback"
    BY <1>4 DEF Diff, CommitCheck, CommitNotSent, Moves, Primary, Goto, TypeOK,
                CallTypeOK, EditingPcs
  <2> QED BY <1>0, <1>1, <2>1, <2>2
          DEF CallInv, Edits, Residue, Running, Once, EditingPcs, EarlyPcs, CleanupFailed
<1>5. CASE Commit(c)
  <2>1. PICK reply \in Replies :
          /\ Rpc(s, reply, DevCommitAs(mode[c], s))
          /\ IF reply = "ok" THEN Primary(c, "committed", "unlock")
                             ELSE Primary(c, "commitFailed", "rollback")
    BY <1>5 DEF Commit
  <2>2. /\ lockHolder' = lockHolder
        /\ candidate' = candidate \/ candidate' = {}
        /\ reply = "ok" => candidate' = {}
    BY <2>1 DEF Rpc, DevCommitAs, DevCommit, DevCommitConfirmed, DevOpenWindow, devVars
  <2>3. /\ pc[c] = "commit"
        /\ pc'[c] = IF reply = "ok" THEN "unlock" ELSE "rollback"
        /\ primary'[c] = IF reply = "ok" THEN "committed" ELSE "commitFailed"
    BY <1>5, <2>1 DEF Commit, Primary, Goto, TypeOK, CallTypeOK
  <2> QED BY <1>0, <1>1, <2>2, <2>3
          DEF CallInv, Edits, Residue, Running, Once, EditingPcs, EarlyPcs
<1> QED BY <1>2, <1>3, <1>4, <1>5

\* Cleanup: a rollback that fails is reported, and only that one leaves edits.
LEMMA CleanupOwn ==
  ASSUME TypeOK, SessionsOwned, NEW c \in Calls, CallInv(c), CleanupRollback(c)
  PROVE  CallInv(c)'
<1> DEFINE s == sessOf[c]
<1>0. s \in Sessions /\ pc[c] = "rollback" /\ UNCHANGED <<alive, sessOf, primary, ulErr>>
  BY DEF SessionsOwned, HoldingPcs, CleanupRollback, SetTouched
<1>1. PICK reply \in Replies :
        /\ Rpc(s, reply, DevRevert(s))
        /\ rbErr' = [rbErr EXCEPT ![c] = CleanupStepFails(reply)]
  BY DEF CleanupRollback
<1>2. /\ pc'[c] = "unlock" /\ (rbErr'[c] <=> reply # "ok")
      /\ reply = "ok" => alive[s] /\ candidate' = {}
      /\ running' = running
  BY <1>1 DEF CleanupRollback, CleanupStepFails, Goto, TypeOK, CallTypeOK, Rpc, DevRevert,
              devVars
<1> QED BY <1>0, <1>2
        DEF CallInv, Edits, Residue, Running, Once, EditingPcs, EarlyPcs, CleanupFailed

\* The end of a call keeps what it reports.
LEMMA EndOwn ==
  ASSUME TypeOK, SessionsOwned, NEW c \in Calls, CallInv(c),
         CleanupUnlock(c) \/ Finish(c) \/ CloseNow(c) \/ RecordTaint(c) \/ ConfirmClose(c)
  PROVE  CallInv(c)'
<1>1. /\ candidate' \subseteq candidate /\ running' = running
      /\ rbErr' = rbErr /\ primary'[c] = primary[c]
      /\ \/ pc[c] = "unlock" /\ pc'[c] \in {"finish", "close"}
         \/ pc[c] = "finish" /\ pc'[c] = "done" /\ ulErr' = ulErr
         \/ pc[c] = "close" /\ pc'[c] = "record" /\ ulErr' = ulErr
         \/ pc[c] = "record" /\ pc'[c] = "done" /\ ulErr' = ulErr
         \/ pc[c] = "confirmClose" /\ pc'[c] = "done" /\ ulErr' = ulErr
  BY DEF CleanupUnlock, AfterCleanup, Finish, CloseNow, RecordTaint, ConfirmClose, Returns,
         Ends, Goto, Shut, CloseEffect, Rpc, DevUnlock, DevRevert, devVars, TypeOK,
         CallTypeOK
<1> QED BY <1>1 DEF CallInv, Edits, Residue, Running, Once, EditingPcs, EarlyPcs,
                    CleanupFailed

\* A dropped task leaves a call whose leftovers are accounted for.
LEMMA AbortOwn ==
  ASSUME TypeOK, NEW c \in Calls, CallInv(c), Abort(c)
  PROVE  CallInv(c)'
<1>1. pc'[c] = "done" /\ primary'[c] = "aborted"
  BY DEF Abort, Ends, Goto, TypeOK, CallTypeOK
<1> QED BY <1>1 DEF CallInv, Edits, Residue, Running, Once, EditingPcs, EarlyPcs

(***************************************************************************)
(* Background tasks and the device on its own.                             *)
(***************************************************************************)

LEMMA TasksKeepInv ==
  ASSUME TypeOK, SessionsOwned, PoolTasks, UNCHANGED callVars,
         NEW d \in Calls, CallInv(d)
  PROVE  CallInv(d)'
<1>0. pc[d] \in EditingPcs \cup {"rollback"} =>
        /\ pc[d] \in HoldingPcs /\ sessOf[d] \in Sessions /\ sst[sessOf[d]] = "held"
        /\ sessOf[d] # NoSession
  BY DeviceAssumption DEF SessionsOwned, EditingPcs, HoldingPcs
<1>1. candidate' \subseteq candidate /\ running' \subseteq running
  BY DEF PoolTasks, ReturnSession, CloseSession, DeviceEnds, SessionDies, EvictExpired,
         Shut, CloseEffect, devVars, DevRevert, DevEndSession
<1>2. ASSUME pc[d] \in EditingPcs \cup {"rollback"}
      PROVE  /\ alive'[sessOf[d]] => alive[sessOf[d]]
             /\ alive'[sessOf[d]] /\ lockHolder = sessOf[d] => lockHolder' = sessOf[d]
  <2>1. CASE \E s \in Sessions : SessionDies(s)
    BY <1>0, <1>2, <2>1 DEF SessionDies, DevEndSession, TypeOK, PoolTypeOK
  <2>2. CASE \E s \in Sessions : DeviceEnds(s)
    BY <1>0, <1>2, <2>2 DEF DeviceEnds, DevEndSession, TypeOK, PoolTypeOK
  <2>3. CASE (\E s \in Sessions : ReturnSession(s) \/ CloseSession(s)) \/ EvictExpired
    BY <2>3 DEF ReturnSession, CloseSession, EvictExpired, Shut, CloseEffect, DevRevert,
                devVars
  <2> QED BY <2>1, <2>2, <2>3 DEF PoolTasks
<1>3. Edits(d)'
  BY <1>1, <1>2 DEF CallInv, Edits, callVars
<1>4. Residue(d)' /\ Once(d)'
  BY <1>1 DEF CallInv, Residue, Once, callVars
<1>5. Running(d)'
  BY <1>1, <1>2 DEF CallInv, Running, callVars, CleanupFailed
<1> QED BY <1>3, <1>4, <1>5 DEF CallInv

\* The device and its operators, acting alone, keep the invariant of every call.
LEMMA AloneKeepsInv ==
  ASSUME TypeOK, SessionsOwned, DeviceAlone, UNCHANGED <<poolVars, callVars>>,
         NEW d \in Calls, CallInv(d)
  PROVE  CallInv(d)'
<1>0. pc[d] \in EditingPcs \cup {"rollback"} => sessOf[d] # NoSession
  BY DeviceAssumption DEF SessionsOwned, EditingPcs, HoldingPcs
<1>1. /\ d \in candidate' => d \in candidate
      /\ lockHolder' = lockHolder
      /\ \/ lockHolder = NoSession /\ running' \subseteq running \cup candidate
         \/ candidate' = candidate /\ running' \subseteq running
  BY DeviceAssumption DEF DeviceAlone, WindowExpires, OperatorEdit, OperatorFinish
<1>2. Edits(d)'
  BY <1>0, <1>1 DEF CallInv, Edits, poolVars, callVars
<1>3. Residue(d)' /\ Once(d)'
  BY <1>1 DEF CallInv, Residue, Once, callVars
<1>4. Running(d)'
  BY <1>0, <1>1 DEF CallInv, Edits, Residue, Running, poolVars, callVars, CleanupFailed
<1> QED BY <1>2, <1>3, <1>4 DEF CallInv

\* Every step keeps the invariant of the edits.
LEMMA NextEdit ==
  ASSUME TypeOK, SessionInv, EditInv, [Next]_vars
  PROVE  EditInv'
<1>0. SessionsOwned /\ ModesFit /\ \A d \in Calls : CallInv(d)
  BY EditInvPerCall DEF SessionInv
<1>1. ASSUME NEW c \in Calls, ToolCall(c) \/ Step(c) \/ Abort(c), NEW d \in Calls
      PROVE  CallInv(d)'
  <2>1. CASE d # c
    BY <1>0, <1>1, <2>1, StepOnDevice, StepLeavesOthers, OthersKeepInv
  <2>2. CASE d = c
    BY <1>0, <1>1, <2>2, EarlyOwn, LockedOwn, CleanupOwn, EndOwn, AbortOwn DEF Step
  <2> QED BY <2>1, <2>2
<1>2. ASSUME PoolTasks /\ UNCHANGED callVars, NEW d \in Calls PROVE CallInv(d)'
  BY <1>0, <1>2, TasksKeepInv
<1>3. ASSUME DeviceAlone /\ UNCHANGED <<poolVars, callVars>>, NEW d \in Calls
      PROVE  CallInv(d)'
  BY <1>0, <1>3, AloneKeepsInv
<1>4. CASE UNCHANGED vars
  BY <1>4 DEF EditInv, EditsUnderLock, ResidueReported, RunningReported, WrittenOnce,
              CleanupFailed, vars, devVars, poolVars, callVars
<1> QED BY <1>1, <1>2, <1>3, <1>4, EditInvPerCallPrime DEF Next

\* IInv is an inductive invariant of the specification.
THEOREM Invariance == Spec => []IInv
<1>1. Init => IInv
  BY InitType, InitSession, InitEdit DEF IInv
<1>2. IInv /\ [Next]_vars => IInv'
  BY NextTypeSession, NextEdit DEF IInv
<1> QED BY <1>1, <1>2, PTL DEF Spec

(***************************************************************************)
(* What follows for the users of the tools.                                *)
(***************************************************************************)

\* A commit of a transaction activates the call's own edits and nobody else's:
\* the lock held since the candidate was clean keeps other calls and the
\* operators out of it, and a dead session cannot commit.
THEOREM CommitActivatesOwnEdits == Spec => CommitsOnlyOwnEdits
<1>1. ASSUME IInv, NEW c \in Calls, Commit(c)
      PROVE  running' \ running \subseteq {c}
  <2>1. alive[sessOf[c]] => candidate \subseteq {c}
    BY <1>1 DEF IInv, EditInv, EditsUnderLock, EditingPcs, Commit
  <2>2. UNCHANGED running \/ (alive[sessOf[c]] /\ running' = running \cup candidate)
    BY <1>1 DEF Commit, Rpc, DevCommitAs, DevCommit, DevCommitConfirmed, DevOpenWindow, devVars
  <2> QED BY <2>1, <2>2
<1>2. IInv => [\A c \in Calls : Commit(c) => running' \ running \subseteq {c}]_vars
  BY <1>1
<1> QED BY <1>2, Invariance, PTL DEF CommitsOnlyOwnEdits

\* A call that ends without CandidateCleanupFailed left no edit of its own in
\* the shared candidate.
THEOREM ResidueIsReported == Spec => []NoSilentResidue
<1>1. IInv => NoSilentResidue
  BY DEF IInv, EditInv, ResidueReported, NoSilentResidue, CleanupFailed, EditingPcs
<1> QED BY <1>1, Invariance, PTL

\* A call that reports neither a commit nor a failed commit nor a failed
\* cleanup has left no edit of its own in the running configuration, not even
\* through an operator who committed the shared candidate.
THEOREM CommitIsReported == Spec => []NoSilentCommit
<1>1. IInv => NoSilentCommit
  BY DEF IInv, EditInv, RunningReported, NoSilentCommit, EditingPcs
<1> QED BY <1>1, Invariance, PTL
=============================================================================
