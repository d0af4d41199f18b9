-------------------------- MODULE JunosTransaction --------------------------
(***************************************************************************)
(* junos_transaction.rs: what one await of a JunosTransaction method does  *)
(* to the device and to the session it runs on.  The methods are called by *)
(* the change-set tools (module ChangeSet), which decide the order.        *)
(***************************************************************************)
EXTENDS SessionPool

VARIABLE commitLog   \* "show system commit": how each change set's id appears

LogEntries == {"none", "plain", "confirmed"}

\* device_manager.open: the pooled session or a new one.  A pooled session found
\* stale is EvictExpired followed by a connection.
OpenSession(s) ==
  /\ CheckoutHit(s) \/ (PoolEmpty /\ ConnectFresh(s))
  /\ UNCHANGED devVars

\* Mutant: staging goes ahead without the candidate lock.
TxLockSkipped(s, reply) ==
  /\ reply = "ok" /\ UNCHANGED devVars
  /\ dbOpen' = [dbOpen EXCEPT ![s] = TRUE]
  /\ UNCHANGED <<sst, alive, touched, taint>>

\* lock(): any error gives the session back with allow_reuse; a probe that times
\* out drops the guard while reuse is still prevented.
TxLock(s, reply) ==
  /\ Rpc(s, reply, DevLock(s))
  /\ dbOpen' = [dbOpen EXCEPT ![s] = (reply = "ok")]
  /\ sst' = IF reply = "ok" THEN sst
            ELSE [sst EXCEPT ![s] = DropTo(s, reply # "dropped")]
  /\ UNCHANGED <<alive, touched, taint>>

\* fingerprint(): a hash of the candidate database, committed part included.
Fingerprint == running \cup candidate

\* unlock() on the clean session lock() left behind: release_lock unlocks it and
\* allows reuse; an error drops it non-reusable.
TxUnlock(s, reply) ==
  /\ Rpc(s, reply, DevUnlock(s))
  /\ dbOpen' = [dbOpen EXCEPT ![s] = (reply # "ok")]
  /\ sst' = [sst EXCEPT ![s] = IF reply = "ok" THEN "returning" ELSE "closing"]
  /\ UNCHANGED <<alive, touched, taint>>

\* The loads of stage() for change set k; an error may leave a part behind.
TxLoad(s, k, reply) ==
  /\ \/ Rpc(s, reply, DevLoad(s, k))
     \/ reply = "refused" /\ alive[s] /\ DevLoad(s, k)
  /\ touched' = [touched EXCEPT ![s] = TRUE]
  /\ UNCHANGED <<alive, dbOpen, taint>>

\* The way out of stage() after a failed load: rollback 0, then release_lock,
\* which closes the dirty session under its own lock.
TxUnstage(s) == Shut(s) /\ UNCHANGED taint

\* What a reply to an RPC on s says about its having been carried out.
MayHappen(s, reply, done) ==
  /\ reply = "ok" => done
  /\ reply = "refused" => ~done
  /\ done \/ reply \in {"ok", "refused"} => alive[s]

\* commit(): commit_with_comment clears the dirty flag on success, the native
\* confirmed commit goes through the raw RPC path and does not.
TxCommit(s, k, confirmed, reply) ==
  /\ \E done \in {d \in BOOLEAN : MayHappen(s, reply, d)} :
       IF done
         THEN /\ IF confirmed THEN DevCommitNative(s) ELSE DevCommit(s)
              /\ commitLog' = [commitLog EXCEPT
                                 ![k] = IF confirmed THEN "confirmed" ELSE "plain"]
         ELSE UNCHANGED <<devVars, commitLog>>
  /\ touched' = [touched EXCEPT ![s] = @ /\ (reply # "ok" \/ confirmed)]
  /\ UNCHANGED <<sst, alive, dbOpen, taint>>

\* release_lock at the end of a successful plain commit: the session stays with
\* the staged handle.
TxCommitUnlock(s, reply) ==
  /\ Rpc(s, reply, DevUnlock(s))
  /\ dbOpen' = [dbOpen EXCEPT ![s] = (reply # "ok")]
  /\ UNCHANGED <<sst, alive, touched, taint>>

\* ReleaseStaged::release(): a session that committed and unlocked is only
\* dropped; any other is closed within the cleanup budget, and `released` tells
\* whether the close came back.
TxRelease(s, released) ==
  IF DropTo(s, TRUE) = "returning"
    THEN /\ released
         /\ sst' = [sst EXCEPT ![s] = "returning"]
         /\ UNCHANGED <<devVars, alive, touched, dbOpen, taint>>
    ELSE Shut(s) /\ UNCHANGED taint

\* confirm_commit(): a plain commit that takes no lock.
TxConfirmCommit(s, reply) == Rpc(s, reply, DevCommit(s)) /\ UNCHANGED poolVars

\* close_in_place at the end of confirm_commit().
TxConfirmClose(s) == Shut(s) /\ UNCHANGED taint
=============================================================================
