---------------------------- MODULE SessionPool ----------------------------
(***************************************************************************)
(* device_manager.rs: the single-slot NETCONF session pool of one router,  *)
(* the PooledDevice guard that returns or closes a session when it is      *)
(* dropped, and the background tasks those drops spawn.                    *)
(*                                                                         *)
(* A session is "held" by a call, "returning" in the task Drop spawned for *)
(* return_session, "pooled" in the slot, "closing" in a spawned close,     *)
(* "gone" once the client shut its end and the device has not noticed yet, *)
(* and "none" when it does not exist.                                      *)
(***************************************************************************)
EXTENDS JunosDevice

VARIABLES sst,      \* where each session is
          alive,    \* the device still serves the session
          touched,  \* rustnetconf's candidate-dirty flag: close will discard
          dbOpen,   \* rustez's is_config_db_open: locked and not unlocked
          taint     \* a CleanupTaint is recorded for the router

poolVars == <<sst, alive, touched, dbOpen, taint>>

SessionStates == {"none", "held", "returning", "pooled", "closing", "gone"}

PoolTypeOK ==
  /\ sst \in [Sessions -> SessionStates]
  /\ alive \in [Sessions -> BOOLEAN]
  /\ touched \in [Sessions -> BOOLEAN]
  /\ dbOpen \in [Sessions -> BOOLEAN]
  /\ taint \in BOOLEAN

PoolInit ==
  /\ sst = [s \in Sessions |-> "none"]
  /\ alive = [s \in Sessions |-> FALSE]
  /\ touched = [s \in Sessions |-> FALSE]
  /\ dbOpen = [s \in Sessions |-> FALSE]
  /\ taint = FALSE

(***************************************************************************)
(* Steps a caller takes.                                                   *)
(***************************************************************************)

\* session_alive() is the client's belief: it is right about a live session
\* and may lag behind the end of one.
SessionAliveSays(s, b) == b \in {alive[s], TRUE}

\* try_checkout takes the pooled session out of the slot for the caller.
CheckoutHit(s) ==
  /\ sst[s] = "pooled"
  /\ SessionAliveSays(s, TRUE)
  /\ sst' = [sst EXCEPT ![s] = "held"]
  /\ UNCHANGED <<alive, touched, dbOpen, taint>>

\* try_checkout removes an idle-expired or dead session and spawns its close.
\* Time is abstracted: a pooled session may have outlived the idle timeout.
CheckoutStale(s) ==
  /\ sst[s] = "pooled"
  /\ sst' = [sst EXCEPT ![s] = "closing"]
  /\ UNCHANGED <<alive, touched, dbOpen, taint>>

PoolEmpty == \A s \in Sessions : sst[s] # "pooled"

\* connect_fresh, once an attempt of its retry loop succeeds.
ConnectFresh(s) ==
  /\ sst[s] = "none"
  /\ sst' = [sst EXCEPT ![s] = "held"]
  /\ alive' = [alive EXCEPT ![s] = TRUE]
  /\ touched' = [touched EXCEPT ![s] = FALSE]
  /\ dbOpen' = [dbOpen EXCEPT ![s] = FALSE]
  /\ UNCHANGED taint

\* SessionPool::invalidate for this router: the slot is emptied, its session
\* closed by a spawned task.
Invalidated == [s \in Sessions |-> IF sst[s] = "pooled" THEN "closing" ELSE sst[s]]

\* Mutant: the rule before #316, blind to an armed discard.
ShouldPoolDirty(reuse_allowed, config_db_open, touched_candidate) ==
  reuse_allowed /\ ~config_db_open

\* Whether a session in this state may go back into the pool.
should_pool(reuse_allowed, config_db_open, touched_candidate) ==
  reuse_allowed /\ ~config_db_open /\ ~touched_candidate

\* Drop for PooledDevice: spawn return_session or spawn a close.  The flag
\* reuse_allowed is the guard's own: set when it is opened, cleared by
\* prevent_reuse, set again by allow_reuse.
DropTo(s, reuse_allowed) ==
  IF should_pool(reuse_allowed, dbOpen[s], touched[s]) THEN "returning" ELSE "closing"

\* Device::close: <discard-changes/> if the session dirtied the candidate, then
\* <close-session/>.  Both are best-effort; the client's end is shut either way.
CloseEffect(s) ==
  \/ UNCHANGED devVars
  \/ touched[s] /\ alive[s] /\ DevRevert(s)

\* The client's end of s after a close: its flags go with it.
Shut(s) ==
  /\ CloseEffect(s)
  /\ sst' = [sst EXCEPT ![s] = "gone"]
  /\ touched' = [touched EXCEPT ![s] = FALSE]
  /\ dbOpen' = [dbOpen EXCEPT ![s] = FALSE]
  /\ UNCHANGED alive

(***************************************************************************)
(* RPCs.  The reply is "ok", "refused" (an rpc-error), "lost" (an error    *)
(* that says nothing about what the device did) or "dropped" (a            *)
(* cancellation or a timeout dropped the future); in the last two cases    *)
(* the device may have carried the RPC out.                                *)
(***************************************************************************)

\* One RPC on session s with this reply; Effect is the device carrying it out.
Rpc(s, reply, Effect) ==
  \/ reply = "ok" /\ alive[s] /\ Effect
  \/ reply = "refused" /\ alive[s] /\ UNCHANGED devVars
  \/ reply \in {"lost", "dropped"} /\ UNCHANGED devVars
  \/ reply \in {"lost", "dropped"} /\ alive[s] /\ Effect

Replies == {"ok", "refused", "lost", "dropped"}

\* Reading RPCs (diff, commit check, operational commands) change nothing.
ReadRpc(s, reply) ==
  /\ reply \in {"ok", "refused"} => alive[s]
  /\ UNCHANGED devVars

(***************************************************************************)
(* Background tasks and the device's side of a session.                    *)
(***************************************************************************)

\* The task Drop spawned for a poolable session runs return_session: a session
\* seen dead is closed, any other takes the slot and displaces its occupant.
ReturnSession(s) ==
  /\ sst[s] = "returning"
  /\ \/ /\ SessionAliveSays(s, FALSE)
        /\ sst' = [sst EXCEPT ![s] = "closing"]
     \/ /\ SessionAliveSays(s, TRUE)
        /\ sst' = [Invalidated EXCEPT ![s] = "pooled"]
  /\ UNCHANGED <<alive, touched, dbOpen, taint>>
  /\ UNCHANGED devVars

\* The reaper: sessions and taints older than the idle timeout are evicted.
EvictExpired ==
  /\ \/ sst' = Invalidated /\ sst' # sst /\ taint' \in {taint, FALSE}
     \/ taint /\ taint' = FALSE /\ UNCHANGED sst
  /\ UNCHANGED <<alive, touched, dbOpen>>
  /\ UNCHANGED devVars

\* A spawned close runs.
CloseSession(s) ==
  /\ sst[s] = "closing"
  /\ Shut(s)
  /\ UNCHANGED taint

\* The device notices that the client is gone and ends the session.
DeviceEnds(s) ==
  /\ sst[s] = "gone"
  /\ DevEndSession(s)
  /\ sst' = [sst EXCEPT ![s] = "none"]
  /\ alive' = [alive EXCEPT ![s] = FALSE]
  /\ UNCHANGED <<touched, dbOpen, taint>>

\* The transport fails or the device kills the session under its client.
SessionDies(s) ==
  /\ sst[s] \in {"held", "returning", "pooled"}
  /\ alive[s]
  /\ DevEndSession(s)
  /\ alive' = [alive EXCEPT ![s] = FALSE]
  /\ UNCHANGED <<sst, touched, dbOpen, taint>>

PoolTasks ==
  \/ \E s \in Sessions : ReturnSession(s)
  \/ \E s \in Sessions : CloseSession(s)
  \/ \E s \in Sessions : DeviceEnds(s)
  \/ \E s \in Sessions : SessionDies(s)
  \/ EvictExpired
=============================================================================
