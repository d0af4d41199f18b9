# A TLA+ model of rustjunosmcp

rustjunosmcp is an MCP server that operates Junos devices: tool calls run
operational commands, edit and commit the candidate configuration, plan and
apply two-person change sets, transfer files, upgrade software, install
signature packages, collect support bundles and answer questions about SRX
firewalls. What makes it hard to test is that its correctness is not in the
server alone. Several tool calls and the tasks they leave behind run
concurrently, they share NETCONF sessions, an inventory, a staging directory
and device leases, and they work on devices that people use from the CLI at
the same time. Any reply may be lost after the device acted, any future may be
dropped by a cancellation or a deadline, and the process may die between a
commit and its record.

The project models every part of the server that keeps state or decides
something several steps later. What is left out is listed under "Not modelled".

## Inventory

| Part | Source | State | Operations | Hard behaviours | Correct when |
|---|---|---|---|---|---|
| Session pool | `core/device_manager.rs` | one idle session per router, taints, per-guard `reuse_allowed` | `open`, `open_fresh`, `run_cli`, Drop, `close_now`, `release_lock`, reaper, invalidation | Drop can only spawn; a session dies unseen; two returns meet in one slot | no session in the pool holds a lock or an armed discard |
| Candidate transaction | `core/tools/candidate_transaction.rs` | one transaction: lock, dirty flag, primary outcome, cleanup errors | `run`, `execute`, `cleanup` in six modes | dropped and lost replies, deadline against commit, cleanup failing half-way | commits activate own edits only; every leftover is reported; the lock is given up |
| Configuration tools | `core/tools/{load_commit,commit_check,rollback_config,template,discard_candidate,confirm_commit}.rs` | none | one handler each | validation before the first RPC | they choose the right mode |
| Change sets | `core/tools/changeset.rs`, `core/junos_transaction.rs` | change-set and operation records (persisted by `mecmcp_changeset`), the staged session | create, approve, cancel, apply, confirm, abandon | outcome unknown, probe fails, write fails | records tell the truth; one change has the device at a time |
| Change-set recovery | `core/changeset_recovery.rs`, `state_cmd.rs` | the same records | load, sweep, re-probe, `state resolve` | crash at any point, sweep beside live traffic | only permanent commits are settled |
| Inventory, policy | `core/inventory.rs`, `core/policy.rs`, `core/tools/{add_device,reload_devices}.rs` | file, in-memory copy with path and hash, compiled policy, write lock, idle sessions | add, reload, SIGHUP, `check_command` | several stores swapped one by one under running calls; file edited meanwhile; rule precedence | no update lost, no denied command runs, sessions follow the inventory |
| Command tools, batch | `core/tools/{execute_command,pfe,get_config,facts,config_diff,batch}.rs` | policy snapshot, tasks, permits | one handler each, the batch | timeout with tasks waiting, a device named twice | one result per device and command |
| File transfer | `core/tools/{transfer_file,fetch_file,list_staged_files}.rs` | staging directory, `/var/tmp` of routers, keyed permits | upload, fetch, list | writers that outlive a name; cut off at any await | what is promoted or installed was verified |
| Upgrade | `core/tools/upgrade_junos.rs` | the call's phase, device lease | preflight, transfer, install, wait | reboot drops every session; retry after a timeout | "upgraded" is true; nothing is installed twice |
| Signature packages | `srx-core/workflows/{idp,appid}_package.rs`, `signature_package/` | confirmation tokens, lease, device jobs | check, preview, install, roll back, uninstall | token reuse, expiry and re-identification; jobs that outlive their poll | a run is what was previewed, alone, truthfully reported |
| Support bundle | `srx-core/workflows/support_bundle/` | permit, scratch directory, archive | collect | capture fails, is cut, is cancelled | redacted, exact, nothing left behind |
| SRX queries | `srx-core/workflows/*.rs` | none | one handler each | several RPCs of which one fails; the device changes in between | an answer is the device's, or an error |
| Server, transport, auth | `rust-junosmcp`, `rust-junosmcp-auth` | token store, requests in flight | authenticate, preflight, dispatch, facade, audit, redact, reload tokens | five places decide about one request | they decide alike, on every route |
| Command line, bootstrap | `rust-junosmcp/src/{main,cli,env_compat}.rs` | none | start | | not modelled |

Interactions: the server authenticates and dispatches a request to a handler;
handlers that work on the candidate go through the transaction layers; these, the
command tools and the SRX workflows hold a `PooledDevice` guard from the pool; the
guard's Drop spawns tasks that return or close the session later; a reload of the
inventory swaps what every later `open` and policy check reads; change sets reach
the device through `JunosTransaction` and record through the coordinator; upgrades
run the steps of a file transfer and share the device lease with signature
packages; on start `main` loads the records and spawns the sweep, which uses the
same pool and device.

PROJECT.json lists the hazards line by line, each with the property that would
catch it.

## Modules

    JunosDevice                 external: lock, candidate, running, window
      SessionPool               device_manager.rs, RPC replies
        CandidateTransaction    candidate_transaction.rs and its tools
          CandidateTransaction_proofs, MCCandidate
        JunosTransaction        junos_transaction.rs, one operator per await
          ChangeSet             changeset.rs, changeset_recovery.rs
            ChangeSet_proofs, MCChangeSet
    ChangeControl               abstract: what ChangeSet implements
    CommandPolicy               policy.rs
      Inventory                 inventory.rs, add_device.rs, reload_devices.rs
        CommandCalls            the command tools and the batch
          CommandCalls_proofs, MCInventory
    FileTransfer                transfer_file.rs, fetch_file.rs, list_staged_files.rs
      UpgradeJunos              upgrade_junos.rs
        UpgradeJunos_proofs, MCFiles
    SignaturePackage            idp_package.rs, appid_package.rs, signature_package/
      SignaturePackage_proofs, MCSignature
    McpServer                   server.rs, server/, http_transport.rs, auth
      McpServer_proofs, MCServer
    SupportBundle               support_bundle/
      SupportBundle_proofs
    SrxQueries                  policy_match, list_policies, resolve_*, cluster_health
      SrxReports                flow_sessions, services_status
        SrxReports_proofs
        MCSrxWorkflows          composes SupportBundle and SrxReports

An operator with a comment that begins "Mutant:" is a plausible bug in the
definition that follows it. It is not part of the model; PROJECT.json says which
property it breaks.

**JunosDevice** is the device as the code relies on it. A configuration is the set
of authors whose edits it holds (`candidate`, `running`), because every property
is about *whose* edit went where. A lock is refused while the candidate is
modified; a commit activates the whole candidate and confirms an open window; a
confirmed commit opens a window owned by a session (the RFC 6241 form) or by the
device (the Junos-native form); when the device ends a session it frees its lock,
may or may not drop the edits made under it, and rolls back a window that belongs
to it. Operators edit, commit and roll back whenever nobody holds the lock.

**SessionPool** is `device_manager.rs` for one router. `sst` says where each
session is (held, returning, pooled, closing, gone, none); `touched` and `dbOpen`
are the two flags `should_pool` reads, `alive` is the device's view, which the
client may learn late. `DropTo` is Drop for `PooledDevice`; `ReturnSession` and
`CloseSession` are the tasks it spawns; `EvictExpired` is the reaper. `Rpc` gives
each RPC one of four replies: ok, refused, lost, dropped. In the last two the
device may have acted.

**CandidateTransaction** has one action per await of `run`, `execute`, `cleanup`,
`run_cli`, `open_fresh` and `confirm_commit`, and one per tool handler. `pc` is
the position of a call, `primary` its outcome, `rbErr` and `ulErr` the
`CleanupFailures`. `Abort` is a dropped task: the guard's Drop runs and the RPC in
flight may be carried out.

**JunosTransaction** has one operator per await of the `DeviceTransaction`
implementation; **ChangeSet** strings them together the way `apply_change_set`,
`abandon_failed_apply`, `confirm_change_set` and `sweep_crashed_commits` do. A
change set has up to three tasks (`Tasks`): its apply, its confirm and the probe
of the sweep. `op` is the operation record; `Crash` forgets everything but the
records and the device, `Start` is `ChangesetCoordinator::load` followed by the
detached sweep.

**ChangeControl** is the promise without sessions, locks, crashes and records: a
change is planned, approved and taken up once, on a device no other change has;
only the change that has the device goes live or is taken back; a settled change is
final. ChangeSet implements it (`ImplementsChangeControl`) under the mapping
`phase` = the state of the change-set record, `claim` = the unsettled operations,
`live` = the changes in the running configuration. Two actions of ChangeControl are
concessions to the code, found by checking the refinement without them: `Reopen` (a
cleanup writes Indeterminate over a record the sweep has settled) and `Surface` (a
late confirmation of a settled change activates what a failed one left in the
candidate). Nothing else breaks finality.

**CommandPolicy** is the compiled policy as operators: a rule is the set of
commands its glob matches, with its action and number of literals; `check_command`
is compared with `Permitted`, the documentation's reading of the file. **Inventory** has one action
per stretch of `reload_devices` and `add_device` between two points where a
concurrent call can look: validate, lock, read, stage, rename, store, store the
policy, invalidate. **CommandCalls** runs the command tools and the batch against
it: snapshot of policy and inventory, check, open, run, collect. A session given up goes
to `returning`, the tasks that Drop for `PooledDevice` spawns, and takes its slot of the
pool at any later moment (`ReturnSession`).

**FileTransfer** models the staging directory as a Unix directory (a name refers to
an inode, a writer keeps its inode), `/var/tmp` of each router and the per-router
permit; a call is cut off at any await by `Abort`. **UpgradeJunos** puts preflight,
lease, second preflight, the steps of a transfer, install, reboot and version wait
around it.

**SignaturePackage** has the confirmation store (`pending`), the lease, the packages
and jobs of a device with `NodeCount` nodes, and one action per RPC or poll of the
two pipelines. A version reply tells of some of the nodes, and may leave out the version
of one it lists (`said`); the verification looks at the nodes it is told of, as the code
does. A version text is its number and whether a suffix follows; a status
text is the set of terminal words in it, which is what `parse_async_status_detail`
looks for.

**McpServer** describes each handler as the sequence of the checks it makes before
its body; the preflight, the facade, `tools/list`, the audit record and the
redaction of responses of two levels are operators over the request. A request has the
shape of its arguments (`args`): an object, one with a selector that is null, empty or
of the wrong type, no arguments, or something that is no object. The preflight judges
the shape, the handler what can be read from it (`Deserialises`). The body is one step;
`Reach` is the set of routers it works on or answers about. Authentication is the
`BearerAuthenticator` of `http_transport.rs`; the boundary that calls it is a library,
and `rust-junosmcp-auth/src/tower.rs`, an earlier layer of the same purpose, has no caller.

**SupportBundle** captures RPCs and logs one await after another, in the order of the
two sets of the code (`RPC_ORDER`, `LOG_ORDER`); a payload is reduced to what redaction
can tell apart: a log cut at its cap may keep a credential, lose it or end inside one
(`truncate_to_char_boundary`), and a device's own words may hold one (`DeviceWords`).
The removal of the scratch directory and of the tarball may fail (`RemovalFailures`).
**SrxQueries** and **SrxReports** hold the
read-only workflows: a reply is a sequence of nodes, each an error, "not configured",
its payload, or a well-formed body without the element looked for. Address books are
read whole before a name is looked up, so that an entry that does not parse
(`Unreadable`) fails every lookup; applications are parsed as they are reached. The loops of the parsers and the depth-first `walk` over sets of names
are functions defined by recursion: over the index of the loop, and for the walk over
the levels of nesting that are left before `MAX_RESOLUTION_DEPTH` refuses, so that one
call of `walk` is one entry of the function of its level.

### Abstractions

- Time is the order of events: a pooled session may always have outlived the idle
  timeout, a deadline may always have passed, a window may lapse and a token expire
  at any moment. A recorded confirm deadline lies after the device's own (it is
  computed after the reply), so `DeadlinePasses` waits for the window to be gone.
- Validation, policy and size checks of a configuration tool are one nondeterministic
  rejection before any RPC. The template tool's loop over routers is one router.
- A refused load may have been applied in part. The candidate-dirty flag follows
  the rustez release the changelog names: `commit_with_comment` clears it, the raw
  RPC path of the native confirmed commit does not. (The comments in
  `junos_transaction.rs` about `commit_with_comment` describe the release before.)
- The RFC confirmed commit of the candidate tools leaves the flag set or clear:
  both are allowed.
- In ChangeSet opening a session is one step, and the commit-log query of the sweep
  uses no modelled session: it changes nothing on the device. Each change set has
  its own owner; lab mode's waiver is the approve transition.
- The coordinator is outside the repository. From its use: every write may fail, a
  new apply is refused while an unsettled operation exists on the device, Committing
  and the attribution are written just before the RPC, a staging error either
  removes the operation or leaves it Failed, and load turns what is unsettled into
  Indeterminate.
- `state resolve` is used while the server is stopped, by an operator who looked:
  Committed only for a change that is live with no rollback pending, Discarded only
  for one that is gone.
- A file's content stands for its SHA-256; two contents never collide. An inventory
  entry is its address and its rules.
- The glob matcher, the token prefix of an allowlist entry, XML and version texts are
  abstracted to the distinctions the code draws from them.
- In the SRX modules "none" stands for no error, no zone, no name of a book and no
  matching policy; no zone and no action has that name.
- `services_status` pairs the nodes of its five replies by position, and a reply may leave
  any of them out, so that a slot is of the node at its place in the service's own reply
  and not always of the node whose name it stands under. The properties are about the
  former; the model has no names of nodes in the answer.
- A response body has two levels, a table and its rows, which is what the exempt keys
  concern; JSON and XML bodies are redacted by one operator.
- A credential in a log that the cap cuts is a fragment: neither readable nor recognised
  by the redactor.
- A behaviour of the inventory, file, signature and SRX instances begins with a choice
  of a *scenario*: which calls are made and what the device holds. Scenarios bound the
  instance; they are not part of the specifications.

## Runs

| Run | Instance | Checks |
|---|---|---|
| `candidate_safety` | 2 calls of any of 7 modes, 3 sessions, 1 operator | `TypeOK`, `PooledSessionIsClean`, `LockHasOwner`, `NoSilentResidue`, `NoSilentCommit`, `CommitsOnlyOwnEdits` |
| `lock_contention` | 2 calls, each a commit or a CLI command, 2 sessions | `CallReturns`, `LockReleased` |
| `change_set_safety` | 2 change sets, 2 sessions, up to 2 crashes | `SweepSettlesPermanent`, `ImplementsChangeControl`, `SweptLockIsFree` |
| `change_set_operator` | 2 change sets, 1 session, 1 operator, 1 crash | `DiscardedMeansGone`, `CommitActivatesOwnChange` |
| `signature_packages` | 2 calls, 2 callers, 2 nodes, a store of one token, 9 scenarios | `RunsWerePreviewed`, `OnlyTheHolderInstalls`, `VerdictMatchesPreview`, `LeaseIsReturned` |
| `server_dispatch` | every tool, route and shape of arguments, 3 grants, 4 command lines, 1 token reload | `WritesNeedANamedGrant`, `WorkStaysInScope`, `NoUngatedCommit`, `RoutesAgree`, `JunosCallsLeaveOneRecord`, `ResponsesAreRedacted` |
| `inventory_and_calls` | 2 files, 3 names, 2 administrators, 1 call, 1 edit, 13 scenarios | `PolicyMatchesInventory`, `RulesInForceApply`, `NoLostUpdate`, `SessionsFollowInventory`, `BatchAnswersForEachDevice` |
| `file_operations` | 2 calls, 3 routers, 11 mixes of transfer, fetch, list and upgrade | `InstalledImageIsVerified`, `NoRepeatedInstall`, `UpgradedMeansUpgraded`, `PromotedFileIsVerified`, `CallEnds` |
| `srx_workflows` | 2 collections on 2 routers with 2 odd answers, or one query out of some thousands | `NoSecretShips`, `ManifestIsExact`, `NothingLeftBehind`, `VerdictIsTheDevices`, `ResolutionIsTheClosure`, `FlowAnswerIsBounded`, `FailureIsNotAbsence` |

**Bounds.** Two calls are the smallest number that compete for the lock, the pool
slot, a permit or a lease; the third session of `candidate_safety` is one that was
given up and is not yet ended while both calls hold one. One operator is enough,
because the properties ask only whether *some* foreign edit is in the candidate. Two
change sets are needed for an apply to meet the armed rollback of another; there two
sessions suffice, since at most one change set is unsettled, and a call that finds
none takes the failure path of `open`. One crash leaves records behind for a sweep
that runs beside new applies; the second, in `change_set_safety`, falls into that
sweep. `change_set_operator` has one session, so that the tasks of the two change sets
take turns on it; with two it has 4.4 million states, takes several minutes and passes
too, and its properties are proved for any number. A token store of capacity one makes every second
preview find it full; two nodes are the least that can disagree, or of which a reply can
leave one out. One client suffices
in `server_dispatch`, because a request shares only the token store and the counters
with others; the reload falls anywhere in it. Two edits of an inventory would only
repeat the drift one shows. The three routers of `file_operations` are one with room,
one without and one that uses a password and is clustered. A depth and member cap of
one make sets over three names reach and pass both limits.
`MaxOddAnswers`, `MaxPolls`, `MaxRestage`, `MaxReloads`, `MaxEdits`, `MaxAdminCalls`
and `MaxCrashes` bound how often the environment acts.
`candidate_safety` and `server_dispatch` check for deadlock; the other instances
really end, when every call has returned and the bounds are used up. Calls, sessions
and change sets are interchangeable, so the safety runs of the transaction modules use
symmetry; the liveness runs do not.

**Fairness.** `FairSpec` of CandidateTransaction: weak fairness of each call's own
steps, of the spawned `ReturnSession` and `CloseSession`, and of the device ending a
session whose client is gone. The runtime polls every task that is ready, and every
await is bounded by the transaction's deadline, the cleanup budget or the RPC timeout.
SignaturePackage and UpgradeJunos: weak fairness of each call's next step, for the same
reason; polls end because each has a deadline, which may expire at any probe (or after
`MaxPolls` probes). Nothing is assumed of operators, the reaper, new calls, reboots, or
of the device answering, and `CallEnds` does not use the outer timeout.
`MCCandidateLive.cfg` checks `CallReturns` for one call of every mode beside an
operator; it passes too, and is kept as a quick check of the modes `lock_contention` leaves out.

**What the properties mean.**

- Candidate: `LockHasOwner`: whatever replies are lost, the lock is with a call that
  will still unlock or close, or with a session being closed. `NoSilentResidue`,
  `NoSilentCommit`: edits that stay in the candidate or reach the running
  configuration are always reported as such.
- Change sets: `ImplementsChangeControl` as above, through crashes, lost replies and
  failed writes; it is checked without CLI operators, whose commits activate whatever
  the candidate holds. `DiscardedMeansGone`: a record says Discarded only of a change
  that is in neither configuration, although close reports success when its discard
  failed. `SweepSettlesPermanent`: a re-probe never settles a commit the device may
  still take back. `SweptLockIsFree`: `config_lock_held` is cleared by the sweep only
  when no ended or dead session has the lock, or when another record still says that it
  is held.
- Signature packages: `RunsWerePreviewed`: a run spends one token, once, of the same
  caller, device identity and plan, whatever expired, was re-identified or restarted in
  between. `OnlyTheHolderInstalls`: under a lease only its holder's jobs change
  packages, except a job a run gave up waiting for. `VerdictMatchesPreview`:
  "completed" and "verification_failed" are both true of every node the reply lists.
  A node the reply leaves out is not looked at: `verify_installed_version` loops over the
  nodes of the reply, and a "completed" says nothing of the others.
- Server: `RoutesAgree` compares the preflight with what the router and the handler make
  of the same request, directly and through the facade. What passes the preflight is not
  refused for a scope later; what it refuses would have been refused, but for
  `FailsClosed`: two tools without a router check, and arguments it does not read (both
  selectors at once, an empty list, a null selector, and in a direct call arguments that
  are null; inside the facade it leaves malformed arguments to the router, which rejects
  them). `tools/list` shows what the tool scope passes. `WorkStaysInScope`: what a body
  reaches is in the grant, by the handler's checks alone; `add_device`, `reload_devices`
  and `list_junos_change_sets` are exceptions, the last against its own documentation
  (`MCListScope.cfg`). `NoUngatedCommit`: no route commits without the flag or an
  approved change set. `ResponsesAreRedacted`: also in the rows of a table under an
  exempt key, while tokens the caller must send back survive.
  `JunosCallsLeaveOneRecord` leaves out that an SRX failure is recorded twice
  (`MCDoubleRecord.cfg`).
- Inventory: `RulesInForceApply` compares the compiled policy a call used with what the
  documentation says of the file (`Permitted`), so it covers rule precedence and the
  atomicity of the swap together. `SessionsFollowInventory` excludes one known case: a
  session in use, or on its way back to the pool, when its router is invalidated, which
  `carried` records (see `MCStaleSession.cfg` below). `NoLostUpdate` excludes an editor's
  save during an addition, which the code cannot see.
- Files: `InstalledImageIsVerified` is the window between the transfer's permit and the
  install, in which nothing but a transfer of another file to the same path can change
  what the router takes (`OtherContent`). `UpgradedMeansUpgraded`: the router runs the
  target and took the image whose digest the answer gives, if that image was still the
  staged one when the transfer hashed it. `NoRepeatedInstall` is the reason for the
  second preflight. `CallEnds` is the self-deadlock of issue #51.
- Support bundle: `NoSecretShips` is about every file of a redacted collection, in the
  scratch directory too, and about the manifest. Two things get out, and the property
  names them: the fragment of a credential the size cap cut, and the words of a device that
  refuses a log, which go into `manifest.json` as they came (`MCManifestWords.cfg`).
  `NothingLeftBehind` holds unless the file system will not remove what is dropped; the
  code ignores that error.
- SRX: `ResolutionIsTheClosure` compares the recursive walk with the set of leaves it
  stands for, over all books of three names; an unreadable address anywhere refuses the
  lookup, an unknown application only where it is reached. `FlowAnswerIsBounded` lets the
  table change between the count and the walk; nodes the summary does not list, or whose
  errors have no severity, are not counted, and the walk is cut at the cap all the same.
  `FailureIsNotAbsence`: a failed RPC, a missing node, another error and a text that does
  not parse are never "not configured". A well-formed reply without the element is: the
  parsers mean it so (`atp_empty_reply_is_not_configured`), and the property says so. Pages
  of policies tile the list unless a commit comes between two of them.

Type invariants other than `TypeOK` of CandidateTransaction are in the modules as
documentation of the variables; the runs check what needs several steps to break.

### Disagreements found

Three runs expect a violation; each states a sentence of the repository that the
code does not keep.

| Run | Statement | What happens |
|---|---|---|
| `dropped_lock_reverts` | a refused lock no longer destroys an operator's work (CHANGELOG) | a lock RPC cut off by cancellation is cleaned up with rollback 0 on a candidate the call never locked |
| `confirm_window_cut_short` | auto-rollback in N minutes unless confirmed | the RFC form is bound to the session, which is pooled and closed before the deadline |
| `shared_name_fetch` | `fetch_file` serializes, verifies and atomically promotes | fetches from two routers to one local name share `<local>.partial`; one promotes the other's file |

These configurations reproduce further ones (`tlc -config X.cfg M`); none of them is a
run, and the hazards at their lines say so:

| Configuration | Module, property | Statement | What happens |
|---|---|---|---|
| `MCDirtyClose.cfg` | MCCandidate, `SpawnedCloseSparesOperators` | every path that gives up a lock has released the session under it | `cleanup` unlocks a session that rollback 0 left dirty; the spawned close discards what an operator typed meanwhile |
| `MCStaleTaint.cfg` | MCCandidate, `TaintClearedMeansUnlocked` | the device is not locked, so the taint was stale | the taint was recorded after this call unlocked, and its lock is still held |
| `MCPooledLock.cfg` | MCChangeSet, `LockedSessionNeverPooled` | a session carrying a lock never goes back to the pool | `JunosTransaction::lock` allows reuse after any error, a lost reply included |
| `MCLateConfirm.cfg` | MCChangeSet, `ConfirmedMeansLive` | an expired window is reported instead of committing on what was rolled back to | the window lapses between the check and the commit; the record says Committed |
| `MCReopened.cfg` | MCChangeSet, `SettledStaysSettled` | a terminal record "is the newer truth and must not be written over" (`changeset_recovery.rs:295`) | the cleanup of the same apply writes Indeterminate over what the sweep settled |
| `MCPinned.cfg` | MCSignature, `PinnedVersionIsDownloaded` | a pinned version is the one downloaded (`idp_package.rs:102`) | the download ignores its target (`_target`, line 966) and stages the published version |
| `MCDoubleRecord.cfg` | MCServer, `EveryCallLeavesOneRecord` | an accepted call produces exactly one record (`rejected_call_audit.rs:167`) | an SRX handler that returns an error is recorded by itself and again as a rejected call |
| `MCStaleSession.cfg` | MCInventory, `NextOpenIsFresh` | after an invalidation the next `open()` makes a fresh connection (`device_manager.rs:597`) | a session in use at that moment, or still with the task that returns it, goes to the pool and is handed out |
| `MCListScope.cfg` | MCServer, `ListingsStayInScope` | records of devices outside the caller's scope "are filtered server-side, so no out-of-scope device name is ever returned" (`changeset.rs:1523`) | the filter is the server's whole inventory, which no grant narrows |
| `MCManifestWords.cfg` | MCSrxWorkflows, `NoSecretInManifest` | `redact` covers known-sensitive elements and log values (`support_bundle/mod.rs:131`) | what a device says instead of a log is put into `manifest.json` unredacted and uncut |
| `MCEmptyReply.cfg` | MCSrxWorkflows, `AbsenceIsConfirmed` | the response is `not_configured` only when every sub-service is confirmed so (`services_status.rs:217`) | a first reply that lists no routing engine leaves nothing to confirm, and the response is flipped |
| `MCClusterHealth.cfg` | MCSrxWorkflows, `PassMeansHealthy` | "Pass: All checks passed" (`cluster_health.rs:58`) | captures that failed leave their checks out, and the verdict is still a pass |
| `MCBaseline.cfg` | MCSrxWorkflows, `BaselineInEveryBundle` | the baseline RPCs "MUST" be in every tarball (`problem_type.rs:36`) | a failed baseline RPC is skipped and not even in the manifest (`mod.rs:485`) |

## Proofs

Eight modules hold proofs. Each shows that its invariant is inductive, for any sets of
calls, sessions, routers, files, requests and so on and any number of crashes, reloads
and edits, and derives the properties of the runs from it. TLC agreed with every
inductive invariant on the instance of its run before it was proved.

| Module | Proved (theorem: property) |
|---|---|
| `CandidateTransaction_proofs` | `TypeCorrect`: `TypeOK`; `PooledSessionsAreClean`: `PooledSessionIsClean`; `LockAlwaysHasOwner`: `LockHasOwner`; `Invariance`: `IInv`; `CommitActivatesOwnEdits`: `CommitsOnlyOwnEdits`; `ResidueIsReported`: `NoSilentResidue`; `CommitIsReported`: `NoSilentCommit` |
| `ChangeSet_proofs` | `ApplyIsExclusive`: `Inv`; `DiscardedIsGone`: `DiscardedMeansGone`; `CommitIsOwn`: `CommitActivatesOwnChange`; `SweepSettlesOnlyPermanent`: `SweepSettlesPermanent`; `SweptLocksAreFree`: `SweptLockIsFree`; `ChangeSetsImplementControl`: `ImplementsChangeControl` |
| `CommandCalls_proofs` | `InventoryIsConsistent`, `CallsAreChecked`: the invariants; `PolicyFollowsInventory`: `PolicyMatchesInventory`; `UpdatesAreKept`: `NoLostUpdate`; `RulesApply`: `RulesInForceApply`; `SessionsFollow`: `SessionsFollowInventory`; `BatchesAnswer`: `BatchAnswersForEachDevice` |
| `McpServer_proofs` | `TypeCorrect`, `BodiesAreCleared`: the invariants; `WritesAreNamed`: `WritesNeedANamedGrant`; `WorkIsInScope`: `WorkStaysInScope`; `CommitsAreGated`: `NoUngatedCommit`; `RoutesDecideAlike`: `RoutesAgree`; `CallsAreRecorded`: `JunosCallsLeaveOneRecord`; `RepliesAreRedacted`: `ResponsesAreRedacted` |
| `SignaturePackage_proofs` | `SignaturesAreConsistent`: `Inv`; `RunsArePreviewed`: `RunsWerePreviewed`; `HoldersInstall`: `OnlyTheHolderInstalls`; `VerdictsMatch`: `VerdictMatchesPreview` |
| `SrxReports_proofs` | `ReadsAreConsistent`: `ReadInv`; `VerdictsAreTheDevices`: `VerdictIsTheDevices`; `LookupsAreTheClosure`: `ResolutionIsTheClosure`; `FlowAnswersAreBounded`: `FlowAnswerIsBounded`; `FailuresAreNotAbsence`: `FailureIsNotAbsence` |
| `SupportBundle_proofs` | `BundlesAreConsistent`: `Inv`; `BundlesAreRedacted`: `NoSecretShips`; `ManifestsAreExact`: `ManifestIsExact`; `CollectionsCleanUp`: `NothingLeftBehind` |
| `UpgradeJunos_proofs` | `UpgradesAreConsistent`: `Inv`; `ImagesAreVerified`: `InstalledImageIsVerified`; `InstallsAreNotRepeated`: `NoRepeatedInstall`; `UpgradesAreReal`: `UpgradedMeansUpgraded`; `FetchesAreVerified`: `PromotedFileIsVerified` |

The assumptions on constants are named in the modules that declare them
(`DeviceAssumption`, `ModesAssumption`, `MaxCrashesAssumption`, `LockAssumption`,
`FilesAssumption`, `InitialAssumption`, `ScenariosAssumption`, `ReloadsAssumption`,
`GrantsAssumption`, `SignatureAssumption`, `BundleAssumption`, `UpgradeAssumption`,
`DepthAssumption`, `PoliciesAssumption`, `ListsAssumption`, `QueriesAssumption`, `FlowAssumption`,
`ServicesAssumption`): a sentinel is no session, call or file, a bound is a natural
number, a request has the fields of its tool's arguments, a directory has an entry for
every name that passes validation, a book maps names to leaves or to lists of names.
Every run evaluates those of its instance. Two theorems need more, and say
so as hypotheses; both are explained below.

**Candidate transaction.** `PooledSessionIsClean` says nothing of a
session in the hands of a call, and a call could give back a session it shares
with another; so `SessionInv` adds that a held session has exactly one owner
(`SessionsOwned`), that positions fit modes (`ModesFit`) and that sessions are clean
when a call starts with them and when it ends (`CleanBeforeUse`). On top of it
`EditInv` follows the edits: while its session lives, a transaction holds the lock
from the first edit to the last and the candidate holds nothing else
(`EditsUnderLock`), whatever is left in the candidate or reached the running
configuration is going to be rolled back or is reported (`ResidueReported`,
`RunningReported`), and outcomes are written once (`WrittenOnce`). The module first
proves `TypeOK /\ SessionInv` action by action, then adds `EditInv` one call
at a time: a step of one call keeps the invariant of the others (`OthersKeepInv`),
because only the holder of the lock writes, and its own by cases on its position.

**Change sets.** `Inv` of `ChangeSet_proofs` says that a session has one task, that a
server that is down runs nothing, and of each change set (`KInv`): while its session
lives, an apply past its lock has the candidate to itself (`LockInv`), the record goes
with the position of the apply (`RecordInv`), before the commit nobody else is concerned
with the change (`AloneInv`), and where the change is gone and where it is there to stay
(`CleanInv`). `DiscardedMeansGone` needs all four: a cleanup may write Discarded only
because an apply that never committed left nothing that a confirmation, a sweep or
an operator could have put elsewhere. For the refinement `ControlInv` adds the claims:
two change sets have the device at once only when one of them was settled by the sweep
and reopened, the candidate holds one change set, and none while a confirmed commit
waits. Then each action is shown to be a step of ChangeControl or a stutter
(`Simulates`), action by action. The refinement holds on a device that only the server
configures (`Operators = {}`), which is also what `change_set_safety` checks; with an
operator it is false, because a CLI commit activates what a failed change left in the
candidate, at a time no action of ChangeControl allows. The other theorems about change
sets are for any operators.

`SweptLockIsFree` needs `SweepInv`, because the flag is cleared one write after the probe
that found the lock free, and in between an apply, a cleanup or another probe may run. It
says that until the sweep has taken its list an apply that is under way has the only
unsettled record (`SnapshotInv`); that no other apply is at work while a record on the
list is unsettled (`ApartInv`); that a record is Indeterminate only where its apply is
idle or cleans up, and carries the lock flag from its first lock until it is settled
(`Swept`); and that a lock taken again after a probe found it free was taken by another
probe, whose record still says so (`FreeInv`). An apply cannot have taken it, for
the coordinator refuses one while a record is Indeterminate. A step concerns one change
set (`Frame`), and what it must respect is stated once (`Respects`), so that each action
only has to show where it goes and what it writes.

**Inventory and calls.** `InventoryInv`: exactly the holder of the write lock is between
taking and releasing it, what it read stays true until it is used (`OpInv`, `FileInv`),
and the policy lags behind the inventory only between the two swaps (`PolicyInv`).
`CallsInv`: every task that may still send a command was checked for it against the one
policy its call read, which was built from a content in force then. `RulesInForceApply`
follows with lemmas that `check_command` on a compiled policy decides as the
documentation reads the file (`Permitted`), for any rules, precedences and allow-lists.
`SessionsInv` follows idle sessions, those being opened or used and those on their way
back to the pool through a reload.

**Server.** `WorkIsCleared`: no body runs before every check of its handler has passed
under the grant that came with the request; `PreflightHeld`: nor, where there is a
preflight, a request that it refuses. The rest is about operators: lemmas per
group of handlers say what passing the checks implies, and what the preflight's verdict on
a request of each shape implies for the first denial of its handler.

**Signature packages.** `Books` keeps the token store, its history and the runs in step,
`HolderInv` gives the lease to whoever is past its checks, `DeviceInv` has the texts of
the versions well formed, so that two texts with one number are one version.

**Support bundle.** `CollOk` relates the record of a collection, its scratch directory
and its tarball at every position; paths are injective, so that no artefact overwrites
another. The theorems are about `BundleSpec`; the run composes its actions with the
queries.

**SRX reads.** The theorems are about `ReadSpec`, one call of one tool; the run composes
it with the bundles. The depth of the work is in the operators. The library's induction
theorems take an operator, which no installed prover can instantiate; the module proves
its own from the well-foundedness of the naturals, with a set of indices in the place of
the operator (`Induction`), and that a function defined by recursion over `0..N` exists
and satisfies its equation (`Recursion`). From these follow what the loops compute:
`TotalIsASum`, `WalkIsBounded` (the walk of the sessions cuts where the cap runs out),
`DeduplicatedIsOnce`, and for the walk over sets of names `WalkIsTold`, by induction on
the levels left: a visit without an error has added exactly the leaves reached from the
name, each once, and an error names a chain that is too long, a name that reaches itself
or a name that is undefined. `Reached` is the least closed set, not a computation, so
that the two sides of `ResolutionIsTheClosure` have nothing in common; the caller's half
is that the book the parser looks in is the one the lookup sees (`BookIsTheView`), with
later books over earlier ones. `ReadInv` is a conjunction by tool: the verdict of the
first tier waits for the second (`VerdictInv`), the pages collected so far are a prefix
of the list (`PagesInv`), the count covers the table unless it has changed (`FlowInv`).

**Transfers and upgrades.** Each action is summed up once, by `Move(c)`, which says what
a step of a call may do to the permit, the lease, the files and its own record; every
part of `Inv` then follows from `Move` alone. `ImageInv` (between verification and install the copy is untouched or another
content was sent there) and `VersionInv` (an install under way belongs to the upgrade
that waits for it, or was abandoned) are the strengthenings that matter.
`FetchesAreVerified` assumes `OneRouterPerName`, that fetches under one local name are of
one router. Without it the property is false, which is the run `shared_name_fetch`.

**What failed attempts showed.** Three statements of the first model turned out to hold
for its bounds only, and were corrected; TLC confirmed each counterexample on a larger
instance. `SweptLockIsFree` fails with two crashes, when a record that the sweep settled
is reopened and two probes of the device race; `change_set_safety` now has two.
`InstalledImageIsVerified` and `UpgradedMeansUpgraded` fail with three calls,
when a transfer of an older file is still on its way to the path of the image: what excuses a
difference is now that another call hashed another file for the same path, and not that
the operator restaged one, and the variable that recorded this is gone. The refinement
was shown to need its hypothesis in the same way.

**Only model-checked.**

- `CallReturns`, `LockReleased`, `LeaseIsReturned` and `CallEnds` are liveness: fairness
  and ENABLED are out of the prover's reach.
- The disagreements, which are counterexamples.

## Not modelled, and why

- **Command line and bootstrap**: argument parsing, environment names and start-up
  I/O happen once, before any request; what `main` starts (load, sweep) is in ChangeSet.
- **Configuration-text policy** (`check_config`) and the glob matcher: string
  matching without state. The rule precedence they feed is modelled.
- **`list_nat_rules`, `vpn_lifecycle`, `cluster_status`, `license`**: they turn
  replies into records, one parser each, and nothing they do takes two steps to go
  wrong.
- **TLS, rate limits, MCP session caps, the coordinator, the lease and the NETCONF
  client**: libraries outside the repository, modelled only as far as the code here
  uses them.
- **Template rendering, diffs, progress messages, output formatting, error texts**:
  layout.
- **Composition of the candidate tools with change sets on one device**: both are
  modelled against the same JunosDevice, with an operator at the CLI as the stranger;
  a joint instance (two kinds of calls, their sessions, a crash) is beyond TLC within
  minutes, and the operator already brings every foreign edit it would.

## Plan

Every module of the plan is written, and every safety property of the passing runs is
proved; liveness stays with TLC. What could follow is the confirmed-commit half of
ChangeControl with operators, under a weaker abstract specification that lets them
surface leftovers, and the candidate tools and the change sets on one device.
