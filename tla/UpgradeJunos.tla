---------------------------- MODULE UpgradeJunos ----------------------------
(***************************************************************************)
(* upgrade_junos: preflight, the device lease, a second preflight, the     *)
(* transfer of the image (the steps of FileTransfer), the install that     *)
(* reboots the router, and the wait for the target version.  The lease is  *)
(* kept to the end of the call; the transfer permit only for the transfer. *)
(***************************************************************************)
EXTENDS FileTransfer

CONSTANTS
    Versions,          \* Junos versions
    Carries,           \* the version an image installs
    InitVersion,       \* version each router runs at the start
    Clustered,         \* routers in a chassis cluster
    Authority,         \* config_authority of each router
    AllowPlaneWrites,  \* allow_plane_owned_writes
    UpgradeHeadroom,   \* UPGRADE_DISK_HEADROOM_BYTES
    InstallErrors,     \* errors the install command may end with
    MaxPolls           \* probes that fit in reboot_wait_secs

VARIABLES
    version,     \* version each router runs
    installing,  \* the content being installed on each router, or NoFile
    window,      \* "none", "open" or "unreadable": the confirmed-commit line of the router
    lease,       \* DeviceLeaseManager: the upgrade that holds each router
    up,          \* upgrade state: image digest, facts, versions seen, polls
    abandoned    \* history: routers an upgrade gave up on after its install command

upgradeVars == <<version, installing, window, lease, up, abandoned>>
vars == <<transferVars, upgradeVars>>

Nothing == [no |-> "version"]

\* What the four tools are asked for.  A transfer keeps the name of the file; a
\* target and a confirm are those of an upgrade.
Basenames == Seq({"a", "b", ".", "/", "?"})
FileTools == TransferTools \cup {"fetch_file"}
Requests ==
    {q \in [tool : FileTools \cup {"list_staged_files"}, router : Routers, name : Basenames,
            local : Basenames, force : BOOLEAN, verify : BOOLEAN, target : Versions,
            confirm : BOOLEAN] : q.tool \in TransferTools => q.local = q.name}

\* The directories have an entry for every name a request may use; a file holds
\* a content, or is missing, or is a symbolic link; a call is neither a file nor
\* an inode of the operator's.
ASSUME UpgradeAssumption ==
    /\ \A s \in Scenarios : s \in [Calls -> Requests]
    /\ \A s \in Scenarios : \A c \in Calls : s[c].tool \in FileTools =>
          /\ validate_source_basename(s[c].name) => <<s[c].router, s[c].name>> \in DOMAIN InitRemote
          /\ validate_source_basename(s[c].local) => s[c].local \in DOMAIN InitStaged
    /\ InitStaged \in [DOMAIN InitStaged -> Contents \cup {NoFile, Symlink}]
    /\ InitRemote \in [DOMAIN InitRemote -> Contents \cup {NoFile}]
    /\ InitVersion \in [Routers -> Versions \cup {Nothing}]
    /\ Carries \in [Contents -> Versions]
    /\ NoFile \notin Contents
    /\ \A i \in Calls : i \notin {NoOne, NoFile, Symlink}
    /\ \A i \in Calls, j \in 1 .. MaxRestage : i # [restaged |-> j]
    /\ \A i \in Calls, n \in DOMAIN InitStaged : i # InitInode(n)
    /\ Nothing \notin Versions
    /\ MaxRestage \in Nat

IsUpgrade(c) == requests[c].tool = "upgrade_junos"
Upgrades == {c \in Calls : IsUpgrade(c)}

Init ==
    /\ TransferInit
    /\ version = InitVersion
    /\ installing = [r \in Routers |-> NoFile]
    /\ window = [r \in Routers |-> "none"]
    /\ lease = [r \in Routers |-> NoOne]
    /\ up = [c \in Calls |-> [image |-> NoFile, observed |-> Nothing, polls |-> 0,
                              sent |-> NoFile]]
    /\ abandoned = {}

-----------------------------------------------------------------------------
(* The preflight decision.                                                 *)

check_plane_owned_operation(authority, allow) ==
    CASE authority \in {"local", "unknown"} -> "allowed"
      [] authority \notin {"local", "unknown"} /\ allow -> "warned"
      [] OTHER -> "refused"

parse_junos_version(output) == output            \* Nothing when no Junos: line
detect_cluster_active(r) == r \in Clustered

\* A rollback line whose duration does not parse counts as no window.
detect_active_commit_confirmed(line) == line = "open"

evaluate_preflight(r, args, image) ==
    LET current == parse_junos_version(version[r])
        free == parse_storage_free_bytes(Storage[r])
    IN  CASE detect_cluster_active(r) -> "ClusterUnsupported"
          [] current = Nothing /\ ~ detect_cluster_active(r) -> "UnparseableVersion"
          [] OTHER ->
             IF current = args.target THEN "AlreadyAtTarget"
             ELSE IF detect_active_commit_confirmed(window[r]) THEN "CommitConfirmedActive"
             ELSE IF free = Unparsed THEN "UnparseableStorage"
             ELSE IF free < 2 * Size[image] + UpgradeHeadroom THEN "InsufficientDisk"
             ELSE IF ~ args.confirm THEN "ConfirmationRequired"
             ELSE "Proceed"

-----------------------------------------------------------------------------
(* upgrade_junos::handle.                                                  *)

Unleased(c) == [r \in Routers |-> IF lease[r] = c THEN NoOne ELSE lease[r]]

\* The end of an upgrade returns the permit and the lease.
UpgradeReply(c, code) ==
    /\ Reply(c, code, call[c].verified)
    /\ lease' = Unleased(c)

\* run: checks, and the digest of the staged image.
UpgradeStart(c) ==
    /\ IsUpgrade(c) /\ At(c, "start")
    /\ IF /\ validate_source_basename(requests[c].name)
          /\ Router(c) \notin PasswordRouters
          /\ check_plane_owned_operation(Authority[Router(c)], AllowPlaneWrites) # "refused"
          /\ dirent[File(c)] \notin {NoFile, Symlink}
       THEN /\ Goto(c, "facts") /\ UNCHANGED <<permit, lease>>
            /\ up' = [up EXCEPT ![c].image = sha256_file_cancellable(c)]
       ELSE UpgradeReply(c, "Refused") /\ UNCHANGED up
    /\ UNCHANGED <<requests, dirent, data, remote,
                   version, installing, window, abandoned>>

\* First preflight, without the lease.
dispatch_preflight(c) ==
    /\ IsUpgrade(c) /\ At(c, "facts")
    /\ LET d == evaluate_preflight(Router(c), requests[c], up[c].image)
       IN  \/ d = "Proceed" /\ Goto(c, "lease") /\ UNCHANGED <<permit, lease>>
           \/ d # "Proceed" /\ UpgradeReply(c, d)
           \/ UpgradeReply(c, "DeviceProbeFailed")
    /\ UNCHANGED <<requests, dirent, data, remote,
                   version, installing, window, up, abandoned>>

\* acquire_cancellable: refused at once when another operation holds it.
acquire_cancellable(c) ==
    /\ IsUpgrade(c) /\ At(c, "lease")
    /\ \/ /\ lease[Router(c)] = NoOne
          /\ lease' = [lease EXCEPT ![Router(c)] = c]
          /\ Goto(c, "locked") /\ UNCHANGED permit
       \/ lease[Router(c)] # NoOne /\ UpgradeReply(c, "DeviceBusy")
    /\ UNCHANGED <<requests, dirent, data, remote,
                   version, installing, window, up, abandoned>>

\* Mutant: the facts read before the lease are used.
LockedPreflight_Cached(c) ==
    /\ IsUpgrade(c) /\ At(c, "locked")
    /\ Goto(c, "transfer") /\ UNCHANGED <<permit, lease>>
    /\ UNCHANGED <<requests, dirent, data, remote,
                   version, installing, window, up, abandoned>>

\* The facts again, under the lease; then the baseline and on to the transfer.
LockedPreflight(c) ==
    /\ IsUpgrade(c) /\ At(c, "locked")
    /\ LET d == evaluate_preflight(Router(c), requests[c], up[c].image)
       IN  \/ d = "Proceed" /\ Goto(c, "transfer") /\ UNCHANGED <<permit, lease>>
           \/ d # "Proceed" /\ UpgradeReply(c, d)
           \/ UpgradeReply(c, "DeviceProbeFailed")
    /\ UNCHANGED <<requests, dirent, data, remote,
                   version, installing, window, up, abandoned>>

\* The steps of the transfer, run by an upgrade: an error ends the upgrade.
UpgradeTransfer(c) ==
    /\ IsUpgrade(c) /\ TransferStep(c)
    /\ lease' = IF call'[c].pc = "done" THEN Unleased(c) ELSE lease
    /\ UNCHANGED <<version, installing, window, up, abandoned>>

\* The errors that read like the session going down with the reboot.
install_error_indicates_session_drop(err) ==
    err \in {"connection closed", "connection reset", "broken pipe", "unexpected eof",
             "early eof", "channel closed", "session closed"}

\* `request system software add ... no-copy reboot`.  The router may take the
\* command, and then the file as it is now, whatever the client gets back: the
\* text of an Ok answer is not looked at, and of the errors only those that
\* read like a dropped session let the call go on.
Install(c) ==
    /\ IsUpgrade(c) /\ At(c, "install")
    /\ LET r == Router(c)
           image == remote[Var(c)]
       IN  \/ UpgradeReply(c, "ConnectFailed") /\ UNCHANGED <<installing, up, abandoned>>
           \/ \E took \in {image # NoFile, FALSE}, result \in {"ok"} \cup InstallErrors :
                 LET goesOn == result = "ok" \/ install_error_indicates_session_drop(result)
                 IN  /\ IF took
                        THEN /\ installing' = [installing EXCEPT ![r] = image]
                             /\ up' = [up EXCEPT ![c].sent = image]
                        ELSE UNCHANGED <<installing, up>>
                     /\ \/ /\ goesOn /\ Goto(c, "wait")
                           /\ UNCHANGED <<permit, lease, abandoned>>
                        \/ /\ \/ ~ goesOn /\ UpgradeReply(c, "DeviceProbeFailed")
                              \/ result = "ok" /\ UpgradeReply(c, "Cancelled")
                           /\ abandoned' = IF took THEN abandoned \cup {r} ELSE abandoned
    /\ UNCHANGED <<requests, dirent, data, remote, version, window>>

\* Mutant: the first answer counts as the router being back.
wait_for_version_FirstAnswer(c) ==
    /\ IsUpgrade(c) /\ At(c, "wait")
    /\ Goto(c, "post")
    /\ UNCHANGED <<requests, dirent, data, remote, permit, upgradeVars>>

\* One probe of wait_for_version: `show version`, or a transient error.
wait_for_version(c) ==
    /\ IsUpgrade(c) /\ At(c, "wait")
    /\ LET r == Router(c)
           seen == parse_junos_version(version[r])
           left == up[c].polls + 1 < MaxPolls
           After(observed) ==
               IF left
               THEN /\ up' = [up EXCEPT ![c].polls = @ + 1, ![c].observed = observed]
                    /\ UNCHANGED <<call, permit, lease, abandoned>>
               ELSE /\ UpgradeReply(c, IF observed = Nothing THEN "RebootTimeout"
                                       ELSE "PostVerifyMismatch")
                    /\ abandoned' = abandoned \cup {r}
                    /\ UNCHANGED up
       IN  \/ /\ seen = requests[c].target
              /\ Goto(c, "post") /\ UNCHANGED <<permit, lease, up, abandoned>>
           \/ seen # requests[c].target /\ seen # Nothing /\ After(seen)
           \/ After(up[c].observed)                         \* transient: swallowed
    /\ UNCHANGED <<requests, dirent, data, remote, version, installing, window>>

\* The post-baseline: without a session the upgrade fails after all.
PostBaseline(c) ==
    /\ IsUpgrade(c) /\ At(c, "post")
    /\ \E code \in {"upgraded", "ConnectFailed"} : UpgradeReply(c, code)
    /\ UNCHANGED <<requests, dirent, data, remote,
                   version, installing, window, up, abandoned>>

\* The outer timeout, or a cancellation at an await (not in the install).
UpgradeAbort(c) ==
    /\ IsUpgrade(c) /\ call[c].pc \in TransferPCs \cup {"facts", "lease", "locked", "wait", "post"}
    /\ \E code \in {"Timeout", "Cancelled"} :
          (code = "Cancelled" => ~ At(c, "delete")) /\ UpgradeReply(c, code)
    /\ abandoned' = IF call[c].pc \in {"wait", "post"} THEN abandoned \cup {Router(c)} ELSE abandoned
    /\ UNCHANGED <<requests, dirent, data, remote, version, installing, window, up>>

-----------------------------------------------------------------------------
(* The router (external): its reboot, and confirmed commits of others.     *)

Reboot(r) ==
    /\ installing[r] # NoFile
    /\ version' = [version EXCEPT ![r] =
                      IF installing[r] \in Contents THEN Carries[installing[r]] ELSE @]
    /\ installing' = [installing EXCEPT ![r] = NoFile]
    /\ UNCHANGED <<transferVars, window, lease, up, abandoned>>

CommitConfirmed(r) ==
    /\ \E line \in {"none", "open", "unreadable"} :
          line # window[r] /\ window' = [window EXCEPT ![r] = line]
    /\ UNCHANGED <<transferVars, version, installing, lease, up, abandoned>>

UpgradeStep(c) ==
    \/ UpgradeStart(c) \/ dispatch_preflight(c) \/ acquire_cancellable(c) \/ LockedPreflight(c)
    \/ UpgradeTransfer(c) \/ Install(c) \/ wait_for_version(c) \/ PostBaseline(c)

PlainStep(c) ==
    /\ ~ IsUpgrade(c)
    /\ TransferStep(c) \/ FetchStep(c) \/ ListStep(c)
    /\ UNCHANGED upgradeVars

Step(c) == UpgradeStep(c) \/ PlainStep(c)

Next ==
    \/ \E c \in Calls : Step(c)
    \/ \E c \in Calls : Abort(c) /\ UNCHANGED upgradeVars
    \/ \E c \in Calls : UpgradeAbort(c)
    \/ \E n \in LocalNames, content \in Contents : Restage(n, content) /\ UNCHANGED upgradeVars
    \/ \E r \in Routers : Reboot(r)
    \/ \E r \in Routers : (\E c \in Upgrades : Router(c) = r /\ Live(c)) /\ CommitConfirmed(r)

Fairness == \A c \in Calls : WF_vars(Step(c))
Spec == Init /\ [][Next]_vars /\ Fairness

-----------------------------------------------------------------------------
\* Another transfer to the same /var/tmp/<name> that hashed another local file.
OtherContent(c) ==
    \E d \in Calls \ {c} : /\ requests[d].tool \in TransferTools
                           /\ Var(d) = Var(c)
                           /\ call[d].local \notin {NoFile, call[c].local}

\* upgrade_junos verifies the image, drops the transfer permit and only then
\* tells the router to install /var/tmp/<name>.  What the router takes is the
\* image that was verified, whatever happens in the staging directory and on
\* the router meanwhile, unless a transfer of another file to the very same
\* path is among the calls: the permit is no longer there to keep it out.
InstalledImageIsVerified ==
    [][\A c \in Calls : up'[c].sent # up[c].sent =>
          call[c].verified /\ (up'[c].sent = call[c].local \/ OtherContent(c))]_vars

\* dispatch_preflight reads the facts again under the lease: no router is told
\* to install, and reboot into, a version it already runs, unless an upgrade
\* of it was given up with the install under way.
NoRepeatedInstall ==
    [][\A c \in Calls : up'[c].sent # up[c].sent =>
          \/ version[Router(c)] # requests[c].target
          \/ Router(c) \in abandoned]_vars

\* A call that answers "upgraded" (build_success_response) has rebooted its
\* router into the target version, unless another upgrade of the router was
\* given up with its install under way; and the router took the image whose
\* digest the call reports, if the staged file was still that image when the
\* transfer hashed it and no other file was sent to the same path.
UpgradedMeansUpgraded ==
    [][\A c \in Calls : call'[c].reply = "upgraded" /\ call[c].reply # "upgraded" =>
          \/ Router(c) \in abandoned
          \/ /\ version[Router(c)] = requests[c].target
             /\ \/ up[c].sent = up[c].image
                \/ up[c].image # call[c].local \/ OtherContent(c)]_vars

\* fetch_file "verifies SHA-256 post-fetch, and atomically promotes `.partial`
\* to the canonical name": the file a call reports as fetched and verified
\* holds, when it gets its name, the content the router gave the digest of.
PromotedFileIsVerified ==
    [][\A c \in Calls :
          /\ call'[c].reply = "fetched" /\ call[c].reply # "fetched"
          /\ call'[c].verified
          => data'[dirent'[File(c)]] = call[c].seen]_vars

\* Every call ends of itself: the outer timeout is never what ends a wait for
\* the permit or the lease (the self-deadlock of an upgrade that held the
\* permit when it called transfer_file).
CallEnds == \A c \in Calls : <>(call[c].pc = "done")
=============================================================================
