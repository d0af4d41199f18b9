--------------------------- MODULE SupportBundle ---------------------------
(***************************************************************************)
(* The collect_jtac_support_bundle workflow: one collection per router at  *)
(* a time, RPC replies and log files captured one await after another into *)
(* a scratch directory, then a manifest and a tarball in the staging area. *)
(*                                                                         *)
(* A payload is reduced to what redaction can tell apart:                  *)
(*   "plain"    nothing to redact         "secret"   a credential, readable*)
(*   "broken"   a credential in text shaped like XML but not well-formed   *)
(*   "redacted" what is left of a credential after the redactor            *)
(*   "fragment" a credential the size cap cut, no longer known to be one   *)
(* A device answer is one of these, or "error" (the RPC failed), or        *)
(* "absent" (a text that begins with "error:"), or "long" or "long_xml" (a *)
(* secret text or XML document longer than max_log_bytes_per_file), or,    *)
(* for the generic command, "empty" or "timeout".                          *)
(***************************************************************************)
EXTENDS Naturals, Sequences, FiniteSets

CONSTANTS
    Collections,    \* the calls of the tool, each with its own filesystem id
    Routers,        \* the routers they name
    Requests,       \* the arguments they are made with
    MaxOddAnswers   \* how many device answers of a behaviour are not "secret"

ProblemTypes == {"chassis_cluster", "vpn", "traffic_loss", "idp_appid", "routing", "generic"}
NoOne == "none"

ASSUME BundleAssumption ==
    /\ NoOne \notin Collections
    /\ Requests \subseteq [router : Routers, types : SUBSET ProblemTypes, include_logs : BOOLEAN,
                           redact : BOOLEAN, max_log_files : Nat, path_ok : BOOLEAN]
    /\ MaxOddAnswers \in Nat

VARIABLES
    permit,     \* router |-> the collection holding its staging-key permit
    coll,       \* collection |-> its progress
    scratch,    \* collection |-> the files of its scratch directory
    staged,     \* collection |-> the tarball under its name
    odd         \* odd answers given so far

bundleVars == <<permit, coll, scratch, staged, odd>>

NoFiles == [path \in {} |-> "plain"]
NoTarball == [present |-> FALSE, files |-> NoFiles, manifest |-> {}]

-----------------------------------------------------------------------------
(* What a problem type captures. The sets are worked off in BTreeSet order, *)
(* so that the baseline configuration comes where the code asks for it.    *)

RPC_ORDER ==
    << <<"get-appid-package-version", "">>,
       <<"get-bgp-summary-information", "">>,
       <<"get-chassis-cluster-control-plane-statistics", "">>,
       <<"get-chassis-cluster-data-plane-statistics", "">>,
       <<"get-chassis-cluster-information", "">>,
       <<"get-chassis-cluster-interfaces", "">>,
       <<"get-chassis-cluster-statistics", "">>,
       <<"get-chassis-cluster-status", "">>,
       <<"get-configuration", "">>,
       <<"get-firewall-information", "">>,
       <<"get-flow-session-information", "">>,
       <<"get-flow-session-information", "<summary/>">>,
       <<"get-idp-security-package-information", "">>,
       <<"get-ike-security-associations-information", "">>,
       <<"get-interface-information", "">>,
       <<"get-ipsec-statistics-information", "">>,
       <<"get-ospf-neighbor-information", "">>,
       <<"get-route-engine-information", "">>,
       <<"get-route-summary-information", "">>,
       <<"get-security-associations-information", "">>,
       <<"get-software-information", "">>,
       <<"get-system-alarm-information", "">>,
       <<"get-system-uptime-information", "">> >>

LOG_ORDER ==
    <<"/var/log/appid", "/var/log/chassisd", "/var/log/idpd", "/var/log/jsrpd",
      "/var/log/kmd", "/var/log/messages", "/var/log/rpd">>

BASELINE_RPCS ==
    {"get-configuration",
     "get-software-information",
     "get-system-uptime-information",
     "get-system-alarm-information"}

BASELINE_LOGS == {"/var/log/messages"}

additional_rpcs(pt) ==
    CASE pt = "chassis_cluster" ->
            {"get-chassis-cluster-status",
             "get-chassis-cluster-information",
             "get-chassis-cluster-interfaces",
             "get-chassis-cluster-statistics",
             "get-chassis-cluster-control-plane-statistics",
             "get-chassis-cluster-data-plane-statistics",
             "get-system-alarm-information"}
      [] pt = "vpn" ->
            {"get-ike-security-associations-information",
             "get-ipsec-statistics-information",
             "get-security-associations-information"}
      [] pt = "traffic_loss" ->
            {"get-flow-session-information",
             "get-interface-information",
             "get-firewall-information"}
      [] pt = "idp_appid" ->
            {"get-idp-security-package-information",
             "get-appid-package-version"}
      [] pt = "routing" ->
            {"get-route-summary-information",
             "get-bgp-summary-information",
             "get-ospf-neighbor-information",
             "get-route-engine-information"}
      [] pt = "generic" -> {}

additional_rpcs_with_args(pt) ==
    IF pt = "traffic_loss" THEN {<<"get-flow-session-information", "<summary/>">>} ELSE {}

additional_logs(pt) ==
    CASE pt = "chassis_cluster" -> {"/var/log/chassisd", "/var/log/jsrpd"}
      [] pt = "vpn" -> {"/var/log/kmd"}
      [] pt = "idp_appid" -> {"/var/log/idpd", "/var/log/appid"}
      [] pt = "routing" -> {"/var/log/rpd"}
      [] pt \in {"traffic_loss", "generic"} -> {}

\* The RPCs of a request, as (name, arguments).
all_rpcs(types) ==
    ((BASELINE_RPCS \cup UNION {additional_rpcs(pt) : pt \in types}) \X {""})
        \cup UNION {additional_rpcs_with_args(pt) : pt \in types}

\* The log files of a request.
all_logs(types) == BASELINE_LOGS \cup UNION {additional_logs(pt) : pt \in types}

\* The iterator of a BTreeSet: x is the one of S that comes first.
Position(order, x) == CHOOSE i \in DOMAIN order : order[i] = x
IsFirst(order, x, S) == x \in S /\ \A y \in S : Position(order, x) <= Position(order, y)

-----------------------------------------------------------------------------
(* Redaction, and the artefacts of the manifest.                           *)

\* Mutant: what cannot be parsed is shipped as it came.
redact_rpc_reply_Permissive(raw) ==
    [ok |-> TRUE, payload |-> IF raw = "secret" THEN "redacted" ELSE raw]

\* redact_xml on a payload: what is left, or a refusal.
redact_rpc_reply(raw) ==
    [ok |-> raw # "broken", payload |-> IF raw = "secret" THEN "redacted" ELSE raw]

\* redact_log_artefact on a text: line by line, refusing what only looks like XML and
\* leaving what it does not know.
redact_log_artefact(text) ==
    [ok |-> text # "broken", payload |-> IF text = "secret" THEN "redacted" ELSE text]

\* With redact off the payload is written as it came.
Unless(redact, raw, red) ==
    IF redact THEN red ELSE [ok |-> TRUE, payload |-> raw]

\* Mutant: the argument is not part of the file name.
sanitize_rpc_filename_NameOnly(rpc) == <<"rpc", rpc[1], "">>

\* An RPC's file name carries its arguments.
sanitize_rpc_filename(rpc) == <<"rpc", rpc[1], rpc[2]>>

\* A log's path below logs/, from its path below /var/log.
device_log_tarball_path(log) == <<"logs", log, "">>

\* truncate_to_char_boundary: a credential before the cut, across it, or after it; an XML
\* document is no longer one.
truncate_to_char_boundary(a) ==
    CASE a = "long" -> {"secret", "fragment", "plain"}
      [] a = "long_xml" -> {"broken"}
      [] OTHER -> {a}

\* CapturedArtefact: bytes tells whether a payload was written for it, error why not or
\* what was done to it, words what the text of the error holds.
CapturedArtefact(source, path, payload, error) ==
    [source |-> source, path |-> path, bytes |-> TRUE, sha256 |-> payload, error |-> error,
     words |-> "plain"]

RefusedArtefact(source, path, error, words) ==
    [source |-> source, path |-> path, bytes |-> FALSE, sha256 |-> "", error |-> error,
     words |-> words]

\* What a device's own words may hold: the text of an rpc-error, or of a reply that begins
\* with "error:", however long it is.
DeviceWords(a) == IF a \in {"error", "absent"} THEN {"plain", "secret"} ELSE {"plain"}

-----------------------------------------------------------------------------

Idle == [pc |-> "new", request |-> NoOne, rpcs |-> {}, logs |-> {},
         artefacts |-> {}, captured |-> 0, redacted |-> FALSE, result |-> "", stuck |-> {}]

BundleInit ==
    /\ permit = [r \in Routers |-> NoOne]
    /\ coll = [c \in Collections |-> Idle]
    /\ scratch = [c \in Collections |-> [made |-> FALSE, files |-> NoFiles]]
    /\ staged = [c \in Collections |-> NoTarball]
    /\ odd = 0

\* A device answer: a secret payload, or an odd one within the bound.
Answer(kinds, a) ==
    \/ a = "secret" /\ UNCHANGED odd
    \/ a \in kinds /\ odd < MaxOddAnswers /\ odd' = odd + 1

Write(c, path, payload) ==
    scratch' = [scratch EXCEPT ![c].files =
        [p \in DOMAIN @ \cup {path} |-> IF p = path THEN payload ELSE @[p]]]

\* What the file system would not remove; remove_without_following does not say so.
RemovalFailures(keep, tarball) ==
    SUBSET ({"scratch"} \cup IF tarball.present /\ ~keep THEN {"tarball"} ELSE {})

\* Mutant: the partial archive stays.
Drop_LeavesTarball(c, keep, tarball, result) ==
    /\ scratch' = [scratch EXCEPT ![c] = [made |-> FALSE, files |-> NoFiles]]
    /\ staged' = [staged EXCEPT ![c] = tarball]
    /\ permit' = [permit EXCEPT ![coll[c].request.router] = NoOne]
    /\ coll' = [coll EXCEPT ![c].pc = "over", ![c].result = result]

\* The call's future is over: PreparedBundlePaths is dropped (scratch removed,
\* tarball removed unless committed), then the permit.
Drop(c, keep, tarball, result) ==
    /\ \E stuck \in RemovalFailures(keep, tarball) :
         /\ scratch' = [scratch EXCEPT ![c] =
              IF "scratch" \in stuck THEN @ ELSE [made |-> FALSE, files |-> NoFiles]]
         /\ staged' = [staged EXCEPT ![c] = IF keep \/ "tarball" \in stuck THEN tarball ELSE NoTarball]
         /\ coll' = [coll EXCEPT ![c].pc = "over", ![c].result = result, ![c].stuck = stuck]
    /\ permit' = [permit EXCEPT ![coll[c].request.router] = NoOne]

\* A failure after prepare() and before the archive exists.
Fail(c, result) == Drop(c, FALSE, NoTarball, result)

\* An error before the future holds anything: nothing has to be dropped.
Refuse(c, q, result) ==
    /\ coll' = [coll EXCEPT ![c].pc = "over", ![c].request = q, ![c].result = result]
    /\ UNCHANGED <<permit, scratch, staged>>

\* A router name or a request_id that is not one safe path component.
validate_path_inputs(q) == q.path_ok

\* The log files a request asks for.
LogsOf(q) == IF "generic" \notin q.types /\ q.include_logs THEN all_logs(q.types) ELSE {}

\* prepare(): the router's directory and a new scratch directory in it. It fails
\* on a directory it cannot create, a symlink, or a tarball of that name, and
\* takes the scratch directory back, if it can; the permit goes with the call.
prepare(c, q) ==
    \/ /\ \E stuck \in RemovalFailures(FALSE, NoTarball) :
            /\ scratch' = [scratch EXCEPT ![c].made = ("scratch" \in stuck)]
            /\ coll' = [coll EXCEPT ![c].pc = "over", ![c].request = q,
                                   ![c].result = "unprepared", ![c].stuck = stuck]
       /\ UNCHANGED <<permit, staged>>
    \/ /\ scratch' = [scratch EXCEPT ![c].made = TRUE]
       /\ permit' = [permit EXCEPT ![q.router] = c]
       /\ coll' = [coll EXCEPT ![c] = [Idle EXCEPT !.request = q,
            !.pc = IF "generic" \in q.types THEN "generic" ELSE "rpc",
            !.rpcs = IF "generic" \in q.types THEN {} ELSE all_rpcs(q.types),
            !.logs = LogsOf(q)]]
       /\ UNCHANGED staged

\* run(): arguments, the per-router permit, then one of the two ways to collect.
run(c) ==
    /\ coll[c].pc = "new"
    /\ \E q \in Requests :
        \/ /\ q.types = {} \/ ~validate_path_inputs(q)
           /\ Refuse(c, q, "invalid_input")
        \/ /\ q.types # {} /\ validate_path_inputs(q)
           /\ permit[q.router] # NoOne
           /\ Refuse(c, q, "contention")
        \/ /\ q.types # {} /\ validate_path_inputs(q)
           /\ permit[q.router] = NoOne
           /\ prepare(c, q)
    /\ UNCHANGED odd

\* collect_generic: the whole of `request support information`, inline.
collect_generic(c) ==
    /\ coll[c].pc = "generic"
    /\ \E a \in {"secret", "plain", "broken", "error", "empty", "timeout"} :
        LET red == Unless(coll[c].request.redact, a, redact_log_artefact(a))
            path == <<"", "request-support-information", "">>
        IN /\ Answer({"plain", "broken", "error", "empty", "timeout"}, a)
           /\ \/ Fail(c, "failed")      \* refused, or the file cannot be written
              \/ /\ a \notin {"error", "empty", "timeout"} /\ red.ok
                 /\ Write(c, path, red.payload)
                 /\ coll' = [coll EXCEPT ![c].pc = "finalize",
                        ![c].artefacts = {CapturedArtefact(path, path, red.payload, "")},
                        ![c].redacted = (red.payload # a)]
                 /\ UNCHANGED <<permit, staged>>

\* One RPC of collect_per_type. A failed or unredactable reply is skipped,
\* except the configuration, which ends the collection (so the later test that
\* every RPC failed is never reached), as does a file that cannot be written.
CaptureRpc(c) ==
    /\ coll[c].pc = "rpc"
    /\ \E rpc \in coll[c].rpcs, a \in {"secret", "plain", "broken", "error"} :
        LET red == Unless(coll[c].request.redact, a, redact_rpc_reply(a))
            path == sanitize_rpc_filename(rpc)
            failed == a = "error" \/ ~red.ok
        IN /\ IsFirst(RPC_ORDER, rpc, coll[c].rpcs)
           /\ Answer({"plain", "broken", "error"}, a)
           /\ \/ /\ ~failed \/ rpc[1] = "get-configuration"
                 /\ Fail(c, "failed")
              \/ /\ failed /\ rpc[1] # "get-configuration"
                 /\ coll' = [coll EXCEPT ![c].rpcs = @ \ {rpc}]
                 /\ UNCHANGED <<permit, scratch, staged>>
              \/ /\ ~failed
                 /\ Write(c, path, red.payload)
                 /\ coll' = [coll EXCEPT ![c].rpcs = @ \ {rpc},
                        ![c].artefacts = @ \cup {CapturedArtefact(rpc, path, red.payload, "")},
                        ![c].redacted = @ \/ red.payload # a]
                 /\ UNCHANGED <<permit, staged>>

\* A log past max_log_files is not asked for; its entry says so.
SkipLog(c) ==
    /\ coll[c].pc = "rpc" /\ coll[c].rpcs = {}
    /\ coll[c].captured >= coll[c].request.max_log_files
    /\ \E log \in coll[c].logs :
         /\ IsFirst(LOG_ORDER, log, coll[c].logs)
         /\ coll' = [coll EXCEPT ![c].logs = @ \ {log},
            ![c].artefacts = @ \cup {RefusedArtefact(<<log, "">>, device_log_tarball_path(log), "skipped", "plain")}]
    /\ UNCHANGED <<permit, scratch, staged, odd>>

\* What becomes of the answer a to one log, cut to content: an entry with the reason and the
\* device's words, or a file, or a file that cannot be written, which ends the collection.
RecordLog(c, log, a, content, words) ==
    LET path == device_log_tarball_path(log)
        red == Unless(coll[c].request.redact, content, redact_log_artefact(content))
        shown == a \notin {"error", "absent"}
        error == CASE ~shown -> "device"
                   [] shown /\ ~red.ok -> "unsafe"
                   [] OTHER -> IF a \in {"long", "long_xml"} THEN "truncated" ELSE ""
    IN \/ /\ shown /\ red.ok /\ Fail(c, "failed")
       \/ /\ ~shown \/ ~red.ok
          /\ coll' = [coll EXCEPT ![c].logs = @ \ {log},
                 ![c].artefacts = @ \cup {RefusedArtefact(<<log, "">>, path, error, words)}]
          /\ UNCHANGED <<permit, scratch, staged>>
       \/ /\ shown /\ red.ok
          /\ Write(c, path, red.payload)
          /\ coll' = [coll EXCEPT ![c].logs = @ \ {log}, ![c].captured = @ + 1,
                 ![c].artefacts = @ \cup {CapturedArtefact(<<log, "">>, path, red.payload, error)},
                 ![c].redacted = @ \/ red.payload # content]
          /\ UNCHANGED <<permit, staged>>

\* `file show` of one log. A reply that is an error, or begins with "error:", goes into the
\* manifest as it came, neither cut nor redacted. Only a log that is written counts as captured.
CaptureLog(c) ==
    /\ coll[c].pc = "rpc" /\ coll[c].rpcs = {}
    /\ coll[c].captured < coll[c].request.max_log_files
    /\ \E log \in coll[c].logs,
          a \in {"secret", "plain", "broken", "error", "absent", "long", "long_xml"} :
       \E content \in truncate_to_char_boundary(a), words \in DeviceWords(a) :
        /\ IsFirst(LOG_ORDER, log, coll[c].logs)
        /\ Answer({"plain", "broken", "error", "absent", "long", "long_xml"}, a)
        /\ RecordLog(c, log, a, content, words)

\* ensure_confined: somebody may have moved or replaced a staging directory.
ensure_confined == BOOLEAN

\* The archive is created exclusively and written: nothing, a part or all of it.
write_bundle_archive(c) ==
    LET whole == [present |-> TRUE, files |-> scratch[c].files, manifest |-> coll[c].artefacts]
    IN { [ok |-> FALSE, tarball |-> NoTarball],
         [ok |-> FALSE, tarball |-> [whole EXCEPT !.files = NoFiles]],
         [ok |-> FALSE, tarball |-> whole],
         [ok |-> TRUE, tarball |-> whole] }

\* finalize_lxc_bundle, without an await: manifest, archive, the staging cap (a
\* stub that does nothing), commit, and the drop of the paths.
finalize_lxc_bundle(c) ==
    /\ \/ coll[c].pc = "finalize"
       \/ coll[c].pc = "rpc" /\ coll[c].rpcs = {} /\ coll[c].logs = {}
    /\ \E confined \in ensure_confined, archive \in write_bundle_archive(c) :
        IF confined
        THEN Drop(c, archive.ok, archive.tarball, IF archive.ok THEN "ok" ELSE "failed")
        ELSE Fail(c, "failed")
    /\ UNCHANGED odd

\* The caller's framework gives up at an await: the future is dropped.
Cancel(c) ==
    /\ coll[c].pc \in {"generic", "rpc"}
    /\ coll[c].pc = "generic" \/ coll[c].rpcs # {} \/ coll[c].logs # {}
    /\ Fail(c, "cancelled")
    /\ UNCHANGED odd

BundleStep(c) ==
    \/ run(c)
    \/ collect_generic(c)
    \/ CaptureRpc(c)
    \/ SkipLog(c)
    \/ CaptureLog(c)
    \/ finalize_lxc_bundle(c)
    \/ Cancel(c)

BundleNext == \E c \in Collections : BundleStep(c)

BundleSpec == BundleInit /\ [][BundleNext]_bundleVars

-----------------------------------------------------------------------------
(* Properties.                                                             *)

Kept == {c \in Collections : coll[c].result = "ok"}

\* With redact, no file of a collection holds a readable credential, in the scratch directory,
\* the bundle or what a failed removal left of either: replies that do not parse and documents
\* the size cap broke are refused, never shipped (redact_rpc_reply, redact_log_artefact: fail
\* closed). All that can get out is a fragment in a log, where the cap cut a credential, and,
\* through the manifest, the words of a device that would not show a log.
NoSecretShips ==
    \A c \in Collections : coll[c].pc # "new" /\ coll[c].request.redact =>
        /\ \A files \in {scratch[c].files, staged[c].files} : \A p \in DOMAIN files :
             files[p] \in {"plain", "redacted"} \/ (files[p] = "fragment" /\ p[1] = "logs")
        /\ \A a \in staged[c].manifest :
             a.words = "secret" => a.path[1] = "logs" /\ a.error = "device"

\* "Whether to redact known-sensitive XML elements and log values" (redact,
\* SupportBundleArgs): nor does the manifest of a redacted bundle hold a credential.
NoSecretInManifest ==
    \A c \in Kept : coll[c].request.redact =>
        \A a \in staged[c].manifest : a.words # "secret"

\* What the manifest says was captured is what the archive holds, file by file
\* and digest by digest, with no two artefacts in one file; every log of the
\* request is in it, captured or with the reason it is not; no more logs than
\* max_log_files were taken; and it says "redacted" when something was.
ManifestIsExact ==
    \A c \in Kept :
        LET files == staged[c].files
            written == {a \in staged[c].manifest : a.bytes}
        IN /\ DOMAIN files = {a.path : a \in written}
           /\ \A a, b \in staged[c].manifest : a.path = b.path => a = b
           /\ \A a \in written : a.sha256 = files[a.path]
           /\ coll[c].redacted = (\E p \in DOMAIN files : files[p] = "redacted")
           /\ {a.source[1] : a \in {b \in staged[c].manifest : b.path[1] = "logs"}}
                = LogsOf(coll[c].request)
           /\ Cardinality({a \in written : a.path[1] = "logs"}) <= coll[c].request.max_log_files

\* However a collection ends (refused, failed in the middle of the archive,
\* cancelled at an await), its scratch directory is gone and a tarball stands
\* under its name exactly when it answered ok, unless the file system would
\* not remove them; even then its router can be asked again, and an answer of
\* ok has its bundle. While it runs, it alone holds its router.
NothingLeftBehind ==
    \A c \in Collections :
        /\ coll[c].pc = "over" =>
            /\ "scratch" \notin coll[c].stuck => ~scratch[c].made /\ scratch[c].files = NoFiles
            /\ staged[c].present = (coll[c].result = "ok" \/ "tarball" \in coll[c].stuck)
            /\ c \notin {permit[r] : r \in Routers}
        /\ coll[c].pc \notin {"new", "over"} => permit[coll[c].request.router] = c

\* "The orchestrator MUST include these in every tarball" (BASELINE_RPCS).
BaselineInEveryBundle ==
    \A c \in Kept : "generic" \notin coll[c].request.types =>
        \A name \in BASELINE_RPCS : \E a \in staged[c].manifest : a.source[1] = name
=============================================================================
