---------------------------- MODULE FileTransfer ----------------------------
(***************************************************************************)
(* transfer_file and fetch_file: files copied by scp between the staging   *)
(* directory of the host and /var/tmp of a router, each call serialised    *)
(* with the others of the SAME router by a permit (TransferLocks), checked *)
(* by sha256 before and after the copy.                                    *)
(*                                                                         *)
(* The staging directory is a Unix directory: a name refers to an inode, a *)
(* writer keeps its inode when the name is removed or renamed.  A file's   *)
(* content stands for its digest.  A call in progress is one record; its   *)
(* steps are the stretches of the handler between two awaits, and the      *)
(* outer timeout or a cancellation may end it at any await.                *)
(***************************************************************************)
EXTENDS Integers, Sequences, FiniteSets

CONSTANTS
    Calls,            \* the calls in progress, each one request
    Routers,
    Scenarios,        \* the mixes of requests: functions Calls -> request
    Contents,         \* what a complete file may hold
    InitStaged,       \* the staged files at the start: name -> content
    InitRemote,       \* /var/tmp at the start: <<router, name>> -> content
    PasswordRouters,  \* routers whose inventory entry uses a password
    Storage,          \* `show system storage` of each router: rows of [mount, avail]
    Size,             \* size of a content
    HeadroomSize,     \* MIN_FREE_HEADROOM_BYTES, in the same unit
    MaxName,          \* the longest basename (255 in the code)
    HostKeyMode,      \* "Strict", "AcceptNew" or "AcceptAll"
    KnownHostsFile,   \* is the known_hosts file there?
    ScpErrors,        \* the failures of the scp library that happen
    NameRank,         \* the order of the file names
    MaxListed,        \* STAGING_DIR_MAX_ENTRIES
    MaxRestage        \* how often the operator stages a new file

NoFile   == [no |-> "file"]
Symlink  == [a |-> "symlink"]
Cut      == [part |-> "of a local file"]     \* a download in progress
Torn     == [part |-> "of a remote file"]    \* an upload that was cut short
NoOne    == [no |-> "call"]

VARIABLES
    requests,  \* the request of each call
    call,      \* call state: pc, digests read, inode written, reply
    permit,    \* TransferLocks: the call that holds each router's permit
    dirent,    \* staging directory: <<name, "file" | "partial">> -> inode
    data,      \* inode -> content
    remote     \* <<router, name>> -> content of /var/tmp/<name>

transferVars == <<requests, call, permit, dirent, data, remote>>

-----------------------------------------------------------------------------
(* Names, digests, storage and scp outcomes.                               *)

\* A basename is a sequence of characters: "a" for the allowed ones, "." for
\* a dot, "/" for a separator, "?" for any other byte.
validate_source_basename(name) ==
    /\ name # <<>>
    /\ Len(name) <= MaxName
    /\ Head(name) # "."
    /\ \A i \in 1 .. Len(name) - 1 : ~ (name[i] = "." /\ name[i + 1] = ".")
    /\ \A i \in 1 .. Len(name) : name[i] \in {"a", "b", "."}

\* Strict mode needs the known_hosts file; the other two do without.
KnownHostsOk == KnownHostsFile \/ HostKeyMode \in {"AcceptNew", "AcceptAll"}

scp_host_key_verification(mode) ==
    CASE mode = "Strict"    -> "KnownHosts"
      [] mode = "AcceptNew" -> "AcceptNew"
      [] mode = "AcceptAll" -> "AcceptAll"

\* The Avail column of the first row for /var, else of the last /.mount row.
Unparsed == -1
parse_storage_free_bytes(rows) ==
    LET var  == {i \in DOMAIN rows : rows[i].mount \in {"/var", "/.mount/var"}}
        root == {i \in DOMAIN rows : rows[i].mount = "/.mount"}
        Least(S) == CHOOSE i \in S : \A j \in S : i <= j
        Last(S)  == CHOOSE i \in S : \A j \in S : i >= j
    IN  IF var # {} THEN rows[Least(var)].avail
        ELSE IF root # {} THEN rows[Last(root)].avail
        ELSE Unparsed

\* `file checksum sha-256`: the digest of the file, or that it is missing.
parse_checksum_output(content) ==
    IF content = NoFile THEN [present |-> FALSE]
    ELSE [present |-> TRUE, sha |-> content]

\* What the scp library's errors become: Interrupted stays an error, every
\* other failure an outcome with exit code 255 and a message.
synthesize_outcome(err) ==
    IF err = "Interrupted" THEN [interrupted |-> TRUE]
    ELSE [interrupted |-> FALSE, exit_code |-> 255, stderr |-> err]

\* Paths and addresses leave the message, the diagnostic stays.
scrub_scp_stderr(stderr) ==
    CASE stderr \in {"path", "address"} -> "ScpFailed, scrubbed"
      [] OTHER -> "ScpFailed"

classify_scp_failure(outcome) ==
    CASE outcome.stderr = "@revoked" -> "HostKeyRevoked"
      [] outcome.stderr = "Host key verification failed" -> "HostKeyMismatch"
      [] /\ outcome.exit_code = 255
         /\ outcome.stderr \in {"Connection timed out", "No route to host"} -> "ConnectTimeout"
      [] OTHER -> scrub_scp_stderr(outcome.stderr)

ScpFailure(err) ==
    LET outcome == synthesize_outcome(err)
    IN  IF outcome.interrupted THEN "Cancelled" ELSE classify_scp_failure(outcome)

\* read_staging_dir, first pass: the regular files (an unfinished download is
\* one) by name, cut to the first MaxListed.
read_staging_dir(entries) ==
    LET files == {e \in DOMAIN entries : entries[e] \notin {NoFile, Symlink}}
        Before(d, e) == \/ NameRank[d[1]] < NameRank[e[1]]
                        \/ d[1] = e[1] /\ d[2] = "file" /\ e[2] = "partial"
    IN  {e \in files : Cardinality({d \in files : Before(d, e)}) < MaxListed}

-----------------------------------------------------------------------------
(* Calls.                                                                  *)

\* Where a call is, what it has read (local digest, remote digest), the inode
\* it writes or reads, and what it answered.
Idle == [pc |-> "start", local |-> NoFile, seen |-> NoFile, inode |-> NoOne,
         listed |-> {}, reply |-> "", verified |-> FALSE]

InitInode(n) == [staged |-> n]
Inodes == Calls \cup {InitInode(n) : n \in DOMAIN InitStaged}
                \cup {[restaged |-> i] : i \in 1 .. MaxRestage}
LocalNames == DOMAIN InitStaged

TransferInit ==
    /\ requests \in Scenarios
    /\ call = [c \in Calls |-> Idle]
    /\ permit = [r \in Routers |-> NoOne]
    /\ dirent = [e \in LocalNames \X {"file", "partial"} |->
                    IF e[2] = "file" /\ InitStaged[e[1]] \in Contents THEN InitInode(e[1])
                    ELSE IF e[2] = "file" THEN InitStaged[e[1]] ELSE NoFile]
    /\ data = [i \in Inodes |->
                  IF \E n \in LocalNames : i = InitInode(n) /\ InitStaged[n] \in Contents
                  THEN InitStaged[(CHOOSE n \in LocalNames : i = InitInode(n))]
                  ELSE Cut]
    /\ remote = InitRemote

Router(c) == requests[c].router
Var(c)    == <<Router(c), requests[c].name>>       \* /var/tmp/<name>
File(c)   == <<requests[c].local, "file">>         \* staging/<local>
Partial(c) == <<requests[c].local, "partial">>     \* staging/<local>.partial

Live(c) == call[c].pc # "done"
At(c, pc) == call[c].pc = pc
Goto(c, pc) == call' = [call EXCEPT ![c].pc = pc]

\* Mutant: a call that fails keeps its permit.
Unpermitted_OnSuccess(c) ==
    [r \in Routers |-> IF permit[r] = c /\ call[c].pc \in {"probe", "verify", "rename"}
                       THEN NoOne ELSE permit[r]]

\* The permit is dropped with the future that holds it.
Unpermitted(c) == [r \in Routers |-> IF permit[r] = c THEN NoOne ELSE permit[r]]

Reply(c, code, verified) ==
    /\ call' = [call EXCEPT ![c].pc = "done", ![c].reply = code, ![c].verified = verified]
    /\ permit' = Unpermitted(c)

\* Mutant: the permit does not exclude anybody.
acquire_Unlimited(c) ==
    permit' = [permit EXCEPT ![Router(c)] = c]

\* The permit of the router, waited for; kept until the call ends.
acquire(c) ==
    /\ permit[Router(c)] = NoOne
    /\ permit' = [permit EXCEPT ![Router(c)] = c]

\* A router whose entry is gone or uses a password is refused; dm.open may fail.
Unusable(c) == IF Router(c) \in PasswordRouters THEN {"UnsupportedAuth"} ELSE {"ConnectFailed"}

-----------------------------------------------------------------------------
(* transfer_file::handle.  The upgrade runs the same steps: Finish tells   *)
(* where a call goes on when its file is on the router.                    *)

TransferTools == {"transfer_file", "upgrade_junos"}

\* An upgrade never overwrites another file and always verifies.
build_transfer_args(args) == [args EXCEPT !.force = FALSE, !.verify = TRUE]

TransferArgs(c) ==
    IF requests[c].tool = "upgrade_junos" THEN build_transfer_args(requests[c]) ELSE requests[c]

TransferStart(c) ==
    /\ \/ requests[c].tool = "transfer_file" /\ At(c, "start")
       \/ requests[c].tool = "upgrade_junos" /\ At(c, "transfer")
    /\ IF validate_source_basename(requests[c].name) /\ KnownHostsOk
       THEN Goto(c, "queue") /\ UNCHANGED permit
       ELSE Reply(c, "Refused", FALSE)
    /\ UNCHANGED <<requests, dirent, data, remote>>

TransferQueue(c) ==
    /\ requests[c].tool \in TransferTools /\ At(c, "queue")
    /\ acquire(c)
    /\ Goto(c, "hash")
    /\ UNCHANGED <<requests, dirent, data, remote>>

\* symlink_metadata and sha256_file_cancellable of the staged file.
sha256_file_cancellable(c) ==
    IF dirent[File(c)] \in {NoFile, Symlink} THEN NoFile ELSE data[dirent[File(c)]]

TransferHash(c) ==
    /\ requests[c].tool \in TransferTools /\ At(c, "hash")
    /\ IF dirent[File(c)] \in {NoFile, Symlink}
       THEN Reply(c, "BadSourcePath", FALSE)
       ELSE /\ call' = [call EXCEPT ![c].pc = "open", ![c].local = sha256_file_cancellable(c)]
            /\ UNCHANGED permit
    /\ UNCHANGED <<requests, dirent, data, remote>>

\* Inventory, session and the free-disk check.
TransferOpen(c) ==
    /\ requests[c].tool \in TransferTools /\ At(c, "open")
    /\ LET free == parse_storage_free_bytes(Storage[Router(c)])
           fits == free # Unparsed /\ free >= Size[call[c].local] + HeadroomSize
       IN  \/ Router(c) \notin PasswordRouters /\ fits /\ Goto(c, "probe") /\ UNCHANGED permit
           \/ Router(c) \notin PasswordRouters /\ ~ fits /\ Reply(c, "InsufficientDisk", FALSE)
           \/ \E e \in Unusable(c) : Reply(c, e, FALSE)
    /\ UNCHANGED <<requests, dirent, data, remote>>

\* The copy is there: the call ends, or the upgrade goes on to install.
Finish(c, code, verified) ==
    IF requests[c].tool = "upgrade_junos"
    THEN /\ call' = [call EXCEPT ![c].pc = "install", ![c].verified = verified]
         /\ permit' = Unpermitted(c)
    ELSE Reply(c, code, verified)

TransferProbe(c) ==
    /\ requests[c].tool \in TransferTools /\ At(c, "probe")
    /\ LET pre == parse_checksum_output(remote[Var(c)])
       IN  CASE pre.present /\ pre.sha = call[c].local -> Finish(c, "skipped", TRUE)
             [] pre.present /\ pre.sha # call[c].local /\ ~ TransferArgs(c).force ->
                    Reply(c, "DestExistsDiffers", FALSE)
             [] OTHER -> Goto(c, "scp") /\ UNCHANGED permit
    /\ UNCHANGED <<requests, dirent, data, remote>>

\* scp opens the staged file and creates the remote one.
ScpStart(c) ==
    /\ requests[c].tool \in TransferTools /\ At(c, "scp")
    /\ IF dirent[File(c)] \in {NoFile, Symlink}
       THEN Reply(c, ScpFailure("path"), FALSE) /\ UNCHANGED remote
       ELSE /\ call' = [call EXCEPT ![c].pc = "copy", ![c].inode = dirent[File(c)]]
            /\ remote' = [remote EXCEPT ![Var(c)] = Torn]
            /\ UNCHANGED permit
    /\ UNCHANGED <<requests, dirent, data>>

\* The copy ends; a failure leaves what was written.
ScpRun(c) ==
    /\ requests[c].tool \in TransferTools /\ At(c, "copy")
    /\ \/ /\ remote' = [remote EXCEPT ![Var(c)] = data[call[c].inode]]
          /\ Goto(c, "verify") /\ UNCHANGED permit
       \/ \E err \in ScpErrors : Reply(c, ScpFailure(err), FALSE) /\ UNCHANGED remote
    /\ UNCHANGED <<requests, dirent, data>>

TransferVerify(c) ==
    /\ requests[c].tool \in TransferTools /\ At(c, "verify")
    /\ LET post    == parse_checksum_output(remote[Var(c)])
           matches == post.present /\ post.sha = call[c].local
       IN  CASE matches -> Finish(c, "transferred", TRUE)
             [] ~ matches /\ ~ TransferArgs(c).verify -> Finish(c, "transferred", FALSE)
             [] ~ post.present /\ TransferArgs(c).verify -> Reply(c, "VerifyMismatch", FALSE)
             [] OTHER -> Goto(c, "delete") /\ UNCHANGED permit
    /\ UNCHANGED <<requests, dirent, data, remote>>

\* `file delete` of a copy that does not match; its result is ignored.
TransferDelete(c) ==
    /\ requests[c].tool \in TransferTools /\ At(c, "delete")
    /\ remote' \in {remote, [remote EXCEPT ![Var(c)] = NoFile]}
    /\ Reply(c, "VerifyMismatch", FALSE)
    /\ UNCHANGED <<requests, dirent, data>>

-----------------------------------------------------------------------------
(* fetch_file::handle.                                                     *)

IsFetch(c) == requests[c].tool = "fetch_file"

FetchStart(c) ==
    /\ IsFetch(c) /\ At(c, "start")
    /\ IF /\ validate_source_basename(requests[c].name)
          /\ validate_source_basename(requests[c].local)
          /\ KnownHostsOk
       THEN Goto(c, "queue") /\ UNCHANGED permit
       ELSE Reply(c, "Refused", FALSE)
    /\ UNCHANGED <<requests, dirent, data, remote>>

FetchQueue(c) ==
    /\ IsFetch(c) /\ At(c, "queue")
    /\ acquire(c)
    /\ Goto(c, "probe")
    /\ UNCHANGED <<requests, dirent, data, remote>>

\* Inventory, session, and the digest of the remote file.
FetchProbe(c) ==
    /\ IsFetch(c) /\ At(c, "probe")
    /\ LET probe == parse_checksum_output(remote[Var(c)])
       IN  \/ \E e \in Unusable(c) : Reply(c, e, FALSE)
           \/ /\ Router(c) \notin PasswordRouters /\ probe.present
              /\ call' = [call EXCEPT ![c].pc = "check", ![c].seen = probe.sha]
              /\ UNCHANGED permit
           \/ /\ Router(c) \notin PasswordRouters /\ ~ probe.present
              /\ Reply(c, "RemoteFileMissing", FALSE)
    /\ UNCHANGED <<requests, dirent, data, remote>>

\* An existing local file: a symlink is refused, the same content is skipped,
\* another needs force.  What is left of an earlier fetch is removed.
FetchCheck(c) ==
    /\ IsFetch(c) /\ At(c, "check")
    /\ LET there == dirent[File(c)] \notin {NoFile, Symlink}
           same  == there /\ sha256_file_cancellable(c) = call[c].seen
       IN  CASE dirent[File(c)] = Symlink -> Reply(c, "BadSourcePath", FALSE) /\ UNCHANGED dirent
             [] same -> Reply(c, "skipped", TRUE) /\ UNCHANGED dirent
             [] there /\ ~ same /\ ~ requests[c].force ->
                    Reply(c, "LocalDestExistsDiffers", FALSE) /\ UNCHANGED dirent
             [] OTHER -> /\ dirent' = [dirent EXCEPT ![Partial(c)] = NoFile]
                         /\ Goto(c, "scp") /\ UNCHANGED permit
    /\ UNCHANGED <<requests, data, remote>>

\* scp opens <local>.partial: a new inode, or the one that is there, cut.
FetchScpStart(c) ==
    /\ IsFetch(c) /\ At(c, "scp")
    /\ LET i == IF dirent[Partial(c)] = NoFile THEN c ELSE dirent[Partial(c)]
       IN  /\ dirent' = [dirent EXCEPT ![Partial(c)] = i]
           /\ data' = [data EXCEPT ![i] = Cut]
           /\ call' = [call EXCEPT ![c].pc = "copy", ![c].inode = i]
    /\ UNCHANGED <<requests, permit, remote>>

\* The download ends; after a failure, or a cancel, the partial file is removed.
FetchScpRun(c) ==
    /\ IsFetch(c) /\ At(c, "copy")
    /\ \/ /\ data' = [data EXCEPT ![call[c].inode] = remote[Var(c)]]
          /\ Goto(c, "hash") /\ UNCHANGED <<permit, dirent>>
       \/ /\ \E err \in ScpErrors : Reply(c, ScpFailure(err), FALSE)
          /\ dirent' = [dirent EXCEPT ![Partial(c)] = NoFile]
          /\ UNCHANGED data
    /\ UNCHANGED <<requests, remote>>

\* The digest of the partial file against the one the router gave.
FetchHash(c) ==
    /\ IsFetch(c) /\ At(c, "hash")
    /\ LET gone == dirent[Partial(c)] = NoFile
           post == IF gone THEN NoFile ELSE data[dirent[Partial(c)]]
           verified == post = call[c].seen
       IN  CASE gone -> Reply(c, "Io", FALSE) /\ UNCHANGED dirent
             [] ~ gone /\ requests[c].verify /\ ~ verified ->
                    /\ Reply(c, "FetchVerifyMismatch", FALSE)
                    /\ dirent' = [dirent EXCEPT ![Partial(c)] = NoFile]
             [] OTHER -> /\ call' = [call EXCEPT ![c].pc = "rename", ![c].local = post,
                                                 ![c].verified = verified]
                         /\ UNCHANGED <<permit, dirent>>
    /\ UNCHANGED <<requests, data, remote>>

\* rename(<local>.partial, <local>)
FetchRename(c) ==
    /\ IsFetch(c) /\ At(c, "rename")
    /\ IF dirent[Partial(c)] = NoFile
       THEN Reply(c, "Io", FALSE) /\ UNCHANGED dirent
       ELSE /\ dirent' = [dirent EXCEPT ![File(c)] = dirent[Partial(c)],
                                        ![Partial(c)] = NoFile]
            /\ Reply(c, "fetched", call[c].verified)
    /\ UNCHANGED <<requests, data, remote>>

-----------------------------------------------------------------------------
(* list_staged_files: two passes over the directory, without the permit.   *)

ListStart(c) ==
    /\ requests[c].tool = "list_staged_files" /\ At(c, "start")
    /\ call' = [call EXCEPT ![c].pc = "listing", ![c].listed = read_staging_dir(dirent)]
    /\ UNCHANGED <<requests, permit, dirent, data, remote>>

\* Second pass: a file that is gone by now fails the whole call.
ListHash(c) ==
    /\ requests[c].tool = "list_staged_files" /\ At(c, "listing")
    /\ IF \E e \in call[c].listed : dirent[e] = NoFile
       THEN Reply(c, "Io", FALSE) ELSE Reply(c, "listed", FALSE)
    /\ UNCHANGED <<requests, dirent, data, remote>>

-----------------------------------------------------------------------------
(* The ends nobody asked for, and the operator.                            *)

TransferPCs == {"transfer", "queue", "hash", "open", "probe", "scp", "copy", "verify", "delete",
                "check", "rename"}

\* The outer timeout drops the future; a cancellation is seen at an await.
\* Cancelled while it downloads, a fetch removes its partial file.
Abort(c) ==
    /\ requests[c].tool # "upgrade_junos" /\ call[c].pc \in TransferPCs \ {"rename"}
    /\ \/ Reply(c, "Timeout", FALSE) /\ UNCHANGED dirent
       \/ /\ ~ At(c, "delete")
          /\ Reply(c, "Cancelled", FALSE)
          /\ dirent' = IF IsFetch(c) /\ At(c, "copy")
                       THEN [dirent EXCEPT ![Partial(c)] = NoFile] ELSE dirent
    /\ UNCHANGED <<requests, data, remote>>

\* The operator stages another file under the name (external to the server).
Restage(n, content) ==
    \E i \in 1 .. MaxRestage :
        /\ data[[restaged |-> i]] = Cut
        /\ \A j \in 1 .. i - 1 : data[[restaged |-> j]] # Cut
        /\ dirent' = [dirent EXCEPT ![<<n, "file">>] = [restaged |-> i]]
        /\ data' = [data EXCEPT ![[restaged |-> i]] = content]
        /\ UNCHANGED <<requests, call, permit, remote>>

TransferStep(c) ==
    \/ TransferStart(c) \/ TransferQueue(c) \/ TransferHash(c) \/ TransferOpen(c)
    \/ TransferProbe(c) \/ ScpStart(c) \/ ScpRun(c) \/ TransferVerify(c) \/ TransferDelete(c)

FetchStep(c) ==
    \/ FetchStart(c) \/ FetchQueue(c) \/ FetchProbe(c) \/ FetchCheck(c)
    \/ FetchScpStart(c) \/ FetchScpRun(c) \/ FetchHash(c) \/ FetchRename(c)

ListStep(c) == ListStart(c) \/ ListHash(c)
=============================================================================
