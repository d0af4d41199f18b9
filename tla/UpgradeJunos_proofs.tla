------------------------ MODULE UpgradeJunos_proofs ------------------------
(***************************************************************************)
(* Theorems about UpgradeJunos and FileTransfer, for any number of calls,  *)
(* routers and files: what a router is told to install, when, and what an  *)
(* "upgraded" and a "fetched" answer mean.                                 *)
(*                                                                         *)
(* A step of a call is summed up once, by Move; every part of the          *)
(* invariant follows from the summary and not from the actions.            *)
(***************************************************************************)
EXTENDS UpgradeJunos, TLAPS

Holds == Contents \cup {NoFile, Cut, Torn}
Entries == LocalNames \X {"file", "partial"}

\* Where a call holds the permit of its router, has not hashed its file, writes the
\* copy, holds the lease, and is between the second preflight and the install.
HoldPCs == {"hash", "open", "probe", "scp", "copy", "verify", "delete", "check", "rename"}
Unhashed == {"start", "facts", "lease", "locked", "transfer", "queue", "hash"}
Copying == {"scp", "copy", "verify", "delete"}
Leased == {"locked", "transfer", "queue", "hash", "open", "probe", "scp", "copy", "verify",
           "delete", "install", "wait", "post"}
Deciding == Leased \ {"locked", "wait", "post"}
PCs == HoldPCs \cup Unhashed \cup Leased \cup {"listing", "done"}

ScpCodes ==
  {"Cancelled", "HostKeyRevoked", "HostKeyMismatch", "ConnectTimeout", "ScpFailed, scrubbed",
   "ScpFailed"}
OtherCodes ==
  ScpCodes \cup
  {"", "Refused", "BadSourcePath", "InsufficientDisk", "UnsupportedAuth", "ConnectFailed", "skipped",
   "DestExistsDiffers", "transferred", "VerifyMismatch", "RemoteFileMissing",
   "LocalDestExistsDiffers", "Io", "FetchVerifyMismatch", "listed", "Timeout",
   "ClusterUnsupported", "UnparseableVersion", "AlreadyAtTarget", "CommitConfirmedActive",
   "UnparseableStorage", "ConfirmationRequired", "DeviceProbeFailed", "DeviceBusy",
   "RebootTimeout", "PostVerifyMismatch"}
Codes == OtherCodes \cup {"upgraded", "fetched"}

CallStates ==
  {k \in [pc : PCs, local : Holds, seen : Holds, inode : Inodes \cup {NoOne},
          listed : SUBSET Entries, reply : Codes, verified : BOOLEAN] :
     k.pc = "copy" => k.inode \in Inodes}
UpStates ==
  [image : Holds, observed : Versions \cup {Nothing}, polls : Nat, sent : Holds]

TypeInv ==
  /\ requests \in Scenarios
  /\ call \in [Calls -> CallStates]
  /\ permit \in [Routers -> Calls \cup {NoOne}]
  /\ dirent \in [Entries -> Inodes \cup {NoFile, Symlink}]
  /\ \A n \in LocalNames : dirent[<<n, "partial">>] # Symlink
  /\ data \in [Inodes -> Holds \ {NoFile}]
  /\ remote \in [DOMAIN InitRemote -> Holds]
  /\ version \in [Routers -> Versions \cup {Nothing}]
  /\ installing \in [Routers -> Holds]
  /\ window \in [Routers -> {"none", "open", "unreadable"}]
  /\ lease \in [Routers -> Calls \cup {NoOne}]
  /\ up \in [Calls -> UpStates]
  /\ abandoned \subseteq Routers

\* A call whose names were accepted has its files in the two directories.
NamesInv ==
  \A c \in Calls : requests[c].tool \in FileTools /\ call[c].pc \notin {"start", "done"} =>
      Var(c) \in DOMAIN InitRemote /\ requests[c].local \in LocalNames

\* The steps between acquire and the end of the transfer hold the permit.
PermitInv ==
  \A c \in Calls : call[c].pc \in HoldPCs => permit[Router(c)] = c

\* A file that is being fetched stays where it is.
FetchedInv ==
  \A c \in Calls : IsFetch(c) /\ call[c].pc \in {"check", "scp", "copy"} => remote[Var(c)] # NoFile

\* An upgrade keeps its lease to the end.
LeaseInv ==
  \A c \in Upgrades : call[c].pc \in Leased => lease[Router(c)] = c

\* A transfer hashes the staged file once.
HashInv ==
  \A c \in Calls : requests[c].tool \in TransferTools /\ call[c].pc # "done" =>
      (call[c].local = NoFile <=> call[c].pc \in Unhashed)

\* Nobody is replacing the copy.
Untouched(c) ==
  /\ remote[Var(c)] = call[c].local
  /\ \A d \in Calls \ {c} : requests[d].tool \in TransferTools /\ Var(d) = Var(c) =>
        call[d].pc \notin Copying

\* What an upgrade may install is what it verified.
ImageInv ==
  \A c \in Upgrades :
      /\ call[c].pc = "install" => call[c].verified /\ (OtherContent(c) \/ Untouched(c))
      /\ call[c].pc \in Unhashed \cup Deciding => up[c].sent = NoFile
      /\ call[c].pc \in {"wait", "post"} => up[c].sent \in {NoFile, call[c].local} \/ OtherContent(c)

\* An install under way belongs to the upgrade that waits for it, or was abandoned.
VersionInv ==
  /\ \A r \in Routers : installing[r] # NoFile /\ r \notin abandoned =>
        \E u \in Upgrades : /\ Router(u) = r /\ call[u].pc = "wait"
                            /\ version[r] # requests[u].target
                            /\ up[u].sent # NoFile
  /\ \A c \in Upgrades : Router(c) \notin abandoned =>
        /\ call[c].pc \in Deciding => version[Router(c)] # requests[c].target
        /\ call[c].pc = "wait" /\ up[c].sent = NoFile => version[Router(c)] # requests[c].target
        /\ call[c].pc = "post" => version[Router(c)] = requests[c].target /\ up[c].sent # NoFile

Inv == /\ TypeInv /\ NamesInv /\ PermitInv /\ FetchedInv /\ LeaseInv /\ HashInv
       /\ ImageInv /\ VersionInv

\* Fetches under one local name are of one router.
OneRouterPerName ==
  \A s \in Scenarios : \A c, d \in Calls :
      s[c].tool = "fetch_file" /\ s[d].tool = "fetch_file" /\ s[c].local = s[d].local =>
          s[c].router = s[d].router

\* Then each download has an inode of its own until it has its name.
PartialOk(c) ==
  /\ call[c].pc = "scp" => dirent[Partial(c)] = NoFile
  /\ call[c].pc \in {"copy", "hash", "rename"} => dirent[Partial(c)] = c
  /\ call[c].pc = "copy" => call[c].inode = c
  /\ call[c].pc = "rename" => /\ data[c] = call[c].local
                              /\ call[c].verified => call[c].local = call[c].seen

PartialInv == \A c \in Calls : IsFetch(c) => PartialOk(c)
-----------------------------------------------------------------------------

(* What the constants and a type-correct state give for one call.          *)

\* The markers are no file, and no two of them are equal.
LEMMA Markers ==
  /\ Cut # NoFile /\ Torn # NoFile
  /\ \A n : InitInode(n) \notin {NoFile, Symlink}
  /\ \A i : [restaged |-> i] \notin {NoFile, Symlink}
BY DEF Cut, Torn, NoFile, Symlink, InitInode

\* A call's request is well formed.
LEMMA RequestFacts ==
  ASSUME TypeInv, NEW c \in Calls
  PROVE  /\ requests[c] \in Requests
         /\ Router(c) \in Routers
         /\ requests[c].tool \in FileTools \cup {"list_staged_files"}
         /\ requests[c].force \in BOOLEAN
         /\ requests[c].verify \in BOOLEAN
         /\ requests[c].tool \in TransferTools => requests[c].local = requests[c].name
<1>1. requests \in [Calls -> Requests]
  BY UpgradeAssumption DEF TypeInv
<1>2. requests[c] \in Requests
  BY <1>1
<1> QED
  BY <1>2 DEF Requests, Router

\* What an accepted request names is in the two directories.
LEMMA AcceptedNames ==
  ASSUME TypeInv, NEW c \in Calls, requests[c].tool \in FileTools
  PROVE  /\ validate_source_basename(requests[c].name) => Var(c) \in DOMAIN InitRemote
         /\ validate_source_basename(requests[c].local) => requests[c].local \in LocalNames
BY UpgradeAssumption DEF TypeInv, Var, Router, LocalNames

\* The digest of a staged file that is there.
LEMMA HashedContent ==
  ASSUME TypeInv, NEW c \in Calls, requests[c].local \in LocalNames,
         dirent[File(c)] \notin {NoFile, Symlink}
  PROVE  /\ dirent[File(c)] \in Inodes
         /\ sha256_file_cancellable(c) \in Holds \ {NoFile}
<1>1. File(c) \in Entries
  BY DEF File, Entries
<1>2. dirent[File(c)] \in Inodes
  BY <1>1 DEF TypeInv
<1> QED
  BY <1>2 DEF TypeInv, sha256_file_cancellable

\* No failure of scp reads like a success.
LEMMA ScpFailureText ==
  ASSUME NEW err
  PROVE  ScpFailure(err) \in ScpCodes
<1>1. CASE err = "Interrupted"
  BY <1>1 DEF ScpFailure, synthesize_outcome, ScpCodes
<1>2. CASE err # "Interrupted"
  <2>1. PICK o : o = [interrupted |-> FALSE, exit_code |-> 255, stderr |-> err]
    OBVIOUS
  <2>2. o = synthesize_outcome(err) /\ ~ o.interrupted
    BY <1>2, <2>1 DEF synthesize_outcome
  <2>3. ScpFailure(err) = classify_scp_failure(o)
    BY <2>2 DEF ScpFailure
  <2>4. classify_scp_failure(o) \in ScpCodes
    BY DEF classify_scp_failure, scrub_scp_stderr, ScpCodes
  <2> QED
    BY <2>3, <2>4
<1> QED
  BY <1>1, <1>2

-----------------------------------------------------------------------------
(* What a step of call c does, action by action.                           *)

\* Only call c moves, and to a state of the type.
CallMove(c) ==
  /\ requests' = requests
  /\ call' \in [Calls -> CallStates]
  /\ \A d \in Calls \ {c} : call'[d] = call[d]

\* The permit is taken when it is free, and not kept past the transfer.
PermitMove(c) ==
  \/ permit' = permit /\ (call'[c].pc \in HoldPCs => call[c].pc \in HoldPCs)
  \/ permit' = Unpermitted(c) /\ call'[c].pc \notin HoldPCs
  \/ permit[Router(c)] = NoOne /\ permit' = [permit EXCEPT ![Router(c)] = c]

\* A name is used once it was accepted.
NameMove(c) ==
  requests[c].tool \in FileTools /\ call'[c].pc # "done" =>
      Var(c) \in DOMAIN InitRemote /\ requests[c].local \in LocalNames

\* The local digest is read once.
LocalMove(c) ==
  requests[c].tool \in TransferTools =>
      /\ call[c].pc # "done"
      /\ \/ call[c].pc = "hash" /\ call'[c].pc = "open" /\ call'[c].local # NoFile
         \/ /\ call'[c].local = call[c].local
            /\ call'[c].pc # "done" => (call'[c].pc \in Unhashed <=> call[c].pc \in Unhashed)

\* Only a transfer that found something else at its path writes there.
RemoteMove(c) ==
  /\ \/ remote' = remote
     \/ /\ requests[c].tool \in TransferTools /\ call[c].pc \in {"scp", "copy", "delete"}
        /\ \E f \in Holds : remote' = [remote EXCEPT ![Var(c)] = f]
  /\ requests[c].tool \in TransferTools /\ call'[c].pc \in Copying =>
        \/ call[c].pc \in Copying
        \/ call[c].pc = "probe" /\ remote[Var(c)] # call[c].local

\* The copy of an upgrade is verified under the permit.
InstallMove(c) ==
  call'[c].pc = "install" =>
      /\ IsUpgrade(c) /\ call'[c].verified /\ call[c].pc \in {"probe", "verify"}
      /\ remote' = remote /\ remote[Var(c)] = call[c].local

TransferMove(c) ==
  /\ CallMove(c) /\ PermitMove(c) /\ NameMove(c) /\ LocalMove(c) /\ RemoteMove(c)
  /\ InstallMove(c)
  /\ dirent' = dirent /\ data' = data
  /\ requests[c].tool \in TransferTools
  /\ call[c].pc \in {"start"} \cup (Deciding \ {"install"})
  /\ call[c].pc = "start" => ~ IsUpgrade(c)
  /\ call'[c].pc \in Deciding \cup {"done"}
  /\ call'[c].reply \in OtherCodes \cup {call[c].reply}

Ready == TypeInv /\ NamesInv /\ HashInv /\ FetchedInv

\* A call that goes on.
LEMMA GotoFacts ==
  ASSUME call \in [Calls -> CallStates], NEW c \in Calls, NEW p \in PCs \ {"copy"}, Goto(c, p)
  PROVE  /\ call' \in [Calls -> CallStates]
         /\ \A d \in Calls \ {c} : call'[d] = call[d]
         /\ call'[c] = [call[c] EXCEPT !.pc = p]
         /\ call'[c].pc = p
         /\ call'[c].local = call[c].local
         /\ call'[c].reply = call[c].reply
<1>1. call[c] \in CallStates
  OBVIOUS
<1>2. [call[c] EXCEPT !.pc = p] \in CallStates
  BY <1>1 DEF CallStates
<1>3. call' = [call EXCEPT ![c] = [call[c] EXCEPT !.pc = p]]
  BY DEF Goto
<1> QED
  BY <1>1, <1>2, <1>3 DEF CallStates

\* A call that answers.
LEMMA ReplyFacts ==
  ASSUME TypeInv, NEW c \in Calls, NEW code \in Codes, NEW v \in BOOLEAN,
         Reply(c, code, v)
  PROVE  /\ call' \in [Calls -> CallStates]
         /\ \A d \in Calls \ {c} : call'[d] = call[d]
         /\ call'[c].pc = "done"
         /\ call'[c].local = call[c].local
         /\ call'[c].reply = code
         /\ permit' = Unpermitted(c)
<1>1. call \in [Calls -> CallStates] /\ call[c] \in CallStates
  BY DEF TypeInv
<1>2. [call[c] EXCEPT !.pc = "done", !.reply = code, !.verified = v] \in CallStates
  BY <1>1 DEF CallStates, PCs
<1>3. /\ call' = [call EXCEPT ![c] = [call[c] EXCEPT !.pc = "done", !.reply = code, !.verified = v]]
      /\ permit' = Unpermitted(c)
  BY DEF Reply
<1> QED
  BY <1>1, <1>2, <1>3 DEF CallStates

\* Call c answers with a code of S.
Answers(c, S) == \E code \in S, v \in BOOLEAN : Reply(c, code, v)

\* What an answer does, whatever it says.
LEMMA AnswerFacts ==
  ASSUME TypeInv, NEW c \in Calls, NEW S \in SUBSET Codes, Answers(c, S)
  PROVE  /\ call' \in [Calls -> CallStates]
         /\ \A d \in Calls \ {c} : call'[d] = call[d]
         /\ call'[c].pc = "done"
         /\ call'[c].local = call[c].local
         /\ call'[c].reply \in S
         /\ permit' = Unpermitted(c)
<1>1. PICK code \in S, v \in BOOLEAN : Reply(c, code, v)
  BY DEF Answers
<1>2. code \in Codes
  OBVIOUS
<1>3. call' \in [Calls -> CallStates] /\ \A d \in Calls \ {c} : call'[d] = call[d]
  BY <1>1, <1>2, ReplyFacts
<1>4. call'[c].pc = "done" /\ call'[c].local = call[c].local
  BY <1>1, <1>2, ReplyFacts
<1>5. call'[c].reply = code
  BY <1>1, <1>2, ReplyFacts
<1>6. permit' = Unpermitted(c)
  BY <1>1, <1>2, ReplyFacts
<1> QED
  BY <1>3, <1>4, <1>5, <1>6

\* A literal answer is one of the codes.
LEMMA AnswersWith ==
  ASSUME NEW c, NEW S, NEW code \in S, NEW v \in BOOLEAN, Reply(c, code, v)
  PROVE  Answers(c, S)
BY Zenon DEF Answers

\* Every code of scp is an answer a call may give.
LEMMA CodesAreCodes == OtherCodes \in SUBSET Codes /\ ScpCodes \subseteq OtherCodes
BY DEF Codes, OtherCodes

\* The call runs the transfer.
Transferring(c) ==
  /\ requests[c].tool \in TransferTools
  /\ call[c].pc \in {"start"} \cup (Deciding \ {"install"})
  /\ call[c].pc = "start" => ~ IsUpgrade(c)

\* What is at the path of the call is replaced, or nothing is.
Writes(c) ==
  \/ remote' = remote
  \/ /\ call[c].pc \in {"scp", "copy", "delete"}
     /\ \E f \in Holds : remote' = [remote EXCEPT ![Var(c)] = f]

\* A step of the transfer that ends the call.
LEMMA TransferEnds ==
  ASSUME TypeInv, NEW c \in Calls, Transferring(c), Answers(c, OtherCodes),
         UNCHANGED <<requests, dirent, data>>, Writes(c)
  PROVE  TransferMove(c)
<1>1. /\ CallMove(c) /\ call'[c].pc = "done" /\ call'[c].local = call[c].local
      /\ call'[c].reply \in OtherCodes /\ permit' = Unpermitted(c)
  BY CodesAreCodes, AnswerFacts DEF CallMove
<1> QED
  BY <1>1
     DEF TransferMove, PermitMove, NameMove, HoldPCs, LocalMove, RemoteMove, InstallMove,
         Unhashed, Copying, Deciding, Leased, Transferring, Writes

\* A step of the transfer that goes on.
LEMMA TransferGoes ==
  ASSUME TypeInv, NEW c \in Calls, Transferring(c), NEW p \in Deciding \ {"install"},
         CallMove(c), call'[c].pc = p, call'[c].reply = call[c].reply,
         UNCHANGED <<dirent, data>>, Writes(c),
         NameMove(c), PermitMove(c), LocalMove(c),
         p \in Copying => \/ call[c].pc \in Copying
                          \/ call[c].pc = "probe" /\ remote[Var(c)] # call[c].local
  PROVE  TransferMove(c)
BY DEF TransferMove, RemoteMove, InstallMove, Copying, Transferring, Writes

\* transfer_file: the checks before the permit.
LEMMA TransferStartMoves ==
  ASSUME Ready, NEW c \in Calls, TransferStart(c)
  PROVE  TransferMove(c)
<1> USE DEF Ready
<1>1. Transferring(c) /\ call[c].pc \in {"start", "transfer"}
  BY DEF TransferStart, At, TransferTools, IsUpgrade, Transferring, Deciding, Leased
<1>2. UNCHANGED <<requests, dirent, data, remote>> /\ Writes(c)
  BY DEF TransferStart, Writes
<1>3. ASSUME Goto(c, "queue"), permit' = permit, validate_source_basename(requests[c].name)
      PROVE  TransferMove(c)
  <2>1. "queue" \in PCs \ {"copy"} /\ "queue" \in Deciding \ {"install"} /\ call \in [Calls -> CallStates]
    BY DEF PCs, Unhashed, TypeInv, Deciding, Leased
  <2>2. CallMove(c) /\ call'[c].pc = "queue" /\ call'[c].local = call[c].local
         /\ call'[c].reply = call[c].reply
    BY <1>2, <1>3, <2>1, GotoFacts DEF CallMove
  <2>3. PermitMove(c) /\ LocalMove(c)
    BY <1>1, <1>3, <2>2 DEF PermitMove, HoldPCs, LocalMove, Unhashed
  <2>4. NameMove(c)
    BY <1>1, <1>3, AcceptedNames, RequestFacts DEF NameMove, Transferring, FileTools
  <2> QED
    BY <1>1, <1>2, <2>1, <2>2, <2>3, <2>4, TransferGoes DEF Copying
<1>4. ASSUME Reply(c, "Refused", FALSE) PROVE TransferMove(c)
  <2>1. "Refused" \in OtherCodes /\ FALSE \in BOOLEAN
    BY DEF OtherCodes
  <2>2. Answers(c, OtherCodes)
    BY <1>4, <2>1, AnswersWith, Zenon
  <2> QED
    BY <1>1, <1>2, <2>2, TransferEnds
<1> QED
  BY <1>3, <1>4, Zenon DEF TransferStart

\* A call in its transfer has had its names accepted.
LEMMA NamesKept ==
  ASSUME Ready, NEW c \in Calls, Transferring(c), call[c].pc # "start"
  PROVE  /\ NameMove(c)
         /\ Var(c) \in DOMAIN InitRemote
         /\ requests[c].local \in LocalNames
BY DEF Ready, NamesInv, NameMove, Transferring, FileTools, Deciding, Leased

\* The permit of the router.
LEMMA TransferQueueMoves ==
  ASSUME Ready, NEW c \in Calls, TransferQueue(c)
  PROVE  TransferMove(c)
<1>1. Transferring(c) /\ call[c].pc = "queue" /\ TypeInv
  BY DEF TransferQueue, At, Transferring, Deciding, Leased, Ready
<1>2. UNCHANGED <<requests, dirent, data, remote>> /\ Writes(c)
  BY DEF TransferQueue, Writes
<1>3. "hash" \in PCs \ {"copy"} /\ "hash" \in Deciding \ {"install"} /\ call \in [Calls -> CallStates]
  BY <1>1 DEF PCs, Unhashed, TypeInv, Deciding, Leased
<1>4. CallMove(c) /\ call'[c].pc = "hash" /\ call'[c].local = call[c].local
         /\ call'[c].reply = call[c].reply
  BY <1>2, <1>3, GotoFacts DEF CallMove, TransferQueue
<1>5. PermitMove(c) /\ LocalMove(c) /\ NameMove(c)
  BY <1>1, <1>4, NamesKept DEF PermitMove, HoldPCs, LocalMove, Unhashed, TransferQueue, acquire
<1> QED
  BY <1>1, <1>2, <1>3, <1>4, <1>5, TransferGoes DEF Copying

\* The digest of the staged file.
LEMMA TransferHashMoves ==
  ASSUME Ready, NEW c \in Calls, TransferHash(c)
  PROVE  TransferMove(c)
<1>1. Transferring(c) /\ call[c].pc = "hash" /\ TypeInv /\ call[c] \in CallStates
  BY DEF TransferHash, At, Transferring, Deciding, Leased, Ready, TypeInv
<1>2. UNCHANGED <<requests, dirent, data, remote>> /\ Writes(c)
  BY DEF TransferHash, Writes
<1>3. NameMove(c) /\ requests[c].local \in LocalNames
  BY <1>1, NamesKept
<1>4. ASSUME dirent[File(c)] \notin {NoFile, Symlink}, permit' = permit,
             call' = [call EXCEPT ![c].pc = "open", ![c].local = sha256_file_cancellable(c)]
      PROVE  TransferMove(c)
  <2>1. PICK h \in Holds \ {NoFile} : h = sha256_file_cancellable(c)
    BY <1>1, <1>3, <1>4, HashedContent
  <2>2. call' = [call EXCEPT ![c] = [call[c] EXCEPT !.pc = "open", !.local = h]]
    BY <1>1, <1>4, <2>1 DEF TypeInv
  <2>3. [call[c] EXCEPT !.pc = "open", !.local = h] \in CallStates
    BY <1>1, <2>1 DEF CallStates, PCs, HoldPCs
  <2>4. CallMove(c)
    BY <1>1, <1>2, <2>2, <2>3 DEF TypeInv, CallMove
  <2>5. call'[c].pc = "open" /\ call'[c].local = h /\ call'[c].reply = call[c].reply
    BY <1>1, <2>2 DEF TypeInv, CallStates
  <2>6. PermitMove(c) /\ LocalMove(c)
    BY <1>1, <1>4, <2>1, <2>5 DEF PermitMove, HoldPCs, LocalMove
  <2>7. "open" \in Deciding \ {"install"}
    BY DEF Deciding, Leased
  <2> QED
    BY <1>1, <1>2, <1>3, <2>4, <2>5, <2>6, <2>7, TransferGoes DEF Copying
<1>5. ASSUME Reply(c, "BadSourcePath", FALSE) PROVE TransferMove(c)
  <2>1. "BadSourcePath" \in OtherCodes /\ FALSE \in BOOLEAN
    BY DEF OtherCodes
  <2>2. Answers(c, OtherCodes)
    BY <1>5, <2>1, AnswersWith, Zenon
  <2> QED
    BY <1>1, <1>2, <2>2, TransferEnds
<1> QED
  BY <1>4, <1>5, Zenon DEF TransferHash

\* Session and free disk.
LEMMA TransferOpenMoves ==
  ASSUME Ready, NEW c \in Calls, TransferOpen(c)
  PROVE  TransferMove(c)
<1>1. Transferring(c) /\ call[c].pc = "open" /\ TypeInv
  BY DEF TransferOpen, At, Transferring, Deciding, Leased, Ready
<1>2. UNCHANGED <<requests, dirent, data, remote>> /\ Writes(c)
  BY DEF TransferOpen, Writes
<1>3. ASSUME Goto(c, "probe"), permit' = permit PROVE TransferMove(c)
  <2>1. "probe" \in PCs \ {"copy"} /\ "probe" \in Deciding \ {"install"} /\ call \in [Calls -> CallStates]
    BY <1>1 DEF PCs, HoldPCs, TypeInv, Deciding, Leased
  <2>2. CallMove(c) /\ call'[c].pc = "probe" /\ call'[c].local = call[c].local
          /\ call'[c].reply = call[c].reply
    BY <1>2, <1>3, <2>1, GotoFacts DEF CallMove
  <2>3. PermitMove(c) /\ LocalMove(c) /\ NameMove(c)
    BY <1>1, <1>3, <2>2, NamesKept DEF PermitMove, HoldPCs, LocalMove, Unhashed
  <2> QED
    BY <1>1, <1>2, <2>1, <2>2, <2>3, TransferGoes DEF Copying
<1>4. ASSUME NEW code \in OtherCodes, Reply(c, code, FALSE) PROVE TransferMove(c)
  <2>1. FALSE \in BOOLEAN
    OBVIOUS
  <2>2. Answers(c, OtherCodes)
    BY <1>4, <2>1, AnswersWith, Zenon
  <2> QED
    BY <1>1, <1>2, <2>2, TransferEnds
<1>5. "InsufficientDisk" \in OtherCodes /\ Unusable(c) \subseteq OtherCodes
  BY DEF OtherCodes, Unusable
<1> QED
  BY <1>3, <1>4, <1>5, Zenon DEF TransferOpen

\* The copy is verified, or was there already: the call ends, or the upgrade installs.
LEMMA FinishMoves ==
  ASSUME TypeInv, NEW c \in Calls, Transferring(c), call[c].pc \in {"probe", "verify"},
         Var(c) \in DOMAIN InitRemote, requests[c].local \in LocalNames,
         NEW code \in OtherCodes, NEW v \in BOOLEAN, Finish(c, code, v),
         IsUpgrade(c) => v = TRUE /\ remote[Var(c)] = call[c].local,
         UNCHANGED <<requests, dirent, data, remote>>
  PROVE  TransferMove(c)
<1>1. call \in [Calls -> CallStates] /\ call[c] \in CallStates
  BY DEF TypeInv
<1>2. CASE IsUpgrade(c)
  <2>1. call' = [call EXCEPT ![c] = [call[c] EXCEPT !.pc = "install", !.verified = v]]
           /\ permit' = Unpermitted(c)
    BY <1>2 DEF Finish, IsUpgrade
  <2>2. [call[c] EXCEPT !.pc = "install", !.verified = v] \in CallStates
    BY <1>1 DEF CallStates, PCs, Leased
  <2>3. CallMove(c)
    BY <1>1, <2>1, <2>2 DEF CallMove
  <2>4. call'[c].pc = "install" /\ call'[c].local = call[c].local /\ call'[c].reply = call[c].reply
    BY <1>1, <2>1 DEF CallStates
  <2>5. call'[c].verified
    BY <1>1, <1>2, <2>1 DEF CallStates
  <2>6. PermitMove(c) /\ LocalMove(c) /\ NameMove(c)
    BY <2>1, <2>4 DEF PermitMove, HoldPCs, LocalMove, NameMove, Unhashed
  <2>7. RemoteMove(c) /\ InstallMove(c)
    BY <1>2, <2>4, <2>5 DEF RemoteMove, InstallMove, Copying
  <2> QED
    BY <2>3, <2>4, <2>6, <2>7 DEF TransferMove, Transferring, Deciding, Leased
<1>3. CASE ~ IsUpgrade(c)
  <2>1. Reply(c, code, v)
    BY <1>3 DEF Finish, IsUpgrade
  <2>2. Answers(c, OtherCodes)
    BY <2>1, AnswersWith
  <2> QED
    BY <2>2, TransferEnds DEF Writes
<1> QED
  BY <1>2, <1>3

\* The digest of a file that is there is its content.
LEMMA Checksum ==
  ASSUME NEW f
  PROVE  /\ parse_checksum_output(f).present <=> f # NoFile
         /\ f # NoFile => parse_checksum_output(f).sha = f
BY DEF parse_checksum_output

\* Arguments of an upgrade's transfer: it never overwrites and always verifies.
LEMMA UpgradeArgs ==
  ASSUME TypeInv, NEW c \in Calls, IsUpgrade(c)
  PROVE  TransferArgs(c).verify = TRUE
<1>1. PICK q \in Requests : q = requests[c]
  BY RequestFacts
<1>2. build_transfer_args(q).verify = TRUE
  BY DEF build_transfer_args, Requests
<1> QED
  BY <1>1, <1>2 DEF TransferArgs, IsUpgrade

\* The digest of what is at the path already.
LEMMA TransferProbeMoves ==
  ASSUME Ready, NEW c \in Calls, TransferProbe(c)
  PROVE  TransferMove(c)
<1>1. Transferring(c) /\ call[c].pc = "probe" /\ TypeInv
  BY DEF TransferProbe, At, Transferring, Deciding, Leased, Ready
<1>2. UNCHANGED <<requests, dirent, data, remote>> /\ Writes(c)
  BY DEF TransferProbe, Writes
<1>3. NameMove(c) /\ Var(c) \in DOMAIN InitRemote /\ requests[c].local \in LocalNames
  BY <1>1, NamesKept
<1>4. call[c].local # NoFile
  BY <1>1 DEF Ready, HashInv, Transferring, Unhashed
<1> DEFINE pre == parse_checksum_output(remote[Var(c)])
<1>5. (pre.present <=> remote[Var(c)] # NoFile) /\ (remote[Var(c)] # NoFile => pre.sha = remote[Var(c)])
  BY Checksum
<1>6. \/ pre.present /\ pre.sha = call[c].local /\ Finish(c, "skipped", TRUE)
      \/ Reply(c, "DestExistsDiffers", FALSE)
      \/ ~ (pre.present /\ pre.sha = call[c].local) /\ Goto(c, "scp") /\ permit' = permit
  BY Zenon DEF TransferProbe
<1> HIDE DEF pre
<1>7. ASSUME remote[Var(c)] # call[c].local, Goto(c, "scp"), permit' = permit PROVE TransferMove(c)
  <2>1. "scp" \in PCs \ {"copy"} /\ "scp" \in Deciding \ {"install"} /\ call \in [Calls -> CallStates]
    BY <1>1 DEF PCs, HoldPCs, TypeInv, Deciding, Leased
  <2>2. CallMove(c) /\ call'[c].pc = "scp" /\ call'[c].local = call[c].local
          /\ call'[c].reply = call[c].reply
    BY <1>2, <1>7, <2>1, GotoFacts DEF CallMove
  <2>3. PermitMove(c) /\ LocalMove(c)
    BY <1>1, <1>7, <2>2 DEF PermitMove, HoldPCs, LocalMove, Unhashed
  <2> QED
    BY <1>1, <1>2, <1>3, <1>7, <2>1, <2>2, <2>3, TransferGoes
<1>8. ASSUME Reply(c, "DestExistsDiffers", FALSE) PROVE TransferMove(c)
  <2>1. "DestExistsDiffers" \in OtherCodes /\ FALSE \in BOOLEAN
    BY DEF OtherCodes
  <2>2. Answers(c, OtherCodes)
    BY <1>8, <2>1, AnswersWith, Zenon
  <2> QED
    BY <1>1, <1>2, <2>2, TransferEnds
<1>9. ASSUME remote[Var(c)] = call[c].local, Finish(c, "skipped", TRUE) PROVE TransferMove(c)
  <2>1. PICK code \in OtherCodes, v \in BOOLEAN : code = "skipped" /\ v = TRUE
    BY DEF OtherCodes
  <2>2. Finish(c, code, v)
    BY <1>9, <2>1, Zenon
  <2> QED
    BY <1>1, <1>2, <1>3, <1>9, <2>1, <2>2, FinishMoves
<1> QED
  BY <1>4, <1>5, <1>6, <1>7, <1>8, <1>9

\* scp creates the remote file.
LEMMA ScpStartMoves ==
  ASSUME Ready, NEW c \in Calls, ScpStart(c)
  PROVE  TransferMove(c)
<1>1. Transferring(c) /\ call[c].pc = "scp" /\ TypeInv /\ call[c] \in CallStates
  BY DEF ScpStart, At, Transferring, Deciding, Leased, Ready, TypeInv
<1>2. UNCHANGED <<requests, dirent, data>>
  BY DEF ScpStart
<1>3. NameMove(c) /\ requests[c].local \in LocalNames
  BY <1>1, NamesKept
<1>4. ASSUME dirent[File(c)] \notin {NoFile, Symlink}, permit' = permit,
             call' = [call EXCEPT ![c].pc = "copy", ![c].inode = dirent[File(c)]],
             remote' = [remote EXCEPT ![Var(c)] = Torn]
      PROVE  TransferMove(c)
  <2>1. PICK i \in Inodes : i = dirent[File(c)]
    BY <1>1, <1>3, <1>4, HashedContent
  <2>2. call' = [call EXCEPT ![c] = [call[c] EXCEPT !.pc = "copy", !.inode = i]]
    BY <1>1, <1>4, <2>1 DEF TypeInv
  <2>3. [call[c] EXCEPT !.pc = "copy", !.inode = i] \in CallStates
    BY <1>1, <2>1 DEF CallStates, PCs, HoldPCs
  <2>4. CallMove(c)
    BY <1>1, <1>2, <2>2, <2>3 DEF TypeInv, CallMove
  <2>5. call'[c].pc = "copy" /\ call'[c].local = call[c].local /\ call'[c].reply = call[c].reply
    BY <1>1, <2>2 DEF TypeInv, CallStates
  <2>6. PermitMove(c) /\ LocalMove(c)
    BY <1>1, <1>4, <2>5 DEF PermitMove, HoldPCs, LocalMove, Unhashed
  <2>7. "copy" \in Deciding \ {"install"} /\ Torn \in Holds
    BY DEF Deciding, Leased, Holds
  <2>8. Writes(c)
    BY <1>1, <1>4, <2>7 DEF Writes
  <2> QED
    BY <1>1, <1>2, <1>3, <2>4, <2>5, <2>6, <2>7, <2>8, TransferGoes DEF Copying
<1>5. ASSUME Reply(c, ScpFailure("path"), FALSE), remote' = remote PROVE TransferMove(c)
  <2>1. ScpFailure("path") \in OtherCodes /\ FALSE \in BOOLEAN
    BY ScpFailureText, CodesAreCodes
  <2>2. Answers(c, OtherCodes)
    BY <1>5, <2>1, AnswersWith, Zenon
  <2> QED
    BY <1>1, <1>2, <1>5, <2>2, TransferEnds DEF Writes
<1> QED
  BY <1>4, <1>5, Zenon DEF ScpStart

\* The copy ends, or is cut short.
LEMMA ScpRunMoves ==
  ASSUME Ready, NEW c \in Calls, ScpRun(c)
  PROVE  TransferMove(c)
<1>1. Transferring(c) /\ call[c].pc = "copy" /\ TypeInv /\ call[c] \in CallStates
  BY DEF ScpRun, At, Transferring, Deciding, Leased, Ready, TypeInv
<1>2. UNCHANGED <<requests, dirent, data>>
  BY DEF ScpRun
<1>3. NameMove(c)
  BY <1>1, NamesKept
<1>4. ASSUME remote' = [remote EXCEPT ![Var(c)] = data[call[c].inode]], Goto(c, "verify"),
             permit' = permit
      PROVE  TransferMove(c)
  <2>1. "verify" \in PCs \ {"copy"} /\ "verify" \in Deciding \ {"install"}
           /\ call \in [Calls -> CallStates]
    BY <1>1 DEF PCs, HoldPCs, TypeInv, Deciding, Leased
  <2>2. CallMove(c) /\ call'[c].pc = "verify" /\ call'[c].local = call[c].local
          /\ call'[c].reply = call[c].reply
    BY <1>2, <1>4, <2>1, GotoFacts DEF CallMove
  <2>3. PermitMove(c) /\ LocalMove(c)
    BY <1>1, <1>4, <2>2 DEF PermitMove, HoldPCs, LocalMove, Unhashed
  <2>4. data[call[c].inode] \in Holds
    BY <1>1 DEF TypeInv, CallStates
  <2>5. Writes(c)
    BY <1>1, <1>4, <2>4 DEF Writes
  <2> QED
    BY <1>1, <1>2, <1>3, <2>1, <2>2, <2>3, <2>5, TransferGoes DEF Copying
<1>5. ASSUME NEW err \in ScpErrors, Reply(c, ScpFailure(err), FALSE), remote' = remote
      PROVE  TransferMove(c)
  <2>1. ScpFailure(err) \in OtherCodes /\ FALSE \in BOOLEAN
    BY ScpFailureText, CodesAreCodes
  <2>2. Answers(c, OtherCodes)
    BY <1>5, <2>1, AnswersWith, Zenon
  <2> QED
    BY <1>1, <1>2, <1>5, <2>2, TransferEnds DEF Writes
<1> QED
  BY <1>4, <1>5, Zenon DEF ScpRun

\* The digest of the copy.
LEMMA TransferVerifyMoves ==
  ASSUME Ready, NEW c \in Calls, TransferVerify(c)
  PROVE  TransferMove(c)
<1>1. Transferring(c) /\ call[c].pc = "verify" /\ TypeInv
  BY DEF TransferVerify, At, Transferring, Deciding, Leased, Ready
<1>2. UNCHANGED <<requests, dirent, data, remote>> /\ Writes(c)
  BY DEF TransferVerify, Writes
<1>3. NameMove(c) /\ Var(c) \in DOMAIN InitRemote /\ requests[c].local \in LocalNames
  BY <1>1, NamesKept
<1> DEFINE post == parse_checksum_output(remote[Var(c)])
<1>5. (post.present <=> remote[Var(c)] # NoFile) /\ (remote[Var(c)] # NoFile => post.sha = remote[Var(c)])
  BY Checksum
<1>6. \/ post.present /\ post.sha = call[c].local /\ Finish(c, "transferred", TRUE)
      \/ ~ TransferArgs(c).verify /\ Finish(c, "transferred", FALSE)
      \/ Reply(c, "VerifyMismatch", FALSE)
      \/ Goto(c, "delete") /\ permit' = permit
  BY Zenon DEF TransferVerify
<1> HIDE DEF post
<1>7. ASSUME Goto(c, "delete"), permit' = permit PROVE TransferMove(c)
  <2>1. "delete" \in PCs \ {"copy"} /\ "delete" \in Deciding \ {"install"}
          /\ call \in [Calls -> CallStates]
    BY <1>1 DEF PCs, HoldPCs, TypeInv, Deciding, Leased
  <2>2. CallMove(c) /\ call'[c].pc = "delete" /\ call'[c].local = call[c].local
          /\ call'[c].reply = call[c].reply
    BY <1>2, <1>7, <2>1, GotoFacts DEF CallMove
  <2>3. PermitMove(c) /\ LocalMove(c)
    BY <1>1, <1>7, <2>2 DEF PermitMove, HoldPCs, LocalMove, Unhashed
  <2> QED
    BY <1>1, <1>2, <1>3, <2>1, <2>2, <2>3, TransferGoes DEF Copying
<1>8. ASSUME Reply(c, "VerifyMismatch", FALSE) PROVE TransferMove(c)
  <2>1. "VerifyMismatch" \in OtherCodes /\ FALSE \in BOOLEAN
    BY DEF OtherCodes
  <2>2. Answers(c, OtherCodes)
    BY <1>8, <2>1, AnswersWith, Zenon
  <2> QED
    BY <1>1, <1>2, <2>2, TransferEnds
<1>9. ASSUME remote[Var(c)] = call[c].local, Finish(c, "transferred", TRUE) PROVE TransferMove(c)
  <2>1. PICK code \in OtherCodes, v \in BOOLEAN : code = "transferred" /\ v = TRUE
    BY DEF OtherCodes
  <2>2. Finish(c, code, v)
    BY <1>9, <2>1, Zenon
  <2> QED
    BY <1>1, <1>2, <1>3, <1>9, <2>1, <2>2, FinishMoves
<1>10. ASSUME ~ TransferArgs(c).verify, Finish(c, "transferred", FALSE) PROVE TransferMove(c)
  <2>1. PICK code \in OtherCodes, v \in BOOLEAN : code = "transferred" /\ v = FALSE
    BY DEF OtherCodes
  <2>2. Finish(c, code, v)
    BY <1>10, <2>1, Zenon
  <2>3. ~ IsUpgrade(c)
    BY <1>1, <1>10, UpgradeArgs
  <2> QED
    BY <1>1, <1>2, <1>3, <2>1, <2>2, <2>3, FinishMoves
<1> QED
  BY <1>5, <1>6, <1>7, <1>8, <1>9, <1>10

\* A copy that does not match is deleted.
LEMMA TransferDeleteMoves ==
  ASSUME Ready, NEW c \in Calls, TransferDelete(c)
  PROVE  TransferMove(c)
<1>1. Transferring(c) /\ call[c].pc = "delete" /\ TypeInv
  BY DEF TransferDelete, At, Transferring, Deciding, Leased, Ready
<1>2. UNCHANGED <<requests, dirent, data>> /\ NoFile \in Holds
  BY DEF TransferDelete, Holds
<1>3. Writes(c)
  BY <1>1, <1>2 DEF TransferDelete, Writes
<1>4. "VerifyMismatch" \in OtherCodes /\ FALSE \in BOOLEAN
  BY DEF OtherCodes
<1>5. Answers(c, OtherCodes)
  BY <1>4, AnswersWith, Zenon DEF TransferDelete
<1> QED
  BY <1>1, <1>2, <1>3, <1>5, TransferEnds

\* Every step of a transfer.
LEMMA TransferStepMoves ==
  ASSUME Ready, NEW c \in Calls, TransferStep(c)
  PROVE  TransferMove(c)
BY TransferStartMoves, TransferQueueMoves, TransferHashMoves, TransferOpenMoves,
   TransferProbeMoves, ScpStartMoves, ScpRunMoves, TransferVerifyMoves, TransferDeleteMoves
   DEF TransferStep

-----------------------------------------------------------------------------
(* The same for the upgrade's own steps, and all variables.                *)

\* The lease is taken when it is free, and kept until the call is over.
LeaseMove(c) ==
  \/ lease' = lease /\ (IsUpgrade(c) /\ call'[c].pc \in Leased => call[c].pc \in Leased)
  \/ lease' = Unleased(c) /\ call'[c].pc \notin Leased
  \/ lease[Router(c)] = NoOne /\ lease' = [lease EXCEPT ![Router(c)] = c]

\* A router is told to install by an upgrade that then waits for it or gives up on it.
SentMove(c) ==
  /\ version' = version /\ window' = window
  /\ abandoned \subseteq abandoned' /\ abandoned' \subseteq Routers
  /\ up' \in [Calls -> UpStates] /\ \A d \in Calls \ {c} : up'[d] = up[d]
  /\ \/ installing' = installing /\ up'[c].sent = up[c].sent
     \/ /\ IsUpgrade(c) /\ call[c].pc = "install" /\ remote[Var(c)] # NoFile
        /\ installing' = [installing EXCEPT ![Router(c)] = remote[Var(c)]]
        /\ up'[c].sent = remote[Var(c)]
        /\ call'[c].pc = "wait" \/ Router(c) \in abandoned'

\* The phases of an upgrade follow each other.
PhaseMove(c) ==
  IsUpgrade(c) =>
    /\ call'[c].pc \in Deciding =>
          \/ call[c].pc \in Deciding
          \/ call[c].pc = "locked" /\ version[Router(c)] # requests[c].target
    /\ call'[c].pc \in Unhashed \cup Deciding => call[c].pc \in Unhashed \cup (Deciding \ {"install"})
    /\ call'[c].pc = "wait" => call[c].pc \in {"install", "wait"}
    /\ call'[c].pc = "post" => call[c].pc = "wait" /\ version[Router(c)] = requests[c].target
    /\ call[c].pc = "wait" => call'[c].pc \in {"wait", "post"} \/ Router(c) \in abandoned'

\* Only an upgrade that saw its version answers "upgraded", and only a fetch
\* that renames its file answers "fetched".
ReplyMove(c) ==
  /\ call'[c].reply = "upgraded" =>
        call[c].reply = "upgraded" \/ (IsUpgrade(c) /\ call[c].pc = "post")
  /\ call'[c].reply = "fetched" =>
        call[c].reply = "fetched" \/ (IsFetch(c) /\ call[c].pc = "rename")

\* The staging directory stays one.
StageMove(c) ==
  /\ dirent' \in [Entries -> Inodes \cup {NoFile, Symlink}]
  /\ \A n \in LocalNames : dirent'[<<n, "partial">>] # Symlink
  /\ data' \in [Inodes -> Holds \ {NoFile}]

\* A fetch starts from a file that is there.
FetchMove(c) ==
  IsFetch(c) /\ call'[c].pc \in {"check", "scp", "copy"} =>
      call[c].pc \in {"check", "scp", "copy"} \/ remote[Var(c)] # NoFile

Move(c) ==
  /\ CallMove(c) /\ PermitMove(c) /\ NameMove(c) /\ LocalMove(c) /\ RemoteMove(c)
  /\ InstallMove(c) /\ LeaseMove(c) /\ SentMove(c) /\ PhaseMove(c) /\ ReplyMove(c)
  /\ StageMove(c) /\ FetchMove(c)

\* A staging directory that is not touched.
LEMMA StageKept ==
  ASSUME TypeInv, NEW c, UNCHANGED <<dirent, data>>
  PROVE  StageMove(c)
BY DEF TypeInv, StageMove

\* Upgrade state that is not touched.
LEMMA SentKept ==
  ASSUME TypeInv, NEW c, UNCHANGED <<version, window, installing, up, abandoned>>
  PROVE  SentMove(c)
BY DEF TypeInv, SentMove

\* The transfer of an upgrade.
LEMMA UpgradeTransferMoves ==
  ASSUME Ready, NEW c \in Calls, UpgradeTransfer(c)
  PROVE  Move(c)
<1>1. TypeInv /\ TransferMove(c) /\ IsUpgrade(c)
  BY TransferStepMoves DEF UpgradeTransfer, Ready
<1>2. CallMove(c) /\ PermitMove(c) /\ NameMove(c) /\ LocalMove(c) /\ RemoteMove(c) /\ InstallMove(c)
  BY <1>1 DEF TransferMove
<1>3. StageMove(c) /\ SentMove(c)
  BY <1>1, StageKept, SentKept DEF TransferMove, UpgradeTransfer
<1>4. call[c].pc \in Deciding \ {"install"} /\ call'[c].pc \in Deciding \cup {"done"}
  BY <1>1 DEF TransferMove
<1>5. LeaseMove(c)
  BY <1>4 DEF LeaseMove, UpgradeTransfer, Deciding, Leased
<1>6. PhaseMove(c)
  BY <1>4 DEF PhaseMove, Deciding, Leased, Unhashed
<1>7. ReplyMove(c) /\ FetchMove(c)
  BY <1>1 DEF TransferMove, ReplyMove, FetchMove, OtherCodes, ScpCodes, IsUpgrade, IsFetch
<1> QED
  BY <1>2, <1>3, <1>5, <1>6, <1>7 DEF Move

\* The transfer of transfer_file.
LEMMA PlainTransferMoves ==
  ASSUME Ready, NEW c \in Calls, ~ IsUpgrade(c), TransferStep(c), UNCHANGED upgradeVars
  PROVE  Move(c)
<1>1. TypeInv /\ TransferMove(c)
  BY TransferStepMoves DEF Ready
<1>2. CallMove(c) /\ PermitMove(c) /\ NameMove(c) /\ LocalMove(c) /\ RemoteMove(c) /\ InstallMove(c)
  BY <1>1 DEF TransferMove
<1>3. StageMove(c) /\ SentMove(c) /\ LeaseMove(c) /\ PhaseMove(c)
  BY <1>1, StageKept, SentKept DEF TransferMove, upgradeVars, LeaseMove, PhaseMove
<1>4. ReplyMove(c) /\ FetchMove(c)
  BY <1>1
     DEF TransferMove, ReplyMove, FetchMove, OtherCodes, ScpCodes, IsUpgrade, IsFetch, TransferTools
<1> QED
  BY <1>2, <1>3, <1>4 DEF Move

\* An upgrade that ends.
LEMMA UpgradeEnds ==
  ASSUME TypeInv, NEW c \in Calls, IsUpgrade(c), call[c].pc # "done",
         Answers(c, Codes), lease' = Unleased(c),
         UNCHANGED <<requests, dirent, data, remote>>, SentMove(c), ReplyMove(c),
         call[c].pc = "wait" => Router(c) \in abandoned'
  PROVE  Move(c)
<1>1. /\ CallMove(c) /\ call'[c].pc = "done" /\ call'[c].local = call[c].local
      /\ permit' = Unpermitted(c)
  BY AnswerFacts DEF CallMove
<1>2. StageMove(c)
  BY StageKept
<1>3. PermitMove(c) /\ LeaseMove(c) /\ NameMove(c) /\ LocalMove(c) /\ RemoteMove(c)
  BY <1>1 DEF PermitMove, LeaseMove, NameMove, LocalMove, RemoteMove, HoldPCs, Leased, Copying
<1>4. InstallMove(c) /\ PhaseMove(c) /\ FetchMove(c)
  BY <1>1 DEF InstallMove, PhaseMove, FetchMove, Deciding, Leased, Unhashed
<1> QED
  BY <1>1, <1>2, <1>3, <1>4 DEF Move

\* An upgrade that goes on outside its transfer.
LEMMA UpgradeGoes ==
  ASSUME TypeInv, NEW c \in Calls, IsUpgrade(c), call[c].pc # "done",
         NEW p \in {"facts", "lease", "locked", "transfer", "wait", "post"}, Goto(c, p),
         Var(c) \in DOMAIN InitRemote, requests[c].local \in LocalNames,
         UNCHANGED <<requests, dirent, data, remote, permit>>,
         p \in Unhashed <=> call[c].pc \in Unhashed,
         LeaseMove(c), SentMove(c), PhaseMove(c)
  PROVE  Move(c)
<1>1. p \in PCs \ {"copy"} /\ call \in [Calls -> CallStates]
  BY DEF PCs, Unhashed, Leased, TypeInv
<1>2. /\ CallMove(c) /\ call'[c].pc = p /\ call'[c].local = call[c].local
      /\ call'[c].reply = call[c].reply
  BY <1>1, GotoFacts DEF CallMove
<1>3. StageMove(c)
  BY StageKept
<1>4. PermitMove(c) /\ NameMove(c) /\ LocalMove(c) /\ RemoteMove(c)
  BY <1>2 DEF PermitMove, NameMove, LocalMove, RemoteMove, HoldPCs, Copying
<1>5. InstallMove(c) /\ ReplyMove(c) /\ FetchMove(c)
  BY <1>2 DEF InstallMove, ReplyMove, FetchMove
<1> QED
  BY <1>2, <1>3, <1>4, <1>5 DEF Move

\* The answer of an upgrade.
LEMMA UpgradeReplies ==
  ASSUME TypeInv, NEW c \in Calls, NEW code \in Codes, UpgradeReply(c, code)
  PROVE  Answers(c, Codes) /\ lease' = Unleased(c) /\ call'[c].reply = code
<1>1. PICK v \in BOOLEAN : v = call[c].verified
  BY DEF TypeInv, CallStates
<1>2. Reply(c, code, v) /\ lease' = Unleased(c)
  BY <1>1 DEF UpgradeReply
<1> QED
  BY <1>2, AnswersWith, ReplyFacts

\* An upgrade that is refused, or gives up, before its install.
LEMMA UpgradeRefused ==
  ASSUME TypeInv, NEW c \in Calls, IsUpgrade(c), call[c].pc \notin {"done", "wait"},
         NEW code \in OtherCodes, UpgradeReply(c, code),
         UNCHANGED <<requests, dirent, data, remote, version, installing, window, up, abandoned>>
  PROVE  Move(c)
<1>1. code \in Codes /\ code \notin {"upgraded", "fetched"}
  BY DEF Codes, OtherCodes, ScpCodes
<1>2. Answers(c, Codes) /\ lease' = Unleased(c) /\ ReplyMove(c)
  BY <1>1, UpgradeReplies DEF ReplyMove
<1>3. SentMove(c)
  BY SentKept
<1> QED
  BY <1>2, <1>3, UpgradeEnds

\* The checks of the arguments, and the digest of the image.
LEMMA UpgradeStartMoves ==
  ASSUME Ready, NEW c \in Calls, UpgradeStart(c)
  PROVE  Move(c)
<1>1. /\ IsUpgrade(c) /\ call[c].pc = "start" /\ TypeInv
      /\ requests[c].tool \in FileTools /\ requests[c].tool \in TransferTools
  BY DEF UpgradeStart, At, Ready, IsUpgrade, FileTools, TransferTools
<1>2. UNCHANGED <<requests, dirent, data, remote, version, installing, window, abandoned>>
  BY DEF UpgradeStart
<1>3. ASSUME validate_source_basename(requests[c].name), dirent[File(c)] \notin {NoFile, Symlink},
             Goto(c, "facts"), UNCHANGED <<permit, lease>>,
             up' = [up EXCEPT ![c].image = sha256_file_cancellable(c)]
      PROVE  Move(c)
  <2>1. Var(c) \in DOMAIN InitRemote /\ requests[c].local \in LocalNames
    BY <1>1, <1>3, AcceptedNames, RequestFacts
  <2>2. PICK h \in Holds : h = sha256_file_cancellable(c)
    BY <1>1, <1>3, <2>1, HashedContent
  <2>3. up \in [Calls -> UpStates] /\ up[c] \in UpStates
    BY <1>1 DEF TypeInv
  <2>4. up' = [up EXCEPT ![c] = [up[c] EXCEPT !.image = h]]
    BY <1>3, <2>2, <2>3
  <2>5. [up[c] EXCEPT !.image = h] \in UpStates /\ [up[c] EXCEPT !.image = h].sent = up[c].sent
    BY <2>2, <2>3 DEF UpStates
  <2>6. SentMove(c)
    BY <1>1, <1>2, <2>3, <2>4, <2>5 DEF SentMove, TypeInv
  <2>7. "facts" \in PCs \ {"copy"} /\ call \in [Calls -> CallStates]
    BY <1>1 DEF PCs, Unhashed, TypeInv
  <2>8. call'[c].pc = "facts"
    BY <1>3, <2>7, GotoFacts
  <2>9. LeaseMove(c) /\ PhaseMove(c)
    BY <1>1, <1>3, <2>8 DEF LeaseMove, PhaseMove, Leased, Deciding, Unhashed
  <2> QED
    BY <1>1, <1>2, <1>3, <2>1, <2>6, <2>9, UpgradeGoes DEF Unhashed
<1>4. ASSUME UpgradeReply(c, "Refused"), up' = up PROVE Move(c)
  <2>1. "Refused" \in OtherCodes
    BY DEF OtherCodes
  <2> QED
    BY <1>1, <1>2, <1>4, <2>1, UpgradeRefused
<1> QED
  BY <1>3, <1>4, Zenon DEF UpgradeStart

\* What the preflight decides, and when it lets the upgrade go on.
LEMMA PreflightFacts ==
  ASSUME NEW r, NEW args, NEW image
  PROVE  /\ evaluate_preflight(r, args, image) \in OtherCodes \cup {"Proceed"}
         /\ evaluate_preflight(r, args, image) = "Proceed" => version[r] # args.target
BY DEF evaluate_preflight, parse_junos_version, OtherCodes

\* A preflight, with or without the lease: on to p, or the end.
LEMMA PreflightMoves ==
  ASSUME Ready, NEW c \in Calls, IsUpgrade(c), call[c].pc \in {"facts", "locked"},
         NEW p \in {"lease", "transfer"}, call[c].pc = "facts" <=> p = "lease",
         NEW d, d = evaluate_preflight(Router(c), requests[c], up[c].image),
         \/ d = "Proceed" /\ Goto(c, p) /\ UNCHANGED <<permit, lease>>
         \/ d # "Proceed" /\ UpgradeReply(c, d)
         \/ UpgradeReply(c, "DeviceProbeFailed"),
         UNCHANGED <<requests, dirent, data, remote, version, installing, window, up, abandoned>>
  PROVE  Move(c)
<1>1. TypeInv /\ requests[c].tool \in FileTools /\ requests[c].tool \in TransferTools
  BY DEF Ready, IsUpgrade, FileTools, TransferTools
<1>2. d \in OtherCodes \cup {"Proceed"} /\ (d = "Proceed" => version[Router(c)] # requests[c].target)
  BY PreflightFacts
<1>3. ASSUME d = "Proceed", Goto(c, p), UNCHANGED <<permit, lease>> PROVE Move(c)
  <2>1. Var(c) \in DOMAIN InitRemote /\ requests[c].local \in LocalNames
    BY <1>1 DEF Ready, NamesInv
  <2>2. p \in PCs \ {"copy"} /\ call \in [Calls -> CallStates]
    BY <1>1 DEF PCs, Unhashed, TypeInv
  <2>3. call'[c].pc = p
    BY <1>3, <2>2, GotoFacts
  <2>4. LeaseMove(c) /\ PhaseMove(c)
    BY <1>2, <1>3, <2>3 DEF LeaseMove, PhaseMove, Leased, Deciding, Unhashed
  <2>5. SentMove(c)
    BY <1>1, SentKept
  <2> QED
    BY <1>1, <1>3, <2>1, <2>4, <2>5, UpgradeGoes DEF Unhashed
<1>4. ASSUME NEW code \in OtherCodes, UpgradeReply(c, code) PROVE Move(c)
  BY <1>1, <1>4, UpgradeRefused
<1>5. "DeviceProbeFailed" \in OtherCodes
  BY DEF OtherCodes
<1> QED
  BY <1>2, <1>3, <1>4, <1>5

\* The preflight before the lease.
LEMMA FirstPreflightMoves ==
  ASSUME Ready, NEW c \in Calls, dispatch_preflight(c)
  PROVE  Move(c)
<1>1. PICK d : d = evaluate_preflight(Router(c), requests[c], up[c].image)
  OBVIOUS
<1>2. IsUpgrade(c) /\ call[c].pc = "facts"
  BY DEF dispatch_preflight, At
<1>3. \/ d = "Proceed" /\ Goto(c, "lease") /\ UNCHANGED <<permit, lease>>
      \/ d # "Proceed" /\ UpgradeReply(c, d)
      \/ UpgradeReply(c, "DeviceProbeFailed")
  BY <1>1 DEF dispatch_preflight
<1>4. UNCHANGED <<requests, dirent, data, remote, version, installing, window, up, abandoned>>
  BY DEF dispatch_preflight
<1> QED
  BY <1>1, <1>2, <1>3, <1>4, PreflightMoves

\* The preflight under the lease.
LEMMA LockedPreflightMoves ==
  ASSUME Ready, NEW c \in Calls, LockedPreflight(c)
  PROVE  Move(c)
<1>1. PICK d : d = evaluate_preflight(Router(c), requests[c], up[c].image)
  OBVIOUS
<1>2. IsUpgrade(c) /\ call[c].pc = "locked"
  BY DEF LockedPreflight, At
<1>3. \/ d = "Proceed" /\ Goto(c, "transfer") /\ UNCHANGED <<permit, lease>>
      \/ d # "Proceed" /\ UpgradeReply(c, d)
      \/ UpgradeReply(c, "DeviceProbeFailed")
  BY <1>1 DEF LockedPreflight
<1>4. UNCHANGED <<requests, dirent, data, remote, version, installing, window, up, abandoned>>
  BY DEF LockedPreflight
<1> QED
  BY <1>1, <1>2, <1>3, <1>4, PreflightMoves

\* The lease, or a refusal at once.
LEMMA AcquireMoves ==
  ASSUME Ready, NEW c \in Calls, acquire_cancellable(c)
  PROVE  Move(c)
<1>1. /\ TypeInv /\ requests[c].tool \in FileTools
      /\ IsUpgrade(c) /\ call[c].pc = "lease"
  BY DEF Ready, IsUpgrade, FileTools, TransferTools, acquire_cancellable, At
<1>2. UNCHANGED <<requests, dirent, data, remote, version, installing, window, up, abandoned>>
  BY DEF acquire_cancellable
<1>3. ASSUME lease[Router(c)] = NoOne, lease' = [lease EXCEPT ![Router(c)] = c],
             Goto(c, "locked"), permit' = permit
      PROVE  Move(c)
  <2>1. Var(c) \in DOMAIN InitRemote /\ requests[c].local \in LocalNames
    BY <1>1 DEF Ready, NamesInv
  <2>2. "locked" \in PCs \ {"copy"} /\ call \in [Calls -> CallStates]
    BY <1>1 DEF PCs, Unhashed, TypeInv
  <2>3. call'[c].pc = "locked"
    BY <1>3, <2>2, GotoFacts
  <2>4. LeaseMove(c) /\ PhaseMove(c)
    BY <1>1, <1>3, <2>3 DEF LeaseMove, PhaseMove, Leased, Deciding, Unhashed
  <2>5. SentMove(c)
    BY <1>1, <1>2, SentKept
  <2> QED
    BY <1>1, <1>2, <1>3, <2>1, <2>4, <2>5, UpgradeGoes DEF Unhashed
<1>4. ASSUME UpgradeReply(c, "DeviceBusy") PROVE Move(c)
  <2>1. "DeviceBusy" \in OtherCodes
    BY DEF OtherCodes
  <2> QED
    BY <1>1, <1>2, <1>4, <2>1, UpgradeRefused
<1> QED
  BY <1>3, <1>4 DEF acquire_cancellable

\* The install command: what the router and what the call make of it.
LEMMA InstallMoves ==
  ASSUME Ready, NEW c \in Calls, Install(c)
  PROVE  Move(c)
<1>1. /\ TypeInv /\ requests[c].tool \in FileTools
      /\ IsUpgrade(c) /\ call[c].pc = "install"
  BY DEF Ready, IsUpgrade, FileTools, TransferTools, Install, At
<1>2. UNCHANGED <<requests, dirent, data, remote, version, window>>
  BY DEF Install
<1>3. Var(c) \in DOMAIN InitRemote /\ requests[c].local \in LocalNames
  BY <1>1 DEF Ready, NamesInv
<1>4. /\ up \in [Calls -> UpStates] /\ up[c] \in UpStates /\ Router(c) \in Routers
      /\ abandoned \subseteq Routers /\ call \in [Calls -> CallStates]
      /\ remote[Var(c)] \in Holds
  BY <1>1, <1>3, RequestFacts DEF TypeInv
<1> DEFINE Takes == /\ remote[Var(c)] # NoFile
                    /\ installing' = [installing EXCEPT ![Router(c)] = remote[Var(c)]]
                    /\ up' = [up EXCEPT ![c].sent = remote[Var(c)]]
           Waits == Goto(c, "wait") /\ UNCHANGED <<permit, lease, abandoned>>
           Fails == UpgradeReply(c, "DeviceProbeFailed") \/ UpgradeReply(c, "Cancelled")
<1>5. \/ UpgradeReply(c, "ConnectFailed") /\ UNCHANGED <<installing, up, abandoned>>
      \/ Takes /\ Waits
      \/ Takes /\ Fails /\ abandoned' = abandoned \cup {Router(c)}
      \/ UNCHANGED <<installing, up>> /\ Waits
      \/ UNCHANGED <<installing, up>> /\ Fails /\ abandoned' = abandoned
  BY DEF Install
<1>6. ASSUME Takes, abandoned \subseteq abandoned', abandoned' \subseteq Routers,
             call'[c].pc = "wait" \/ Router(c) \in abandoned'
      PROVE  SentMove(c)
  <2>1. PICK f \in Holds : f = remote[Var(c)]
    BY <1>4
  <2>2. up' = [up EXCEPT ![c] = [up[c] EXCEPT !.sent = f]]
    BY <1>4, <1>6, <2>1
  <2>3. [up[c] EXCEPT !.sent = f] \in UpStates /\ [up[c] EXCEPT !.sent = f].sent = f
    BY <1>4, <2>1 DEF UpStates
  <2>4. up' \in [Calls -> UpStates] /\ (\A d \in Calls \ {c} : up'[d] = up[d]) /\ up'[c].sent = f
    BY <1>4, <2>2, <2>3
  <2> QED
    BY <1>1, <1>2, <1>6, <2>1, <2>4 DEF SentMove
<1>7. ASSUME Waits, SentMove(c) PROVE Move(c)
  <2>1. "wait" \in PCs \ {"copy"}
    BY DEF PCs, Leased
  <2>2. call'[c].pc = "wait"
    BY <1>4, <1>7, <2>1, GotoFacts
  <2>3. LeaseMove(c) /\ PhaseMove(c)
    BY <1>1, <1>7, <2>2 DEF LeaseMove, PhaseMove, Leased, Deciding, Unhashed
  <2> QED
    BY <1>1, <1>2, <1>3, <1>7, <2>3, UpgradeGoes DEF Unhashed
<1>8. ASSUME NEW code \in OtherCodes, UpgradeReply(c, code), SentMove(c) PROVE Move(c)
  <2>1. code \in Codes /\ code \notin {"upgraded", "fetched"}
    BY DEF Codes, OtherCodes, ScpCodes
  <2>2. Answers(c, Codes) /\ lease' = Unleased(c) /\ ReplyMove(c)
    BY <1>1, <1>8, <2>1, UpgradeReplies DEF ReplyMove
  <2> QED
    BY <1>1, <1>2, <1>8, <2>2, UpgradeEnds
<1>9. /\ "ConnectFailed" \in OtherCodes /\ "DeviceProbeFailed" \in OtherCodes
      /\ "Cancelled" \in OtherCodes
  BY DEF OtherCodes, ScpCodes
<1>10. CASE UpgradeReply(c, "ConnectFailed") /\ UNCHANGED <<installing, up, abandoned>>
  BY <1>1, <1>2, <1>8, <1>9, <1>10, SentKept
<1>11. CASE Takes /\ Waits
  <2>1. "wait" \in PCs \ {"copy"}
    BY DEF PCs, Leased
  <2>2. call'[c].pc = "wait"
    BY <1>4, <1>11, <2>1, GotoFacts
  <2> QED
    BY <1>4, <1>6, <1>7, <1>11, <2>2
<1>12. CASE Takes /\ Fails /\ abandoned' = abandoned \cup {Router(c)}
  <2>1. SentMove(c)
    BY <1>4, <1>6, <1>12
  <2> QED
    BY <1>8, <1>9, <1>12, <2>1
<1>13. CASE UNCHANGED <<installing, up>> /\ Waits
  BY <1>1, <1>2, <1>7, <1>13, SentKept
<1>14. CASE UNCHANGED <<installing, up>> /\ Fails /\ abandoned' = abandoned
  BY <1>1, <1>2, <1>8, <1>9, <1>14, SentKept
<1> QED
  BY <1>5, <1>10, <1>11, <1>12, <1>13, <1>14

\* A probe of the router while it reboots.
LEMMA WaitMoves ==
  ASSUME Ready, NEW c \in Calls, wait_for_version(c)
  PROVE  Move(c)
<1>1. /\ TypeInv /\ requests[c].tool \in FileTools
      /\ IsUpgrade(c) /\ call[c].pc = "wait"
  BY DEF Ready, IsUpgrade, FileTools, TransferTools, wait_for_version, At
<1>2. UNCHANGED <<requests, dirent, data, remote, version, window, installing>>
  BY DEF wait_for_version
<1>3. Var(c) \in DOMAIN InitRemote /\ requests[c].local \in LocalNames
  BY <1>1 DEF Ready, NamesInv
<1>4. /\ up \in [Calls -> UpStates] /\ up[c] \in UpStates /\ Router(c) \in Routers
      /\ abandoned \subseteq Routers /\ call \in [Calls -> CallStates]
      /\ version[Router(c)] \in Versions \cup {Nothing}
      /\ up[c].observed \in Versions \cup {Nothing} /\ up[c].polls \in Nat
  BY <1>1, RequestFacts DEF TypeInv, UpStates
<1> DEFINE Poll(o) == /\ up' = [up EXCEPT ![c].polls = @ + 1, ![c].observed = o]
                      /\ UNCHANGED <<call, permit, lease, abandoned>>
           GiveUp == /\ \/ UpgradeReply(c, "RebootTimeout")
                        \/ UpgradeReply(c, "PostVerifyMismatch")
                     /\ abandoned' = abandoned \cup {Router(c)}
                     /\ up' = up
<1>5. \/ /\ version[Router(c)] = requests[c].target
         /\ Goto(c, "post") /\ UNCHANGED <<permit, lease, up, abandoned>>
      \/ \E o \in {version[Router(c)], up[c].observed} : Poll(o)
      \/ GiveUp
  BY DEF wait_for_version, parse_junos_version
<1>6. ASSUME version[Router(c)] = requests[c].target, Goto(c, "post"),
             UNCHANGED <<permit, lease, up, abandoned>>
      PROVE  Move(c)
  <2>1. "post" \in PCs \ {"copy"}
    BY DEF PCs, Leased
  <2>2. call'[c].pc = "post"
    BY <1>4, <1>6, <2>1, GotoFacts
  <2>3. LeaseMove(c) /\ PhaseMove(c)
    BY <1>1, <1>6, <2>2 DEF LeaseMove, PhaseMove, Leased, Deciding, Unhashed
  <2>4. SentMove(c)
    BY <1>1, <1>2, <1>6, SentKept
  <2> QED
    BY <1>1, <1>2, <1>3, <1>6, <2>3, <2>4, UpgradeGoes DEF Unhashed
<1>7. ASSUME NEW o \in Versions \cup {Nothing}, Poll(o) PROVE Move(c)
  <2>1. PICK n \in Nat : n = up[c].polls + 1
    BY <1>4
  <2>2. up' = [up EXCEPT ![c] = [up[c] EXCEPT !.polls = n, !.observed = o]]
    BY <1>4, <1>7, <2>1
  <2>3. /\ [up[c] EXCEPT !.polls = n, !.observed = o] \in UpStates
        /\ [up[c] EXCEPT !.polls = n, !.observed = o].sent = up[c].sent
    BY <1>4 DEF UpStates
  <2>4. /\ up' \in [Calls -> UpStates] /\ (\A d \in Calls \ {c} : up'[d] = up[d])
        /\ up'[c].sent = up[c].sent
    BY <1>4, <2>2, <2>3
  <2>5. SentMove(c)
    BY <1>1, <1>2, <1>4, <1>7, <2>4 DEF SentMove
  <2>6. CallMove(c) /\ PermitMove(c) /\ NameMove(c) /\ LocalMove(c) /\ RemoteMove(c)
    BY <1>1, <1>2, <1>3, <1>4, <1>7
       DEF CallMove, PermitMove, NameMove, LocalMove, RemoteMove, HoldPCs, Copying
  <2>7. InstallMove(c) /\ LeaseMove(c) /\ PhaseMove(c) /\ ReplyMove(c) /\ FetchMove(c)
    BY <1>1, <1>7
       DEF InstallMove, LeaseMove, PhaseMove, ReplyMove, FetchMove, Deciding, Leased, Unhashed
  <2>8. StageMove(c)
    BY <1>1, <1>2, StageKept
  <2> QED
    BY <2>5, <2>6, <2>7, <2>8 DEF Move
<1>8. ASSUME GiveUp PROVE Move(c)
  <2>1. PICK code \in OtherCodes : UpgradeReply(c, code)
    BY <1>8 DEF OtherCodes
  <2>2. code \in Codes /\ code \notin {"upgraded", "fetched"}
    BY DEF Codes, OtherCodes, ScpCodes
  <2>3. Answers(c, Codes) /\ lease' = Unleased(c) /\ ReplyMove(c)
    BY <1>1, <2>1, <2>2, UpgradeReplies DEF ReplyMove
  <2>4. SentMove(c)
    BY <1>1, <1>2, <1>4, <1>8 DEF SentMove
  <2> QED
    BY <1>1, <1>2, <1>8, <2>3, <2>4, UpgradeEnds
<1> QED
  BY <1>4, <1>5, <1>6, <1>7, <1>8

\* The baseline after the upgrade.
LEMMA PostMoves ==
  ASSUME Ready, NEW c \in Calls, PostBaseline(c)
  PROVE  Move(c)
<1>1. TypeInv /\ IsUpgrade(c) /\ call[c].pc = "post"
  BY DEF Ready, PostBaseline, At
<1>2. UNCHANGED <<requests, dirent, data, remote, version, installing, window, up, abandoned>>
  BY DEF PostBaseline
<1>3. PICK code \in Codes \ {"fetched"} : UpgradeReply(c, code)
  BY DEF PostBaseline, Codes, OtherCodes
<1>4. Answers(c, Codes) /\ lease' = Unleased(c) /\ ReplyMove(c) /\ SentMove(c)
  BY <1>1, <1>2, <1>3, UpgradeReplies, SentKept DEF ReplyMove
<1> QED
  BY <1>1, <1>2, <1>4, UpgradeEnds

\* The end of an upgrade by timeout or cancellation.
LEMMA UpgradeAbortMoves ==
  ASSUME Ready, NEW c \in Calls, UpgradeAbort(c)
  PROVE  Move(c)
<1>1. TypeInv /\ IsUpgrade(c) /\ call[c].pc # "done" /\ Router(c) \in Routers
  BY RequestFacts DEF Ready, UpgradeAbort, TransferPCs
<1>2. UNCHANGED <<requests, dirent, data, remote, version, installing, window, up>>
  BY DEF UpgradeAbort
<1>3. PICK code \in OtherCodes : UpgradeReply(c, code)
  BY DEF UpgradeAbort, OtherCodes, ScpCodes
<1>4. code \in Codes /\ code \notin {"upgraded", "fetched"}
  BY DEF Codes, OtherCodes, ScpCodes
<1>5. Answers(c, Codes) /\ lease' = Unleased(c) /\ ReplyMove(c)
  BY <1>1, <1>3, <1>4, UpgradeReplies DEF ReplyMove
<1>6. /\ abandoned' \in {abandoned, abandoned \cup {Router(c)}}
      /\ call[c].pc = "wait" => Router(c) \in abandoned'
  BY DEF UpgradeAbort
<1>7. SentMove(c)
  BY <1>1, <1>2, <1>6 DEF SentMove, TypeInv
<1> QED
  BY <1>1, <1>2, <1>5, <1>6, <1>7, UpgradeEnds

-----------------------------------------------------------------------------
(* fetch_file, list_staged_files, and calls that are cut off.              *)

\* What a call that is no upgrade may answer.
OwnCodes(c) ==
  IF IsFetch(c) /\ call[c].pc = "rename" THEN OtherCodes \cup {"fetched"} ELSE OtherCodes

\* Codes that are not an upgrade's.
LEMMA OwnCodeFacts ==
  ASSUME NEW c
  PROVE  /\ OtherCodes \subseteq OwnCodes(c) /\ ScpCodes \subseteq OwnCodes(c)
         /\ OwnCodes(c) \in SUBSET Codes
BY DEF OwnCodes, Codes, OtherCodes, ScpCodes

\* A call that is no upgrade ends.
LEMMA PlainEnds ==
  ASSUME TypeInv, NEW c \in Calls, ~ IsUpgrade(c), call[c].pc # "done", Answers(c, OwnCodes(c)),
         UNCHANGED <<requests, remote>>, UNCHANGED upgradeVars, StageMove(c)
  PROVE  Move(c)
<1>1. /\ CallMove(c) /\ call'[c].pc = "done" /\ call'[c].local = call[c].local
      /\ call'[c].reply \in OwnCodes(c) /\ permit' = Unpermitted(c)
  BY OwnCodeFacts, AnswerFacts DEF CallMove
<1>2. SentMove(c) /\ LeaseMove(c) /\ PhaseMove(c)
  BY SentKept DEF upgradeVars, LeaseMove, PhaseMove
<1>3. PermitMove(c) /\ NameMove(c) /\ LocalMove(c) /\ RemoteMove(c)
  BY <1>1 DEF PermitMove, NameMove, LocalMove, RemoteMove, HoldPCs, Copying
<1>4. InstallMove(c) /\ FetchMove(c)
  BY <1>1 DEF InstallMove, FetchMove
<1>5. ReplyMove(c)
  BY <1>1 DEF ReplyMove, OwnCodes, OtherCodes, ScpCodes
<1> QED
  BY <1>1, <1>2, <1>3, <1>4, <1>5 DEF Move

\* A fetch, or a listing, goes on.
LEMMA PlainGoes ==
  ASSUME TypeInv, NEW c \in Calls, requests[c].tool \notin TransferTools,
         CallMove(c), PermitMove(c), NameMove(c), FetchMove(c),
         call'[c].pc # "install", call'[c].reply = call[c].reply,
         UNCHANGED remote, UNCHANGED upgradeVars, StageMove(c)
  PROVE  Move(c)
<1>1. ~ IsUpgrade(c)
  BY DEF IsUpgrade, TransferTools
<1>2. SentMove(c) /\ LeaseMove(c) /\ PhaseMove(c)
  BY <1>1, SentKept DEF upgradeVars, LeaseMove, PhaseMove
<1>3. LocalMove(c) /\ RemoteMove(c) /\ InstallMove(c) /\ ReplyMove(c)
  BY DEF LocalMove, RemoteMove, InstallMove, ReplyMove
<1> QED
  BY <1>2, <1>3 DEF Move

\* The file entry and the partial entry of a fetch.
LEMMA FetchEntries ==
  ASSUME TypeInv, NEW c \in Calls, requests[c].local \in LocalNames
  PROVE  /\ File(c) \in Entries /\ Partial(c) \in Entries /\ File(c) # Partial(c)
         /\ dirent[Partial(c)] \in Inodes \cup {NoFile}
         /\ \A n \in LocalNames : File(c) # <<n, "partial">>
BY DEF TypeInv, File, Partial, Entries

\* The partial file removed.
LEMMA PartialRemoved ==
  ASSUME TypeInv, NEW c \in Calls, requests[c].local \in LocalNames,
         dirent' = [dirent EXCEPT ![Partial(c)] = NoFile], data' = data
  PROVE  StageMove(c)
<1>1. NoFile # Symlink
  BY DEF NoFile, Symlink
<1>2. \A n \in LocalNames : <<n, "partial">> \in Entries
  BY DEF Entries
<1> QED
  BY <1>1, <1>2, FetchEntries DEF StageMove, TypeInv

\* The checks of the arguments.
LEMMA FetchStartMoves ==
  ASSUME Ready, NEW c \in Calls, FetchStart(c), UNCHANGED upgradeVars
  PROVE  Move(c)
<1>1. /\ TypeInv /\ IsFetch(c) /\ call[c].pc = "start" /\ ~ IsUpgrade(c)
      /\ requests[c].tool \in FileTools /\ requests[c].tool \notin TransferTools
  BY DEF FetchStart, At, Ready, IsFetch, IsUpgrade, FileTools, TransferTools
<1>2. UNCHANGED <<requests, dirent, data, remote>> /\ StageMove(c)
  BY <1>1, StageKept DEF FetchStart
<1>3. ASSUME Goto(c, "queue"), permit' = permit, validate_source_basename(requests[c].name),
             validate_source_basename(requests[c].local)
      PROVE  Move(c)
  <2>1. "queue" \in PCs \ {"copy"} /\ call \in [Calls -> CallStates]
    BY <1>1 DEF PCs, Unhashed, TypeInv
  <2>2. CallMove(c) /\ call'[c].pc = "queue" /\ call'[c].reply = call[c].reply
    BY <1>2, <1>3, <2>1, GotoFacts DEF CallMove
  <2>3. PermitMove(c) /\ FetchMove(c)
    BY <1>1, <1>3, <2>2 DEF PermitMove, FetchMove, HoldPCs
  <2>4. NameMove(c)
    BY <1>1, <1>3, AcceptedNames DEF NameMove
  <2> QED
    BY <1>1, <1>2, <2>2, <2>3, <2>4, PlainGoes
<1>4. ASSUME Reply(c, "Refused", FALSE) PROVE Move(c)
  <2>1. "Refused" \in OwnCodes(c) /\ FALSE \in BOOLEAN
    BY OwnCodeFacts DEF OtherCodes
  <2>2. Answers(c, OwnCodes(c))
    BY <1>4, <2>1, AnswersWith, Zenon
  <2> QED
    BY <1>1, <1>2, <2>2, PlainEnds
<1> QED
  BY <1>3, <1>4, Zenon DEF FetchStart

\* A fetch whose names were accepted.
LEMMA FetchFacts ==
  ASSUME Ready, NEW c \in Calls, IsFetch(c), call[c].pc \notin {"start", "done"}
  PROVE  /\ TypeInv /\ ~ IsUpgrade(c) /\ requests[c].tool \notin TransferTools
         /\ NameMove(c) /\ Var(c) \in DOMAIN InitRemote /\ requests[c].local \in LocalNames
         /\ call \in [Calls -> CallStates] /\ call[c] \in CallStates
BY DEF Ready, NamesInv, NameMove, IsFetch, IsUpgrade, FileTools, TransferTools, TypeInv

\* The permit of the router.
LEMMA FetchQueueMoves ==
  ASSUME Ready, NEW c \in Calls, FetchQueue(c), UNCHANGED upgradeVars
  PROVE  Move(c)
<1>1. IsFetch(c) /\ call[c].pc = "queue"
  BY DEF FetchQueue, At
<1>2. /\ TypeInv /\ requests[c].tool \notin TransferTools /\ NameMove(c)
      /\ call \in [Calls -> CallStates]
  BY <1>1, FetchFacts
<1>3. UNCHANGED <<requests, dirent, data, remote>> /\ StageMove(c)
  BY <1>2, StageKept DEF FetchQueue
<1>4. "probe" \in PCs \ {"copy"}
  BY DEF PCs, HoldPCs
<1>5. CallMove(c) /\ call'[c].pc = "probe" /\ call'[c].reply = call[c].reply
  BY <1>2, <1>3, <1>4, GotoFacts DEF CallMove, FetchQueue
<1>6. PermitMove(c) /\ FetchMove(c)
  BY <1>5 DEF PermitMove, FetchMove, FetchQueue, acquire
<1> QED
  BY <1>2, <1>3, <1>5, <1>6, PlainGoes

\* The digest of the remote file.
LEMMA FetchProbeMoves ==
  ASSUME Ready, NEW c \in Calls, FetchProbe(c), UNCHANGED upgradeVars
  PROVE  Move(c)
<1>1. IsFetch(c) /\ call[c].pc = "probe"
  BY DEF FetchProbe, At
<1>2. /\ TypeInv /\ ~ IsUpgrade(c) /\ requests[c].tool \notin TransferTools /\ NameMove(c)
      /\ Var(c) \in DOMAIN InitRemote
      /\ call \in [Calls -> CallStates] /\ call[c] \in CallStates
  BY <1>1, FetchFacts
<1>3. UNCHANGED <<requests, dirent, data, remote>> /\ StageMove(c)
  BY <1>2, StageKept DEF FetchProbe
<1> DEFINE probe == parse_checksum_output(remote[Var(c)])
<1>4. (probe.present <=> remote[Var(c)] # NoFile) /\ (remote[Var(c)] # NoFile => probe.sha = remote[Var(c)])
  BY Checksum
<1>5. \/ \E e \in Unusable(c) : Reply(c, e, FALSE)
      \/ /\ probe.present /\ permit' = permit
         /\ call' = [call EXCEPT ![c].pc = "check", ![c].seen = probe.sha]
      \/ Reply(c, "RemoteFileMissing", FALSE)
  BY Zenon DEF FetchProbe
<1> HIDE DEF probe
<1>6. ASSUME probe.present, permit' = permit,
             call' = [call EXCEPT ![c].pc = "check", ![c].seen = probe.sha]
      PROVE  Move(c)
  <2>1. PICK f \in Holds : f = remote[Var(c)] /\ f = probe.sha /\ f # NoFile
    BY <1>2, <1>4, <1>6 DEF TypeInv
  <2>2. call' = [call EXCEPT ![c] = [call[c] EXCEPT !.pc = "check", !.seen = f]]
    BY <1>2, <1>6, <2>1
  <2>3. [call[c] EXCEPT !.pc = "check", !.seen = f] \in CallStates
    BY <1>2, <2>1 DEF CallStates, PCs, HoldPCs
  <2>4. CallMove(c)
    BY <1>2, <1>3, <2>2, <2>3 DEF CallMove
  <2>5. call'[c].pc = "check" /\ call'[c].reply = call[c].reply
    BY <1>2, <2>2 DEF CallStates
  <2>6. PermitMove(c) /\ FetchMove(c)
    BY <1>1, <1>6, <2>1, <2>5 DEF PermitMove, FetchMove, HoldPCs
  <2> QED
    BY <1>2, <1>3, <2>4, <2>5, <2>6, PlainGoes
<1>7. ASSUME NEW code \in OwnCodes(c), Reply(c, code, FALSE) PROVE Move(c)
  <2>1. FALSE \in BOOLEAN
    OBVIOUS
  <2>2. Answers(c, OwnCodes(c))
    BY <1>7, <2>1, AnswersWith, Zenon
  <2> QED
    BY <1>1, <1>2, <1>3, <2>2, PlainEnds
<1>8. "RemoteFileMissing" \in OwnCodes(c) /\ Unusable(c) \subseteq OwnCodes(c)
  BY OwnCodeFacts DEF OtherCodes, Unusable
<1> QED
  BY <1>5, <1>6, <1>7, <1>8, Zenon

\* The local file, and what is left of an earlier fetch.
LEMMA FetchCheckMoves ==
  ASSUME Ready, NEW c \in Calls, FetchCheck(c), UNCHANGED upgradeVars
  PROVE  Move(c)
<1>1. IsFetch(c) /\ call[c].pc = "check"
  BY DEF FetchCheck, At
<1>2. /\ TypeInv /\ ~ IsUpgrade(c) /\ requests[c].tool \notin TransferTools /\ NameMove(c)
      /\ requests[c].local \in LocalNames /\ call \in [Calls -> CallStates]
  BY <1>1, FetchFacts
<1>3. UNCHANGED <<requests, data, remote>>
  BY DEF FetchCheck
<1>4. \/ Reply(c, "BadSourcePath", FALSE) /\ dirent' = dirent
      \/ Reply(c, "skipped", TRUE) /\ dirent' = dirent
      \/ Reply(c, "LocalDestExistsDiffers", FALSE) /\ dirent' = dirent
      \/ /\ dirent' = [dirent EXCEPT ![Partial(c)] = NoFile]
         /\ Goto(c, "scp") /\ permit' = permit
  BY Zenon DEF FetchCheck
<1>5. ASSUME dirent' = [dirent EXCEPT ![Partial(c)] = NoFile], Goto(c, "scp"), permit' = permit
      PROVE  Move(c)
  <2>1. "scp" \in PCs \ {"copy"}
    BY DEF PCs, HoldPCs
  <2>2. CallMove(c) /\ call'[c].pc = "scp" /\ call'[c].reply = call[c].reply
    BY <1>2, <1>3, <1>5, <2>1, GotoFacts DEF CallMove
  <2>3. PermitMove(c) /\ FetchMove(c)
    BY <1>1, <1>5, <2>2 DEF PermitMove, FetchMove, HoldPCs
  <2>4. StageMove(c)
    BY <1>2, <1>3, <1>5, PartialRemoved
  <2> QED
    BY <1>2, <1>3, <2>2, <2>3, <2>4, PlainGoes
<1>6. ASSUME Answers(c, OwnCodes(c)), dirent' = dirent PROVE Move(c)
  BY <1>1, <1>2, <1>3, <1>6, StageKept, PlainEnds
<1>7. /\ "BadSourcePath" \in OwnCodes(c) /\ "skipped" \in OwnCodes(c)
      /\ "LocalDestExistsDiffers" \in OwnCodes(c)
  BY OwnCodeFacts DEF OtherCodes
<1>8. ASSUME NEW code \in OwnCodes(c), Reply(c, code, FALSE) \/ Reply(c, code, TRUE)
      PROVE  Answers(c, OwnCodes(c))
  <2>1. FALSE \in BOOLEAN /\ TRUE \in BOOLEAN
    OBVIOUS
  <2> QED
    BY <1>8, <2>1, AnswersWith, Zenon
<1> QED
  BY <1>4, <1>5, <1>6, <1>7, <1>8, Zenon

\* scp opens the partial file.
LEMMA FetchScpStartMoves ==
  ASSUME Ready, NEW c \in Calls, FetchScpStart(c), UNCHANGED upgradeVars
  PROVE  Move(c)
<1>1. IsFetch(c) /\ call[c].pc = "scp"
  BY DEF FetchScpStart, At
<1>2. /\ TypeInv /\ ~ IsUpgrade(c) /\ requests[c].tool \notin TransferTools /\ NameMove(c)
      /\ requests[c].local \in LocalNames
      /\ call \in [Calls -> CallStates] /\ call[c] \in CallStates
  BY <1>1, FetchFacts
<1>3. UNCHANGED <<requests, permit, remote>>
  BY DEF FetchScpStart
<1>4. PICK i : i = IF dirent[Partial(c)] = NoFile THEN c ELSE dirent[Partial(c)]
  OBVIOUS
<1>5. /\ Partial(c) \in Entries /\ i \in Inodes
      /\ i # Symlink
  <2>1. c \in Inodes /\ c # Symlink
    BY UpgradeAssumption DEF Inodes
  <2>2. Partial(c) \in Entries /\ dirent[Partial(c)] \in Inodes \cup {NoFile}
    BY <1>2, FetchEntries
  <2>3. dirent[Partial(c)] # Symlink
    BY <1>2 DEF Partial, TypeInv
  <2> QED
    BY <1>4, <2>1, <2>2, <2>3
<1>6. /\ dirent' = [dirent EXCEPT ![Partial(c)] = i]
      /\ data' = [data EXCEPT ![i] = Cut]
      /\ call' = [call EXCEPT ![c].pc = "copy", ![c].inode = i]
  BY <1>4 DEF FetchScpStart
<1>7. call' = [call EXCEPT ![c] = [call[c] EXCEPT !.pc = "copy", !.inode = i]]
  BY <1>2, <1>6
<1>8. [call[c] EXCEPT !.pc = "copy", !.inode = i] \in CallStates
  BY <1>2, <1>5 DEF CallStates, PCs, HoldPCs
<1>9. CallMove(c)
  BY <1>2, <1>3, <1>7, <1>8 DEF CallMove
<1>10. call'[c].pc = "copy" /\ call'[c].reply = call[c].reply
  BY <1>2, <1>7 DEF CallStates
<1>11. PermitMove(c) /\ FetchMove(c)
  BY <1>1, <1>3, <1>10 DEF PermitMove, FetchMove, HoldPCs
<1>12. StageMove(c)
  <2>1. dirent' \in [Entries -> Inodes \cup {NoFile, Symlink}]
    BY <1>2, <1>5, <1>6 DEF TypeInv
  <2>2. \A n \in LocalNames : <<n, "partial">> \in Entries
    BY DEF Entries
  <2>3. \A n \in LocalNames : dirent'[<<n, "partial">>] # Symlink
    BY <1>2, <1>5, <1>6, <2>2 DEF TypeInv
  <2>4. Cut \in Holds \ {NoFile}
    BY Markers DEF Holds
  <2>5. data' \in [Inodes -> Holds \ {NoFile}]
    BY <1>2, <1>5, <1>6, <2>4 DEF TypeInv
  <2> QED
    BY <2>1, <2>3, <2>5 DEF StageMove
<1> QED
  BY <1>2, <1>3, <1>9, <1>10, <1>11, <1>12, PlainGoes

\* The download ends.
LEMMA FetchScpRunMoves ==
  ASSUME Ready, NEW c \in Calls, FetchScpRun(c), UNCHANGED upgradeVars
  PROVE  Move(c)
<1>1. IsFetch(c) /\ call[c].pc = "copy"
  BY DEF FetchScpRun, At
<1>2. /\ TypeInv /\ ~ IsUpgrade(c) /\ requests[c].tool \notin TransferTools /\ NameMove(c)
      /\ requests[c].local \in LocalNames /\ Var(c) \in DOMAIN InitRemote
      /\ call \in [Calls -> CallStates] /\ call[c] \in CallStates
  BY <1>1, FetchFacts
<1>3. UNCHANGED <<requests, remote>>
  BY DEF FetchScpRun
<1>4. ASSUME data' = [data EXCEPT ![call[c].inode] = remote[Var(c)]], Goto(c, "hash"),
             UNCHANGED <<permit, dirent>>
      PROVE  Move(c)
  <2>1. "hash" \in PCs \ {"copy"}
    BY DEF PCs, HoldPCs
  <2>2. CallMove(c) /\ call'[c].pc = "hash" /\ call'[c].reply = call[c].reply
    BY <1>2, <1>3, <1>4, <2>1, GotoFacts DEF CallMove
  <2>3. PermitMove(c) /\ FetchMove(c)
    BY <1>1, <1>4, <2>2 DEF PermitMove, FetchMove, HoldPCs
  <2>4. remote[Var(c)] \in Holds \ {NoFile}
    BY <1>1, <1>2 DEF Ready, FetchedInv, TypeInv
  <2>5. call[c].inode \in Inodes
    BY <1>1, <1>2 DEF CallStates
  <2>6. StageMove(c)
    BY <1>2, <1>4, <2>4, <2>5 DEF StageMove, TypeInv
  <2> QED
    BY <1>2, <1>3, <2>2, <2>3, <2>6, PlainGoes
<1>5. ASSUME NEW err \in ScpErrors, Reply(c, ScpFailure(err), FALSE),
             dirent' = [dirent EXCEPT ![Partial(c)] = NoFile], data' = data
      PROVE  Move(c)
  <2>1. ScpFailure(err) \in OwnCodes(c) /\ FALSE \in BOOLEAN
    BY ScpFailureText, OwnCodeFacts
  <2>2. Answers(c, OwnCodes(c))
    BY <1>5, <2>1, AnswersWith, Zenon
  <2>3. StageMove(c)
    BY <1>2, <1>5, PartialRemoved
  <2> QED
    BY <1>1, <1>2, <1>3, <2>2, <2>3, PlainEnds
<1> QED
  BY <1>4, <1>5, Zenon DEF FetchScpRun

\* The digest of the partial file.
LEMMA FetchHashMoves ==
  ASSUME Ready, NEW c \in Calls, FetchHash(c), UNCHANGED upgradeVars
  PROVE  Move(c)
<1>1. IsFetch(c) /\ call[c].pc = "hash"
  BY DEF FetchHash, At
<1>2. /\ TypeInv /\ ~ IsUpgrade(c) /\ requests[c].tool \notin TransferTools /\ NameMove(c)
      /\ requests[c].local \in LocalNames
      /\ call \in [Calls -> CallStates] /\ call[c] \in CallStates
  BY <1>1, FetchFacts
<1>3. UNCHANGED <<requests, data, remote>>
  BY DEF FetchHash
<1> DEFINE post == IF dirent[Partial(c)] = NoFile THEN NoFile ELSE data[dirent[Partial(c)]]
<1>4. \/ Reply(c, "Io", FALSE) /\ dirent' = dirent
      \/ /\ Reply(c, "FetchVerifyMismatch", FALSE)
         /\ dirent' = [dirent EXCEPT ![Partial(c)] = NoFile]
      \/ /\ call' = [call EXCEPT ![c].pc = "rename", ![c].local = post,
                                 ![c].verified = (post = call[c].seen)]
         /\ UNCHANGED <<permit, dirent>>
  BY Zenon DEF FetchHash
<1>5. post \in Holds
  BY <1>2, FetchEntries DEF TypeInv, Holds
<1> HIDE DEF post
<1>6. ASSUME call' = [call EXCEPT ![c].pc = "rename", ![c].local = post,
                                 ![c].verified = (post = call[c].seen)],
             UNCHANGED <<permit, dirent>>
      PROVE  Move(c)
  <2>1. PICK v \in BOOLEAN : v = (post = call[c].seen)
    OBVIOUS
  <2>2. call' = [call EXCEPT ![c] = [call[c] EXCEPT !.pc = "rename", !.local = post, !.verified = v]]
    BY <1>2, <1>6, <2>1
  <2>3. [call[c] EXCEPT !.pc = "rename", !.local = post, !.verified = v] \in CallStates
    BY <1>2, <1>5, <2>1 DEF CallStates, PCs, HoldPCs
  <2>4. CallMove(c)
    BY <1>2, <1>3, <2>2, <2>3 DEF CallMove
  <2>5. call'[c].pc = "rename" /\ call'[c].reply = call[c].reply
    BY <1>2, <2>2 DEF CallStates
  <2>6. PermitMove(c) /\ FetchMove(c)
    BY <1>1, <1>6, <2>5 DEF PermitMove, FetchMove, HoldPCs
  <2>7. StageMove(c)
    BY <1>2, <1>3, <1>6, StageKept
  <2> QED
    BY <1>2, <1>3, <2>4, <2>5, <2>6, <2>7, PlainGoes
<1>7. ASSUME NEW code \in OwnCodes(c), Reply(c, code, FALSE) PROVE Answers(c, OwnCodes(c))
  <2>1. FALSE \in BOOLEAN
    OBVIOUS
  <2> QED
    BY <1>7, <2>1, AnswersWith, Zenon
<1>8. "Io" \in OwnCodes(c) /\ "FetchVerifyMismatch" \in OwnCodes(c)
  BY OwnCodeFacts DEF OtherCodes
<1>9. ASSUME Answers(c, OwnCodes(c)), dirent' \in {dirent, [dirent EXCEPT ![Partial(c)] = NoFile]}
      PROVE  Move(c)
  <2>1. StageMove(c)
    BY <1>2, <1>3, <1>9, StageKept, PartialRemoved
  <2> QED
    BY <1>1, <1>2, <1>3, <1>9, <2>1, PlainEnds
<1>10. CASE Reply(c, "Io", FALSE) /\ dirent' = dirent
  <2>1. Answers(c, OwnCodes(c))
    BY <1>7, <1>8, <1>10, Zenon
  <2> QED
    BY <1>9, <1>10, <2>1
<1>11. CASE Reply(c, "FetchVerifyMismatch", FALSE) /\ dirent' = [dirent EXCEPT ![Partial(c)] = NoFile]
  <2>1. Answers(c, OwnCodes(c))
    BY <1>7, <1>8, <1>11, Zenon
  <2> QED
    BY <1>9, <1>11, <2>1
<1> QED
  BY <1>4, <1>6, <1>10, <1>11, Zenon

\* The partial file gets its name.
LEMMA FetchRenameMoves ==
  ASSUME Ready, NEW c \in Calls, FetchRename(c), UNCHANGED upgradeVars
  PROVE  Move(c)
<1>1. IsFetch(c) /\ call[c].pc = "rename"
  BY DEF FetchRename, At
<1>2. /\ TypeInv /\ ~ IsUpgrade(c) /\ requests[c].local \in LocalNames /\ call[c] \in CallStates
  BY <1>1, FetchFacts
<1>3. UNCHANGED <<requests, data, remote>>
  BY DEF FetchRename
<1>4. PICK v \in BOOLEAN : v = call[c].verified
  BY <1>2 DEF CallStates
<1>5. ASSUME NEW code \in OwnCodes(c), Reply(c, code, FALSE) PROVE Answers(c, OwnCodes(c))
  <2>1. FALSE \in BOOLEAN
    OBVIOUS
  <2> QED
    BY <1>5, <2>1, AnswersWith, Zenon
<1>6. "Io" \in OwnCodes(c) /\ "fetched" \in OwnCodes(c)
  BY <1>1 DEF OtherCodes, OwnCodes
<1>7. CASE dirent[Partial(c)] = NoFile
  <2>1. Reply(c, "Io", FALSE) /\ dirent' = dirent
    BY <1>7, Zenon DEF FetchRename
  <2>2. Answers(c, OwnCodes(c))
    BY <1>5, <1>6, <2>1, Zenon
  <2>3. StageMove(c)
    BY <1>2, <1>3, <2>1, StageKept
  <2> QED
    BY <1>1, <1>2, <1>3, <2>2, <2>3, PlainEnds
<1>8. CASE dirent[Partial(c)] # NoFile
  <2>1. /\ dirent' = [dirent EXCEPT ![File(c)] = dirent[Partial(c)], ![Partial(c)] = NoFile]
        /\ Reply(c, "fetched", v)
    BY <1>4, <1>8 DEF FetchRename
  <2>2. Answers(c, OwnCodes(c))
    BY <1>6, <2>1, AnswersWith
  <2>3. /\ File(c) \in Entries /\ Partial(c) \in Entries /\ dirent[Partial(c)] \in Inodes
        /\ \A n \in LocalNames : File(c) # <<n, "partial">>
    BY <1>2, <1>8, FetchEntries
  <2>4. dirent' \in [Entries -> Inodes \cup {NoFile, Symlink}]
    BY <1>2, <2>1, <2>3 DEF TypeInv
  <2>5. NoFile # Symlink /\ \A n \in LocalNames : <<n, "partial">> \in Entries
    BY DEF NoFile, Symlink, Entries
  <2>6. \A n \in LocalNames : dirent'[<<n, "partial">>] # Symlink
    BY <1>2, <2>1, <2>3, <2>5 DEF TypeInv
  <2>7. StageMove(c)
    BY <1>2, <1>3, <2>4, <2>6 DEF StageMove, TypeInv
  <2> QED
    BY <1>1, <1>2, <1>3, <2>2, <2>7, PlainEnds
<1> QED
  BY <1>7, <1>8

\* The two passes of a listing.
LEMMA ListMoves ==
  ASSUME Ready, NEW c \in Calls, ListStep(c), UNCHANGED upgradeVars
  PROVE  Move(c)
<1>1. /\ TypeInv /\ ~ IsUpgrade(c) /\ requests[c].tool \notin TransferTools
      /\ requests[c].tool \notin FileTools /\ ~ IsFetch(c)
      /\ call[c].pc \in {"start", "listing"} /\ call[c] \in CallStates
  BY DEF ListStep, ListStart, ListHash, At, Ready, IsUpgrade, IsFetch, FileTools, TransferTools,
         TypeInv
<1>2. UNCHANGED <<requests, dirent, data, remote>> /\ StageMove(c)
  BY <1>1, StageKept DEF ListStep, ListStart, ListHash
<1>3. ASSUME ListStart(c) PROVE Move(c)
  <2>1. PICK l \in SUBSET Entries : l = read_staging_dir(dirent)
    <3>1. DOMAIN dirent = Entries
      BY <1>1 DEF TypeInv
    <3> QED
      BY <3>1 DEF read_staging_dir
  <2>2. call' = [call EXCEPT ![c] = [call[c] EXCEPT !.pc = "listing", !.listed = l]]
    BY <1>1, <1>3, <2>1 DEF ListStart, TypeInv
  <2>3. [call[c] EXCEPT !.pc = "listing", !.listed = l] \in CallStates
    BY <1>1, <2>1 DEF CallStates, PCs
  <2>4. CallMove(c)
    BY <1>1, <1>2, <2>2, <2>3 DEF CallMove, TypeInv
  <2>5. call'[c].pc = "listing" /\ call'[c].reply = call[c].reply
    BY <1>1, <2>2 DEF CallStates, TypeInv
  <2>6. PermitMove(c) /\ FetchMove(c) /\ NameMove(c)
    BY <1>1, <1>3, <2>5 DEF PermitMove, FetchMove, NameMove, HoldPCs, ListStart
  <2> QED
    BY <1>1, <1>2, <2>4, <2>5, <2>6, PlainGoes
<1>4. ASSUME ListHash(c) PROVE Move(c)
  <2>1. "Io" \in OwnCodes(c) /\ "listed" \in OwnCodes(c) /\ FALSE \in BOOLEAN
    BY OwnCodeFacts DEF OtherCodes
  <2>2. Reply(c, "Io", FALSE) \/ Reply(c, "listed", FALSE)
    BY <1>4, Zenon DEF ListHash
  <2>3. Answers(c, OwnCodes(c))
    BY <2>1, <2>2, AnswersWith, Zenon
  <2> QED
    BY <1>1, <1>2, <2>3, PlainEnds
<1> QED
  BY <1>3, <1>4 DEF ListStep

\* A timeout or a cancellation of a call that is no upgrade.
LEMMA AbortMoves ==
  ASSUME Ready, NEW c \in Calls, Abort(c), UNCHANGED upgradeVars
  PROVE  Move(c)
<1>1. /\ TypeInv /\ ~ IsUpgrade(c) /\ call[c].pc # "done" /\ call[c].pc \in TransferPCs \ {"rename"}
  BY DEF Abort, Ready, IsUpgrade, TransferPCs
<1>2. UNCHANGED <<requests, data, remote>>
  BY DEF Abort
<1>3. "Timeout" \in OwnCodes(c) /\ "Cancelled" \in OwnCodes(c) /\ FALSE \in BOOLEAN
  BY OwnCodeFacts DEF OtherCodes, ScpCodes
<1>4. Reply(c, "Timeout", FALSE) \/ Reply(c, "Cancelled", FALSE)
  BY Zenon DEF Abort
<1>5. Answers(c, OwnCodes(c))
  BY <1>3, <1>4, AnswersWith, Zenon
<1>6. \/ dirent' = dirent
      \/ IsFetch(c) /\ call[c].pc = "copy" /\ dirent' = [dirent EXCEPT ![Partial(c)] = NoFile]
  BY DEF Abort, At
<1>7. StageMove(c)
  BY <1>1, <1>2, <1>6, StageKept, PartialRemoved, FetchFacts
<1> QED
  BY <1>1, <1>2, <1>5, <1>7, PlainEnds

\* Every step of a call.
CallStep(c) == Step(c) \/ (Abort(c) /\ UNCHANGED upgradeVars) \/ UpgradeAbort(c)

\* Every step of a call is a Move of it.
LEMMA CallStepMoves ==
  ASSUME Ready, NEW c \in Calls, CallStep(c)
  PROVE  Move(c)
<1>1. CASE UpgradeStep(c)
  BY <1>1, UpgradeStartMoves, FirstPreflightMoves, AcquireMoves, LockedPreflightMoves,
     UpgradeTransferMoves, InstallMoves, WaitMoves, PostMoves DEF UpgradeStep
<1>2. CASE PlainStep(c)
  BY <1>2, PlainTransferMoves, FetchStartMoves, FetchQueueMoves, FetchProbeMoves, FetchCheckMoves,
     FetchScpStartMoves, FetchScpRunMoves, FetchHashMoves, FetchRenameMoves, ListMoves
     DEF PlainStep, FetchStep
<1> QED
  BY <1>1, <1>2, AbortMoves, UpgradeAbortMoves DEF CallStep, Step

-----------------------------------------------------------------------------
(* The invariant is kept by every step of a call.                          *)

\* Types and names.
LEMMA MoveKeepsTypes ==
  ASSUME Inv, NEW c \in Calls, Move(c)
  PROVE  TypeInv' /\ NamesInv'
<1>1. /\ TypeInv /\ NamesInv /\ CallMove(c) /\ Router(c) \in Routers
      /\ call'[c] \in CallStates
  BY RequestFacts DEF Inv, Move, CallMove
<1>2. permit' \in [Routers -> Calls \cup {NoOne}]
  BY <1>1 DEF Move, PermitMove, Unpermitted, TypeInv
<1>3. lease' \in [Routers -> Calls \cup {NoOne}]
  BY <1>1 DEF Move, LeaseMove, Unleased, TypeInv
<1>4. remote' \in [DOMAIN InitRemote -> Holds]
  BY <1>1 DEF Move, RemoteMove, TypeInv
<1>5. installing' \in [Routers -> Holds]
  <2>1. CASE installing' = installing
    BY <1>1, <2>1 DEF TypeInv
  <2>2. CASE installing' # installing
    <3>1. /\ IsUpgrade(c) /\ call[c].pc = "install"
          /\ installing' = [installing EXCEPT ![Router(c)] = remote[Var(c)]]
      BY <2>2 DEF Move, SentMove
    <3>2. Var(c) \in DOMAIN InitRemote
      BY <1>1, <3>1 DEF NamesInv, IsUpgrade, FileTools, TransferTools
    <3> QED
      BY <1>1, <3>1, <3>2 DEF TypeInv
  <2> QED
    BY <2>1, <2>2
<1>6. /\ version' \in [Routers -> Versions \cup {Nothing}]
      /\ window' \in [Routers -> {"none", "open", "unreadable"}]
      /\ up' \in [Calls -> UpStates] /\ abandoned' \subseteq Routers
  BY <1>1 DEF Move, SentMove, TypeInv
<1>7. TypeInv'
  BY <1>1, <1>2, <1>3, <1>4, <1>5, <1>6 DEF TypeInv, Move, StageMove, CallMove, Entries, LocalNames
<1>8. NamesInv'
  BY <1>1 DEF NamesInv, Move, NameMove, CallMove, Var, Router
<1> QED
  BY <1>7, <1>8

\* The permit and the lease.
LEMMA MoveKeepsLocks ==
  ASSUME Inv, NEW c \in Calls, Move(c)
  PROVE  PermitInv' /\ LeaseInv'
<1>1. /\ TypeInv /\ CallMove(c) /\ c # NoOne
      /\ \A d \in Calls : Router(d) \in Routers /\ d # NoOne
  BY RequestFacts, UpgradeAssumption DEF Inv, Move
<1>2. ASSUME NEW d \in Calls, call'[d].pc \in HoldPCs
      PROVE  permit'[Router(d)] = d
  <2>1. CASE d = c
    BY <1>1, <1>2, <2>1 DEF Inv, PermitInv, Move, PermitMove, Unpermitted, TypeInv
  <2>2. CASE d # c
    <3>1. permit[Router(d)] = d
      BY <1>1, <1>2, <2>2 DEF Inv, PermitInv, CallMove
    <3> QED
      BY <1>1, <2>2, <3>1 DEF Move, PermitMove, Unpermitted, TypeInv
  <2> QED
    BY <2>1, <2>2
<1>3. ASSUME NEW d \in Calls, IsUpgrade(d), call'[d].pc \in Leased
      PROVE  lease'[Router(d)] = d
  <2>1. CASE d = c
    BY <1>1, <1>3, <2>1 DEF Inv, LeaseInv, Upgrades, Move, LeaseMove, Unleased, TypeInv
  <2>2. CASE d # c
    <3>1. lease[Router(d)] = d
      BY <1>1, <1>3, <2>2 DEF Inv, LeaseInv, Upgrades, CallMove
    <3> QED
      BY <1>1, <2>2, <3>1 DEF Move, LeaseMove, Unleased, TypeInv
  <2> QED
    BY <2>1, <2>2
<1> QED
  BY <1>1, <1>2, <1>3 DEF PermitInv, LeaseInv, Upgrades, IsUpgrade, Router, CallMove

\* Two calls of one router do not both hold its permit.
LEMMA PermitExcludes ==
  ASSUME Inv, NEW c \in Calls, NEW d \in Calls, Router(c) = Router(d),
         call[c].pc \in HoldPCs, call[d].pc \in HoldPCs
  PROVE  c = d
BY DEF Inv, PermitInv

\* Nor is its lease two upgrades'.
LEMMA LeaseExcludes ==
  ASSUME Inv, NEW c \in Upgrades, NEW d \in Upgrades, Router(c) = Router(d),
         call[c].pc \in Leased, call[d].pc \in Leased
  PROVE  c = d
BY DEF Inv, LeaseInv

\* What is fetched stays; what is hashed is hashed once.
LEMMA MoveKeepsFiles ==
  ASSUME Inv, NEW c \in Calls, Move(c)
  PROVE  FetchedInv' /\ HashInv'
<1>1. CallMove(c)
  BY DEF Move
<1>2. ASSUME NEW d \in Calls, IsFetch(d), call'[d].pc \in {"check", "scp", "copy"}
      PROVE  remote'[Var(d)] # NoFile
  <2>1. CASE d = c
    <3>1. remote' = remote
      BY <1>2, <2>1 DEF Move, RemoteMove, IsFetch, TransferTools
    <3> QED
      BY <1>2, <2>1, <3>1 DEF Move, FetchMove, Inv, FetchedInv
  <2>2. CASE d # c
    <3>1. call'[d] = call[d] /\ remote[Var(d)] # NoFile
      BY <1>1, <1>2, <2>2 DEF CallMove, Inv, FetchedInv
    <3>2. CASE remote' # remote
      <4>1. call[c].pc \in HoldPCs /\ \E f \in Holds : remote' = [remote EXCEPT ![Var(c)] = f]
        BY <3>2 DEF Move, RemoteMove, HoldPCs
      <4>2. call[d].pc \in HoldPCs
        BY <1>2, <3>1 DEF HoldPCs
      <4>3. Var(c) # Var(d)
        BY <2>2, <4>1, <4>2, PermitExcludes DEF Var
      <4> QED
        BY <3>1, <4>1, <4>3
    <3> QED
      BY <3>1, <3>2
  <2> QED
    BY <2>1, <2>2
<1>3. ASSUME NEW d \in Calls, requests[d].tool \in TransferTools, call'[d].pc # "done"
      PROVE  call'[d].local = NoFile <=> call'[d].pc \in Unhashed
  <2>1. CASE d = c
    BY <1>3, <2>1 DEF Move, LocalMove, Inv, HashInv, Unhashed
  <2>2. CASE d # c
    BY <1>1, <1>3, <2>2 DEF CallMove, Inv, HashInv
  <2> QED
    BY <2>1, <2>2
<1> QED
  BY <1>1, <1>2, <1>3 DEF FetchedInv, HashInv, CallMove, IsFetch, Var, Router

\* A digest that was read is kept, and with it what OtherContent says.
LEMMA OtherContentStays ==
  ASSUME Inv, NEW c \in Calls, Move(c), NEW d \in Upgrades, OtherContent(d),
         call[d].local # NoFile
  PROVE  OtherContent(d)'
<1>1. CallMove(c)
  BY DEF Move
<1>2. \A e \in Calls : requests[e].tool \in TransferTools /\ call[e].local # NoFile =>
          call'[e].local = call[e].local
  BY <1>1 DEF CallMove, Move, LocalMove, Inv, HashInv, Unhashed
<1>3. d \in Calls /\ requests[d].tool \in TransferTools
  BY DEF Upgrades, IsUpgrade, TransferTools
<1>4. PICK e \in Calls \ {d} : /\ requests[e].tool \in TransferTools
                               /\ Var(e) = Var(d)
                               /\ call[e].local \notin {NoFile, call[d].local}
  BY DEF OtherContent
<1>5. call'[d].local = call[d].local /\ call'[e].local = call[e].local
  BY <1>2, <1>3, <1>4
<1> QED
  BY <1>1, <1>4, <1>5 DEF OtherContent, CallMove, Var, Router

\* An upgrade about to install keeps its copy, or another file is being sent there.
LEMMA MoveKeepsCopy ==
  ASSUME Inv, NEW c \in Calls, Move(c), NEW d \in Upgrades, d # c, call[d].pc = "install",
         OtherContent(d) \/ Untouched(d)
  PROVE  OtherContent(d)' \/ Untouched(d)'
<1>1. CallMove(c) /\ d \in Calls /\ call'[d] = call[d]
  BY DEF Move, CallMove, Upgrades
<1>2. call[d].local # NoFile
  BY <1>1 DEF Inv, HashInv, Upgrades, IsUpgrade, TransferTools, Unhashed
<1>3. CASE OtherContent(d)
  BY <1>2, <1>3, OtherContentStays
<1>4. CASE Untouched(d) /\ requests[c].tool \in TransferTools /\ Var(c) = Var(d)
  <2>1. call[c].pc \notin Copying /\ remote[Var(d)] = call[d].local
    BY <1>1, <1>4 DEF Untouched
  <2>2. remote' = remote
    BY <2>1 DEF Move, RemoteMove, Copying
  <2>3. CASE call'[c].pc \in Copying
    <3>1. call[c].pc = "probe" /\ remote[Var(c)] # call[c].local
      BY <1>4, <2>1, <2>3 DEF Move, RemoteMove
    <3>2. call[c].local # NoFile
      BY <1>4, <3>1 DEF Inv, HashInv, Unhashed
    <3>3. OtherContent(d)
      BY <1>1, <1>4, <2>1, <3>1, <3>2 DEF OtherContent
    <3> QED
      BY <1>2, <3>3, OtherContentStays
  <2>4. CASE call'[c].pc \notin Copying
    BY <1>1, <1>4, <2>1, <2>2, <2>4 DEF Untouched, CallMove, Var, Router
  <2> QED
    BY <2>3, <2>4
<1>5. CASE Untouched(d) /\ ~ (requests[c].tool \in TransferTools /\ Var(c) = Var(d))
  <2>1. remote'[Var(d)] = remote[Var(d)]
    <3>1. Var(d) \in DOMAIN InitRemote /\ remote \in [DOMAIN InitRemote -> Holds]
      BY <1>1 DEF Inv, NamesInv, TypeInv, Upgrades, IsUpgrade, FileTools, TransferTools
    <3>2. \/ remote' = remote
          \/ Var(c) # Var(d) /\ \E f \in Holds : remote' = [remote EXCEPT ![Var(c)] = f]
      BY <1>5 DEF Move, RemoteMove
    <3> QED
      BY <3>1, <3>2
  <2> QED
    BY <1>1, <1>5, <2>1 DEF Untouched, CallMove, Var, Router
<1> QED
  BY <1>3, <1>4, <1>5

\* An upgrade gets to its install with a verified copy that nobody replaces.
LEMMA VerifiedCopy ==
  ASSUME Inv, NEW c \in Upgrades, Move(c), call'[c].pc = "install"
  PROVE  call'[c].verified /\ Untouched(c)'
<1>1. CallMove(c) /\ c \in Calls /\ requests[c].tool \in TransferTools
  BY DEF Move, Upgrades, IsUpgrade, TransferTools
<1>2. /\ call'[c].verified /\ call[c].pc \in {"probe", "verify"} /\ remote' = remote
      /\ remote[Var(c)] = call[c].local
  BY DEF Move, InstallMove
<1>3. call'[c].local = call[c].local
  BY <1>1, <1>2 DEF Move, LocalMove
<1>4. ASSUME NEW d \in Calls \ {c}, requests[d].tool \in TransferTools, Var(d) = Var(c)
      PROVE  call'[d].pc \notin Copying
  <2>1. call'[d] = call[d]
    BY <1>1, <1>4 DEF CallMove
  <2>2. call[c].pc \in HoldPCs
    BY <1>2 DEF HoldPCs
  <2>3. Router(d) = Router(c)
    BY <1>4 DEF Var
  <2>4. call[d].pc \notin HoldPCs
    BY <1>1, <1>4, <2>2, <2>3, PermitExcludes
  <2> QED
    BY <2>1, <2>4 DEF HoldPCs, Copying
<1>5. Var(c)' = Var(c) /\ \A d \in Calls : requests'[d].tool = requests[d].tool /\ Var(d)' = Var(d)
  BY <1>1 DEF CallMove, Var, Router
<1>6. remote'[Var(c)'] = call'[c].local
  BY <1>2, <1>3, <1>5
<1> QED
  BY <1>2, <1>4, <1>5, <1>6 DEF Untouched

\* What an upgrade may install, and has installed, is its image.
LEMMA MoveKeepsImage ==
  ASSUME Inv, NEW c \in Calls, Move(c)
  PROVE  ImageInv'
<1>1. /\ CallMove(c) /\ \A d \in Calls \ {c} : up'[d] = up[d]
      /\ Upgrades' = Upgrades
  BY DEF Move, SentMove, CallMove, Upgrades, IsUpgrade
<1>2. ASSUME NEW d \in Upgrades
      PROVE  d \in Calls /\ IsUpgrade(d) /\ requests[d].tool \in TransferTools
  BY DEF Upgrades, IsUpgrade, TransferTools
<1>3. ASSUME NEW d \in Upgrades, call'[d].pc = "install"
      PROVE  call'[d].verified /\ (OtherContent(d)' \/ Untouched(d)')
  <2>1. CASE d = c
    BY <1>3, <2>1, VerifiedCopy
  <2>2. CASE d # c
    <3>1. call'[d] = call[d]
      BY <1>1, <1>2, <2>2 DEF CallMove
    <3>2. call[d].verified /\ (OtherContent(d) \/ Untouched(d))
      BY <1>3, <3>1 DEF Inv, ImageInv
    <3> QED
      BY <1>3, <2>2, <3>1, <3>2, MoveKeepsCopy
  <2> QED
    BY <2>1, <2>2
<1>4. ASSUME NEW d \in Upgrades, call'[d].pc \in Unhashed \cup Deciding
      PROVE  up'[d].sent = NoFile
  <2>1. CASE d = c
    <3>1. call[c].pc \in Unhashed \cup (Deciding \ {"install"})
      BY <1>2, <1>4, <2>1 DEF Move, PhaseMove
    <3>2. up[c].sent = NoFile /\ call[c].pc # "install"
      BY <2>1, <3>1 DEF Inv, ImageInv, Unhashed
    <3> QED
      BY <2>1, <3>2 DEF Move, SentMove
  <2>2. CASE d # c
    BY <1>1, <1>2, <1>4, <2>2 DEF CallMove, Inv, ImageInv
  <2> QED
    BY <2>1, <2>2
<1>5. ASSUME NEW d \in Upgrades, call'[d].pc \in {"wait", "post"}
      PROVE  up'[d].sent \in {NoFile, call'[d].local} \/ OtherContent(d)'
  <2>1. /\ call[d].pc \in {"install", "wait", "post"}
        /\ call[d].pc = "install" => d = c
    BY <1>1, <1>2, <1>5 DEF CallMove, Move, PhaseMove
  <2>2. call[d].local # NoFile
    BY <1>2, <2>1 DEF Inv, HashInv, Unhashed
  <2>3. call'[d].local = call[d].local
    BY <1>1, <1>2, <2>1 DEF CallMove, Move, LocalMove
  <2>4. OtherContent(d) => OtherContent(d)'
    BY <2>2, OtherContentStays
  <2>5. CASE call[d].pc = "install"
    <3>1. up[d].sent = NoFile /\ (OtherContent(d) \/ remote[Var(d)] = call[d].local)
      BY <2>5 DEF Inv, ImageInv, Untouched, Deciding, Leased
    <3>2. up'[d].sent \in {up[d].sent, remote[Var(d)]}
      BY <2>1, <2>5 DEF Move, SentMove
    <3> QED
      BY <2>3, <2>4, <3>1, <3>2
  <2>6. CASE call[d].pc # "install"
    <3>1. up'[d].sent = up[d].sent
      BY <1>1, <1>2, <2>6 DEF Move, SentMove
    <3> QED
      BY <2>1, <2>3, <2>4, <2>6, <3>1 DEF Inv, ImageInv
  <2> QED
    BY <2>5, <2>6
<1> QED
  BY <1>1, <1>3, <1>4, <1>5 DEF ImageInv

\* An install under way has an upgrade that waits for it; the version says how far one is.
LEMMA MoveKeepsVersion ==
  ASSUME Inv, NEW c \in Calls, Move(c)
  PROVE  VersionInv'
<1>1. /\ CallMove(c) /\ \A d \in Calls \ {c} : up'[d] = up[d] /\ call'[d] = call[d]
      /\ version' = version /\ abandoned \subseteq abandoned' /\ Upgrades' = Upgrades
      /\ \A d : Router(d)' = Router(d) /\ requests'[d] = requests[d]
  BY DEF Move, SentMove, CallMove, Upgrades, IsUpgrade, Router
<1>2. ASSUME NEW d \in Upgrades PROVE d \in Calls /\ IsUpgrade(d)
  BY DEF Upgrades
<1>3. installing \in [Routers -> Holds] /\ \A d \in Calls : Router(d) \in Routers
  BY RequestFacts DEF Inv, TypeInv
<1>4. ASSUME NEW r \in Routers, installing'[r] # NoFile, r \notin abandoned'
      PROVE  \E u \in Upgrades : /\ Router(u) = r /\ call'[u].pc = "wait"
                                 /\ version[r] # requests[u].target
                                 /\ up'[u].sent # NoFile
  <2>1. CASE installing'[r] = installing[r]
    <3>1. PICK u \in Upgrades : /\ Router(u) = r /\ call[u].pc = "wait"
                                /\ version[r] # requests[u].target
                                /\ up[u].sent # NoFile
      BY <1>1, <1>4, <2>1 DEF Inv, VersionInv
    <3>2. CASE u = c
      <4>1. call'[c].pc = "wait"
        BY <1>2, <1>4, <3>1, <3>2 DEF Move, PhaseMove
      <4>2. up'[c].sent = up[c].sent
        BY <3>1, <3>2 DEF Move, SentMove
      <4> QED
        BY <3>1, <3>2, <4>1, <4>2
    <3>3. CASE u # c
      BY <1>1, <1>2, <3>1, <3>3
    <3> QED
      BY <3>2, <3>3
  <2>2. CASE installing'[r] # installing[r]
    <3>1. /\ IsUpgrade(c) /\ call[c].pc = "install" /\ remote[Var(c)] # NoFile
          /\ installing' = [installing EXCEPT ![Router(c)] = remote[Var(c)]]
          /\ up'[c].sent = remote[Var(c)]
          /\ call'[c].pc = "wait" \/ Router(c) \in abandoned'
      BY <2>2 DEF Move, SentMove
    <3>2. Router(c) = r /\ c \in Upgrades
      BY <1>3, <2>2, <3>1 DEF Upgrades
    <3>3. version[r] # requests[c].target
      BY <1>1, <1>4, <3>1, <3>2 DEF Inv, VersionInv, Deciding, Leased
    <3> QED
      BY <1>4, <3>1, <3>2, <3>3
  <2> QED
    BY <2>1, <2>2
<1>5. ASSUME NEW d \in Upgrades, Router(d) \notin abandoned'
      PROVE  /\ call'[d].pc \in Deciding => version[Router(d)] # requests[d].target
             /\ call'[d].pc = "wait" /\ up'[d].sent = NoFile =>
                   version[Router(d)] # requests[d].target
             /\ call'[d].pc = "post" =>
                   version[Router(d)] = requests[d].target /\ up'[d].sent # NoFile
  <2>1. CASE d # c
    BY <1>1, <1>2, <1>5, <2>1 DEF Inv, VersionInv
  <2>2. CASE d = c
    <3>1. /\ call[c].pc \in Deciding => version[Router(c)] # requests[c].target
          /\ call[c].pc = "wait" /\ up[c].sent = NoFile => version[Router(c)] # requests[c].target
      BY <1>1, <1>5, <2>2 DEF Inv, VersionInv
    <3>2. call'[c].pc \in Deciding => version[Router(c)] # requests[c].target
      BY <1>2, <2>2, <3>1 DEF Move, PhaseMove
    <3>3. call[c].pc = "wait" => up'[c].sent = up[c].sent
      BY DEF Move, SentMove
    <3>4. "install" \in Deciding
      BY DEF Deciding, Leased
    <3>5. call'[c].pc = "wait" /\ up'[c].sent = NoFile => version[Router(c)] # requests[c].target
      BY <1>2, <2>2, <3>1, <3>3, <3>4 DEF Move, PhaseMove
    <3>6. call'[c].pc = "post" => version[Router(c)] = requests[c].target /\ up'[c].sent # NoFile
      BY <1>2, <2>2, <3>1, <3>3 DEF Move, PhaseMove
    <3> QED
      BY <2>2, <3>2, <3>5, <3>6
  <2> QED
    BY <2>1, <2>2
<1> QED
  BY <1>1, <1>4, <1>5 DEF VersionInv

\* Together: a step of a call keeps the invariant.
LEMMA MoveKeepsInv ==
  ASSUME Inv, NEW c \in Calls, Move(c)
  PROVE  Inv'
BY MoveKeepsTypes, MoveKeepsLocks, MoveKeepsFiles, MoveKeepsImage, MoveKeepsVersion DEF Inv

\* The operator only touches the staging directory.
LEMMA RestageKeepsInv ==
  ASSUME Inv, NEW n \in LocalNames, NEW content \in Contents, Restage(n, content),
         UNCHANGED upgradeVars
  PROVE  Inv'
<1>1. PICK i \in 1 .. MaxRestage :
         /\ dirent' = [dirent EXCEPT ![<<n, "file">>] = [restaged |-> i]]
         /\ data' = [data EXCEPT ![[restaged |-> i]] = content]
  BY DEF Restage
<1>2. UNCHANGED <<requests, call, permit, remote, version, installing, window, lease, up, abandoned>>
  BY DEF Restage, upgradeVars
<1>3. PICK x \in Inodes : x = [restaged |-> i]
  BY DEF Inodes
<1>4. content \in Holds \ {NoFile} /\ TypeInv
  BY UpgradeAssumption DEF Holds, Inv
<1>5. /\ dirent' \in [Entries -> Inodes \cup {NoFile, Symlink}]
      /\ data' \in [Inodes -> Holds \ {NoFile}]
  BY <1>1, <1>3, <1>4 DEF TypeInv
<1>6. \A m \in LocalNames : dirent'[<<m, "partial">>] # Symlink
  <2>1. \A m \in LocalNames : <<m, "partial">> \in Entries /\ <<m, "partial">> # <<n, "file">>
    BY DEF Entries
  <2> QED
    BY <1>1, <1>4, <2>1 DEF TypeInv
<1>7. TypeInv'
  BY <1>2, <1>4, <1>5, <1>6 DEF TypeInv, Entries, LocalNames
<1> QED
  BY <1>2, <1>7
     DEF Inv, NamesInv, PermitInv, FetchedInv, LeaseInv, HashInv, ImageInv, VersionInv, Upgrades,
         IsUpgrade, IsFetch, Router, Var, OtherContent, Untouched, LocalNames

\* A reboot: the upgrade that waits for it is the only one past its preflight.
LEMMA RebootKeepsInv ==
  ASSUME Inv, NEW r \in Routers, Reboot(r)
  PROVE  Inv'
<1>1. UNCHANGED <<requests, call, permit, dirent, data, remote, window, lease, up, abandoned>>
  BY DEF Reboot, transferVars
<1>2. /\ version' = [version EXCEPT ![r] =
                       IF installing[r] \in Contents THEN Carries[installing[r]] ELSE @]
      /\ installing' = [installing EXCEPT ![r] = NoFile] /\ installing[r] # NoFile
  BY DEF Reboot
<1>3. TypeInv /\ NoFile \in Holds
  BY DEF Inv, Holds
<1>4. /\ version' \in [Routers -> Versions \cup {Nothing}] /\ installing' \in [Routers -> Holds]
  BY <1>2, <1>3, UpgradeAssumption DEF TypeInv
<1>5. TypeInv'
  BY <1>1, <1>3, <1>4 DEF TypeInv, Entries, LocalNames
<1>6. /\ NamesInv' /\ PermitInv' /\ FetchedInv' /\ LeaseInv' /\ HashInv' /\ ImageInv'
      /\ Upgrades' = Upgrades
  BY <1>1
     DEF Inv, NamesInv, PermitInv, FetchedInv, LeaseInv, HashInv, ImageInv, Upgrades,
         IsUpgrade, IsFetch, Router, Var, OtherContent, Untouched, LocalNames
<1>7. \A q \in Routers \ {r} : version'[q] = version[q] /\ installing'[q] = installing[q]
  BY <1>2, <1>3 DEF TypeInv
<1>8. installing'[r] = NoFile
  BY <1>2, <1>3 DEF TypeInv
<1>9. ASSUME NEW q \in Routers, installing'[q] # NoFile, q \notin abandoned
      PROVE  \E u \in Upgrades : /\ Router(u) = q /\ call[u].pc = "wait"
                                 /\ version'[q] # requests[u].target
                                 /\ up[u].sent # NoFile
  <2>1. q # r /\ installing[q] # NoFile /\ version'[q] = version[q]
    BY <1>7, <1>8, <1>9
  <2> QED
    BY <1>9, <2>1 DEF Inv, VersionInv
<1>10. ASSUME NEW c \in Upgrades, Router(c) \notin abandoned
       PROVE  /\ call[c].pc \in Deciding => version'[Router(c)] # requests[c].target
              /\ call[c].pc = "wait" /\ up[c].sent = NoFile =>
                    version'[Router(c)] # requests[c].target
              /\ call[c].pc = "post" =>
                    version'[Router(c)] = requests[c].target /\ up[c].sent # NoFile
  <2>1. c \in Calls /\ Router(c) \in Routers
    BY <1>3, RequestFacts DEF Upgrades
  <2>2. CASE Router(c) # r
    BY <1>7, <1>10, <2>1, <2>2 DEF Inv, VersionInv
  <2>3. CASE Router(c) = r
    <3>1. PICK u \in Upgrades : Router(u) = r /\ call[u].pc = "wait" /\ up[u].sent # NoFile
      BY <1>2, <1>10, <2>3 DEF Inv, VersionInv
    <3>2. call[c].pc \in Leased => c = u
      BY <2>3, <3>1, LeaseExcludes DEF Leased
    <3> QED
      BY <3>1, <3>2 DEF Leased, Deciding
  <2> QED
    BY <2>2, <2>3
<1>11. VersionInv'
  BY <1>1, <1>6, <1>9, <1>10 DEF VersionInv, Router
<1> QED
  BY <1>5, <1>6, <1>11 DEF Inv

\* A confirmed commit of somebody else, and a step that changes nothing.
LEMMA WindowKeepsInv ==
  ASSUME Inv, UNCHANGED <<transferVars, version, installing, lease, up, abandoned>>,
         window' \in [Routers -> {"none", "open", "unreadable"}]
  PROVE  Inv'
<1>1. UNCHANGED <<requests, call, permit, dirent, data, remote, version, installing, lease, up,
                  abandoned>>
  BY DEF transferVars
<1>2. TypeInv'
  BY <1>1 DEF Inv, TypeInv, Entries, LocalNames
<1> QED
  BY <1>1, <1>2
     DEF Inv, NamesInv, PermitInv, FetchedInv, LeaseInv, HashInv, ImageInv, VersionInv, Upgrades,
         IsUpgrade, IsFetch, Router, Var, OtherContent, Untouched, LocalNames

\* The initial states.
LEMMA InitInv ==
  ASSUME Init
  PROVE  Inv
<1> USE DEF Init, TransferInit
<1>1. Idle \in CallStates
  BY DEF Idle, CallStates, PCs, Unhashed, Holds, Codes, OtherCodes
<1>2. call \in [Calls -> CallStates] /\ \A c \in Calls : call[c] = Idle
  BY <1>1
<1>3. \A c \in Calls : call[c].pc = "start" /\ call[c].local = NoFile
  BY <1>2 DEF Idle
<1>4. dirent \in [Entries -> Inodes \cup {NoFile, Symlink}]
  <2>1. \A n \in LocalNames : InitInode(n) \in Inodes
    BY DEF Inodes, LocalNames
  <2>2. \A n \in LocalNames : InitStaged[n] \in Contents \cup {NoFile, Symlink}
    BY UpgradeAssumption DEF LocalNames
  <2>3. \A e \in Entries : e[1] \in LocalNames
    BY DEF Entries
  <2>4. dirent = [e \in Entries |->
                    IF e[2] = "file" /\ InitStaged[e[1]] \in Contents THEN InitInode(e[1])
                    ELSE IF e[2] = "file" THEN InitStaged[e[1]] ELSE NoFile]
    BY DEF Entries
  <2>5. ASSUME NEW e \in Entries
        PROVE  (IF e[2] = "file" /\ InitStaged[e[1]] \in Contents THEN InitInode(e[1])
                ELSE IF e[2] = "file" THEN InitStaged[e[1]] ELSE NoFile)
                  \in Inodes \cup {NoFile, Symlink}
    BY <2>1, <2>2, <2>3
  <2> QED
    BY <2>4, <2>5
<1>5. \A n \in LocalNames : dirent[<<n, "partial">>] # Symlink
  BY DEF NoFile, Symlink
<1>6. data \in [Inodes -> Holds \ {NoFile}]
  <2>1. Cut \in Holds \ {NoFile} /\ Contents \subseteq Holds \ {NoFile}
    BY Markers, UpgradeAssumption DEF Holds
  <2>2. ASSUME NEW i \in Inodes
        PROVE  (IF \E n \in LocalNames : i = InitInode(n) /\ InitStaged[n] \in Contents
                THEN InitStaged[(CHOOSE n \in LocalNames : i = InitInode(n))] ELSE Cut)
                  \in Holds \ {NoFile}
    <3>1. CASE \E n \in LocalNames : i = InitInode(n) /\ InitStaged[n] \in Contents
      <4>1. PICK n \in LocalNames : i = InitInode(n) /\ InitStaged[n] \in Contents
        BY <3>1
      <4>2. PICK m : m = CHOOSE k \in LocalNames : i = InitInode(k)
        OBVIOUS
      <4>3. m \in LocalNames /\ i = InitInode(m)
        BY <4>1, <4>2
      <4>4. m = n
        BY <4>1, <4>3 DEF InitInode
      <4> QED
        BY <2>1, <3>1, <4>1, <4>2, <4>4
    <3>2. CASE ~ \E n \in LocalNames : i = InitInode(n) /\ InitStaged[n] \in Contents
      BY <2>1, <3>2
    <3> QED
      BY <3>1, <3>2
  <2> QED
    BY <2>2
<1>7. remote \in [DOMAIN InitRemote -> Holds]
  BY UpgradeAssumption DEF Holds
<1>8. /\ up \in [Calls -> UpStates] /\ installing \in [Routers -> Holds]
      /\ window \in [Routers -> {"none", "open", "unreadable"}]
  BY DEF UpStates, Holds
<1>9. TypeInv
  BY <1>2, <1>4, <1>5, <1>6, <1>7, <1>8, UpgradeAssumption DEF TypeInv
<1>10. NamesInv /\ PermitInv /\ FetchedInv /\ LeaseInv
  BY <1>3 DEF NamesInv, PermitInv, FetchedInv, LeaseInv, HoldPCs, Leased, Upgrades
<1>11. HashInv /\ ImageInv
  BY <1>3 DEF HashInv, ImageInv, Unhashed, Upgrades
<1>12. VersionInv
  BY <1>3 DEF VersionInv, Deciding, Leased, Upgrades
<1> QED
  BY <1>9, <1>10, <1>11, <1>12 DEF Inv

\* Every step keeps the invariant; a step that is no call's changes no call.
LEMMA NextInv ==
  ASSUME Inv, [Next]_vars
  PROVE  Inv'
<1>1. Ready /\ window \in [Routers -> {"none", "open", "unreadable"}]
  BY DEF Inv, Ready, TypeInv
<1>2. ASSUME NEW c \in Calls, CallStep(c) PROVE Inv'
  BY <1>1, <1>2, CallStepMoves, MoveKeepsInv
<1>3. ASSUME NEW r \in Routers, CommitConfirmed(r) PROVE Inv'
  BY <1>1, <1>3, WindowKeepsInv DEF CommitConfirmed
<1>4. CASE UNCHANGED vars
  BY <1>1, <1>4, WindowKeepsInv DEF vars, upgradeVars
<1> QED
  BY <1>2, <1>3, <1>4, RestageKeepsInv, RebootKeepsInv DEF Next, CallStep

\* Only a step of the call itself changes what was sent for it or what it answers.
LEMMA OnlyCallsAct ==
  ASSUME Inv, [Next]_vars, NEW d \in Calls, up'[d] # up[d] \/ call'[d] # call[d]
  PROVE  CallStep(d) /\ Move(d)
<1>1. Ready
  BY DEF Inv, Ready
<1>2. ASSUME NEW c \in Calls, CallStep(c) PROVE c = d
  <2>1. Move(c)
    BY <1>1, <1>2, CallStepMoves
  <2> QED
    BY <2>1 DEF Move, CallMove, SentMove
<1>3. CallStep(d)
  <2>1. CASE \E c \in Calls : CallStep(c)
    BY <1>2, <2>1
  <2>2. CASE ~ \E c \in Calls : CallStep(c)
    <3>1. \/ \E n \in LocalNames, content \in Contents : Restage(n, content) /\ UNCHANGED upgradeVars
          \/ \E r \in Routers : Reboot(r)
          \/ \E r \in Routers : CommitConfirmed(r)
          \/ UNCHANGED vars
      BY <2>2 DEF Next, CallStep
    <3>2. UNCHANGED <<call, up>>
      BY <3>1 DEF Restage, upgradeVars, Reboot, CommitConfirmed, transferVars, vars
    <3> QED
      BY <3>2
  <2> QED
    BY <2>1, <2>2
<1> QED
  BY <1>1, <1>3, CallStepMoves
-----------------------------------------------------------------------------
(* The theorems.                                                           *)

\* Transfers and upgrades stay consistent: permits and leases are exclusive,
\* every call's record matches where it is, and an install under way belongs to
\* the upgrade that waits for it.
THEOREM UpgradesAreConsistent == Spec => []Inv
<1>1. Init => Inv
  BY InitInv
<1>2. Inv /\ [Next]_vars => Inv'
  BY NextInv
<1> QED
  BY <1>1, <1>2, PTL DEF Spec

\* The router takes the image that upgrade_junos verified, although the permit
\* is given back before the install, unless another file was sent to its path.
THEOREM ImagesAreVerified == Spec => InstalledImageIsVerified
<1>1. ASSUME Inv, [Next]_vars, NEW c \in Calls, up'[c].sent # up[c].sent
      PROVE  call[c].verified /\ (up'[c].sent = call[c].local \/ OtherContent(c))
  <2>1. Move(c)
    BY <1>1, OnlyCallsAct
  <2>2. IsUpgrade(c) /\ call[c].pc = "install" /\ up'[c].sent = remote[Var(c)]
    BY <1>1, <2>1 DEF Move, SentMove
  <2> QED
    BY <1>1, <2>2 DEF Inv, ImageInv, Upgrades, Untouched
<1>2. Inv /\ [Next]_vars =>
        [\A c \in Calls : up'[c].sent # up[c].sent =>
            call[c].verified /\ (up'[c].sent = call[c].local \/ OtherContent(c))]_vars
  BY <1>1
<1> QED
  BY <1>2, UpgradesAreConsistent, PTL DEF Spec, InstalledImageIsVerified

\* No router is told to install the version it runs, unless an upgrade of it was
\* given up with its install under way: the lease covers preflight and install.
THEOREM InstallsAreNotRepeated == Spec => NoRepeatedInstall
<1>1. ASSUME Inv, [Next]_vars, NEW c \in Calls, up'[c].sent # up[c].sent
      PROVE  version[Router(c)] # requests[c].target \/ Router(c) \in abandoned
  <2>1. Move(c)
    BY <1>1, OnlyCallsAct
  <2>2. IsUpgrade(c) /\ call[c].pc = "install"
    BY <1>1, <2>1 DEF Move, SentMove
  <2> QED
    BY <1>1, <2>2 DEF Inv, VersionInv, Upgrades, Deciding, Leased
<1>2. Inv /\ [Next]_vars =>
        [\A c \in Calls : up'[c].sent # up[c].sent =>
            \/ version[Router(c)] # requests[c].target
            \/ Router(c) \in abandoned]_vars
  BY <1>1
<1> QED
  BY <1>2, UpgradesAreConsistent, PTL DEF Spec, NoRepeatedInstall

\* "upgraded" means that the router runs the target version and took the image
\* whose digest the answer reports.
THEOREM UpgradesAreReal == Spec => UpgradedMeansUpgraded
<1>1. ASSUME Inv, [Next]_vars, NEW c \in Calls,
             call'[c].reply = "upgraded", call[c].reply # "upgraded"
      PROVE  \/ Router(c) \in abandoned
             \/ /\ version[Router(c)] = requests[c].target
                /\ \/ up[c].sent = up[c].image
                   \/ up[c].image # call[c].local \/ OtherContent(c)
  <2>1. Move(c)
    BY <1>1, OnlyCallsAct
  <2>2. IsUpgrade(c) /\ call[c].pc = "post" /\ c \in Upgrades
    BY <1>1, <2>1 DEF Move, ReplyMove, Upgrades
  <2>3. \/ Router(c) \in abandoned
        \/ version[Router(c)] = requests[c].target /\ up[c].sent # NoFile
    BY <1>1, <2>2 DEF Inv, VersionInv
  <2>4. up[c].sent \in {NoFile, call[c].local} \/ OtherContent(c)
    BY <1>1, <2>2 DEF Inv, ImageInv
  <2> QED
    BY <2>3, <2>4
<1>2. Inv /\ [Next]_vars =>
        [\A c \in Calls : call'[c].reply = "upgraded" /\ call[c].reply # "upgraded" =>
            \/ Router(c) \in abandoned
            \/ /\ version[Router(c)] = requests[c].target
               /\ \/ up[c].sent = up[c].image
                  \/ up[c].image # call[c].local \/ OtherContent(c)]_vars
  BY <1>1
<1> QED
  BY <1>2, UpgradesAreConsistent, PTL DEF Spec, UpgradedMeansUpgraded

-----------------------------------------------------------------------------
(* Downloads, when fetches under one local name are of one router.         *)

\* A fetch changes its own entries and its own inode.
StageFrame(c) ==
  \/ UNCHANGED <<dirent, data>>
  \/ /\ call[c].pc \in HoldPCs
     /\ \A e \in Entries \ {File(c), Partial(c)} : dirent'[e] = dirent[e]
     /\ \A i \in Inodes \ {c} : data'[i] = data[i]

\* Nobody but a fetch writes in the staging directory.
LEMMA OnlyFetchesWrite ==
  ASSUME Inv, NEW c \in Calls, CallStep(c), ~ IsFetch(c)
  PROVE  UNCHANGED <<dirent, data>>
<1>1. Ready
  BY DEF Inv, Ready
<1>2. CASE UpgradeStep(c)
  BY <1>1, <1>2, TransferStepMoves
     DEF UpgradeStep, UpgradeStart, dispatch_preflight, acquire_cancellable, LockedPreflight,
         UpgradeTransfer, Install, wait_for_version, PostBaseline, TransferMove
<1>3. CASE PlainStep(c)
  BY <1>1, <1>3, TransferStepMoves
     DEF PlainStep, TransferMove, FetchStep, FetchStart, FetchQueue, FetchProbe, FetchCheck,
         FetchScpStart, FetchScpRun, FetchHash, FetchRename, ListStep, ListStart, ListHash
<1>4. CASE Abort(c) \/ UpgradeAbort(c)
  BY <1>4 DEF Abort, UpgradeAbort
<1> QED
  BY <1>2, <1>3, <1>4 DEF CallStep, Step

\* A step of a fetch that ends it.
LEMMA FetchOver ==
  ASSUME NEW c \in Calls, call'[c].pc \notin {"scp", "copy", "hash", "rename"}
  PROVE  PartialOk(c)'
BY DEF PartialOk

\* An entry is removed, and no file is written.
LEMMA RemovalFrame ==
  ASSUME TypeInv, NEW c \in Calls, call[c].pc \in HoldPCs,
         dirent' \in {dirent, [dirent EXCEPT ![Partial(c)] = NoFile]}, data' = data
  PROVE  StageFrame(c)
BY DEF StageFrame, TypeInv

\* The steps of a fetch keep its download in its own inode.
LEMMA FetchStage ==
  ASSUME Inv, PartialInv, NEW c \in Calls, CallStep(c), IsFetch(c)
  PROVE  StageFrame(c) /\ PartialOk(c)'
<1>1. /\ TypeInv /\ Ready /\ PartialOk(c) /\ call \in [Calls -> CallStates]
      /\ call[c] \in CallStates /\ c \in Inodes /\ c # NoFile
  BY UpgradeAssumption DEF Inv, Ready, PartialInv, TypeInv, Inodes
<1>2. requests' = requests
  BY <1>1, CallStepMoves DEF Move, CallMove
<1>3. ~ IsUpgrade(c) /\ ~ TransferStep(c) /\ ~ ListStep(c)
  BY <1>1, TransferStepMoves
     DEF IsFetch, IsUpgrade, TransferMove, TransferTools, ListStep, ListStart, ListHash
<1>4. FetchStep(c) \/ Abort(c)
  BY <1>3
     DEF CallStep, Step, UpgradeStep, UpgradeStart, dispatch_preflight, acquire_cancellable,
         LockedPreflight, UpgradeTransfer, Install, wait_for_version, PostBaseline, UpgradeAbort,
         PlainStep
<1>5. Partial(c)' = Partial(c)
  BY <1>2 DEF Partial
<1>6. CASE FetchStart(c) \/ FetchQueue(c) \/ FetchProbe(c)
  <2>1. UNCHANGED <<dirent, data>>
    BY <1>6 DEF FetchStart, FetchQueue, FetchProbe
  <2>2. call'[c].pc \in {"queue", "done", "probe", "check"}
    <3>1. CASE FetchStart(c)
      BY <1>1, <3>1 DEF FetchStart, Goto, Reply, CallStates
    <3>2. CASE FetchQueue(c)
      BY <1>1, <3>2 DEF FetchQueue, Goto, CallStates
    <3>3. CASE FetchProbe(c)
      <4>1. \/ \E code : Reply(c, code, FALSE)
            \/ \E f : call' = [call EXCEPT ![c].pc = "check", ![c].seen = f]
        BY <3>3, Zenon DEF FetchProbe
      <4> QED
        BY <1>1, <4>1 DEF Reply, CallStates
    <3> QED
      BY <1>6, <3>1, <3>2, <3>3
  <2> QED
    BY <2>1, <2>2, FetchOver DEF StageFrame
<1>7. CASE FetchCheck(c)
  <2>1. call[c].pc = "check" /\ data' = data
    BY <1>7 DEF FetchCheck, At
  <2>2. \/ dirent' = dirent /\ call'[c].pc = "done"
        \/ /\ dirent' = [dirent EXCEPT ![Partial(c)] = NoFile]
           /\ call'[c].pc = "scp"
    BY <1>1, <1>7 DEF FetchCheck, Goto, Reply, CallStates
  <2>3. StageFrame(c)
    BY <1>1, <2>1, <2>2, RemovalFrame DEF HoldPCs
  <2>4. requests[c].local \in LocalNames
    BY <1>1, <2>1, FetchFacts
  <2>5. Partial(c) \in Entries
    BY <1>1, <2>4, FetchEntries
  <2>6. PartialOk(c)'
    BY <1>1, <1>5, <2>2, <2>5 DEF PartialOk, TypeInv
  <2> QED
    BY <2>3, <2>6
<1>8. CASE FetchScpStart(c)
  <2>1. call[c].pc = "scp" /\ dirent[Partial(c)] = NoFile
    BY <1>1, <1>8 DEF FetchScpStart, At, PartialOk
  <2>2. /\ dirent' = [dirent EXCEPT ![Partial(c)] = c]
        /\ data' = [data EXCEPT ![c] = Cut]
        /\ call' = [call EXCEPT ![c].pc = "copy", ![c].inode = c]
    BY <1>8, <2>1 DEF FetchScpStart
  <2>3. call'[c].pc = "copy" /\ call'[c].inode = c
    BY <1>1, <2>2 DEF CallStates
  <2>4. Partial(c) \in Entries
    BY <1>1, <2>1, FetchFacts, FetchEntries
  <2>5. StageFrame(c)
    BY <1>1, <2>1, <2>2 DEF StageFrame, TypeInv, HoldPCs
  <2>6. dirent'[Partial(c)] = c
    BY <1>1, <2>2, <2>4 DEF TypeInv
  <2> QED
    BY <1>5, <2>3, <2>5, <2>6 DEF PartialOk
<1>9. CASE FetchScpRun(c)
  <2>1. call[c].pc = "copy" /\ dirent[Partial(c)] = c /\ call[c].inode = c
    BY <1>1, <1>9 DEF FetchScpRun, At, PartialOk
  <2>2. \/ /\ data' = [data EXCEPT ![c] = remote[Var(c)]] /\ dirent' = dirent
           /\ call'[c].pc = "hash"
        \/ /\ dirent' = [dirent EXCEPT ![Partial(c)] = NoFile] /\ data' = data
           /\ call'[c].pc = "done"
    <3>1. \/ /\ data' = [data EXCEPT ![call[c].inode] = remote[Var(c)]] /\ dirent' = dirent
             /\ Goto(c, "hash")
          \/ /\ dirent' = [dirent EXCEPT ![Partial(c)] = NoFile] /\ data' = data
             /\ \E code : Reply(c, code, FALSE)
      BY <1>9, Zenon DEF FetchScpRun
    <3>2. Goto(c, "hash") => call'[c].pc = "hash"
      BY <1>1 DEF Goto, CallStates
    <3>3. (\E code : Reply(c, code, FALSE)) => call'[c].pc = "done"
      BY <1>1 DEF Reply, CallStates
    <3> QED
      BY <2>1, <3>1, <3>2, <3>3
  <2>3. StageFrame(c)
    BY <1>1, <2>1, <2>2 DEF StageFrame, TypeInv, HoldPCs
  <2> QED
    BY <1>5, <2>1, <2>2, <2>3 DEF PartialOk
<1>10. CASE FetchHash(c)
  <2>1. call[c].pc = "hash" /\ dirent[Partial(c)] = c /\ data' = data
    BY <1>1, <1>10 DEF FetchHash, At, PartialOk
  <2>2. \/ dirent' \in {dirent, [dirent EXCEPT ![Partial(c)] = NoFile]} /\ call'[c].pc = "done"
        \/ /\ dirent' = dirent
           /\ call' = [call EXCEPT ![c].pc = "rename", ![c].local = data[c],
                                   ![c].verified = (data[c] = call[c].seen)]
    BY <1>1, <1>10, <2>1 DEF FetchHash, Reply, CallStates
  <2>3. StageFrame(c)
    BY <1>1, <2>1, <2>2, RemovalFrame DEF HoldPCs
  <2>4. CASE call'[c].pc = "done"
    BY <2>3, <2>4, FetchOver
  <2>5. CASE /\ dirent' = dirent
             /\ call' = [call EXCEPT ![c].pc = "rename", ![c].local = data[c],
                                     ![c].verified = (data[c] = call[c].seen)]
    <3>1. PICK v \in BOOLEAN : v = (data[c] = call[c].seen)
      OBVIOUS
    <3>2. call'[c] = [call[c] EXCEPT !.pc = "rename", !.local = data[c], !.verified = v]
      BY <1>1, <2>5, <3>1
    <3>3. call'[c].pc = "rename" /\ call'[c].local = data[c] /\ call'[c].seen = call[c].seen
      BY <1>1, <3>2 DEF CallStates
    <3>4. call'[c].verified = v
      BY <1>1, <3>2 DEF CallStates
    <3> QED
      BY <1>5, <2>1, <2>3, <2>5, <3>1, <3>3, <3>4 DEF PartialOk
  <2> QED
    BY <2>2, <2>4, <2>5
<1>11. CASE FetchRename(c)
  <2>1. call[c].pc = "rename" /\ data' = data /\ call'[c].pc = "done"
    BY <1>1, <1>11 DEF FetchRename, At, Reply, CallStates
  <2>2. \/ dirent' = dirent
        \/ dirent' = [dirent EXCEPT ![File(c)] = dirent[Partial(c)], ![Partial(c)] = NoFile]
    BY <1>11 DEF FetchRename
  <2>3. StageFrame(c)
    BY <1>1, <2>1, <2>2 DEF StageFrame, TypeInv, HoldPCs
  <2> QED
    BY <2>1, <2>3, FetchOver
<1>12. CASE Abort(c)
  <2>1. /\ data' = data /\ call'[c].pc = "done"
        /\ \/ dirent' = dirent
           \/ call[c].pc = "copy" /\ dirent' = [dirent EXCEPT ![Partial(c)] = NoFile]
    BY <1>1, <1>12 DEF Abort, At, Reply, CallStates
  <2>2. StageFrame(c)
    BY <1>1, <2>1, RemovalFrame DEF StageFrame, HoldPCs
  <2> QED
    BY <2>1, <2>2, FetchOver
<1> QED
  BY <1>4, <1>6, <1>7, <1>8, <1>9, <1>10, <1>11, <1>12 DEF FetchStep

\* Two fetches under one name are not in the staging directory at once.
LEMMA PartialsApart ==
  ASSUME OneRouterPerName, Inv, NEW c \in Calls, NEW d \in Calls, c # d, IsFetch(c), IsFetch(d),
         call[c].pc \in HoldPCs, call[d].pc \in HoldPCs
  PROVE  Partial(d) \in Entries \ {File(c), Partial(c)}
<1>1. TypeInv /\ requests \in Scenarios
  BY DEF Inv, TypeInv
<1>2. requests[c].local # requests[d].local
  <2>1. Router(c) # Router(d)
    BY PermitExcludes
  <2> QED
    BY <1>1, <2>1 DEF OneRouterPerName, IsFetch, Router
<1>3. requests[d].local \in LocalNames
  BY DEF Inv, NamesInv, IsFetch, FileTools, HoldPCs
<1> QED
  BY <1>2, <1>3 DEF Partial, File, Entries

\* A download that no step of its own call touches stays as it is.
LEMMA PartialStays ==
  ASSUME Inv, NEW d \in Calls, PartialOk(d), call'[d] = call[d], requests' = requests,
         call[d].pc \in {"scp", "copy", "hash", "rename"} =>
            dirent'[Partial(d)] = dirent[Partial(d)] /\ data'[d] = data[d]
  PROVE  PartialOk(d)'
<1>1. Partial(d)' = Partial(d)
  BY DEF Partial
<1> QED
  BY <1>1 DEF PartialOk

\* Every step keeps the downloads apart.
LEMMA NextPartial ==
  ASSUME OneRouterPerName, Inv, PartialInv, [Next]_vars
  PROVE  PartialInv'
<1>1. TypeInv /\ Ready /\ \A d \in Calls : d \in Inodes
  BY DEF Inv, Ready, Inodes
<1>2. ASSUME NEW c \in Calls, CallStep(c) PROVE PartialInv'
  <2>1. requests' = requests /\ \A d \in Calls \ {c} : call'[d] = call[d]
    BY <1>1, <1>2, CallStepMoves DEF Move, CallMove
  <2>2. ASSUME NEW d \in Calls, IsFetch(d) PROVE PartialOk(d)'
    <3>1. CASE d = c
      BY <1>2, <2>2, <3>1, FetchStage
    <3>2. CASE d # c /\ UNCHANGED <<dirent, data>>
      BY <2>1, <2>2, <3>2, PartialStays DEF PartialInv
    <3>3. CASE d # c /\ ~ UNCHANGED <<dirent, data>>
      <4>1. IsFetch(c)
        BY <1>2, <3>3, OnlyFetchesWrite
      <4>2. /\ call[c].pc \in HoldPCs
            /\ \A e \in Entries \ {File(c), Partial(c)} : dirent'[e] = dirent[e]
            /\ \A i \in Inodes \ {c} : data'[i] = data[i]
        BY <1>2, <3>3, <4>1, FetchStage DEF StageFrame
      <4>3. data'[d] = data[d]
        BY <1>1, <3>3, <4>2
      <4>4. ASSUME call[d].pc \in {"scp", "copy", "hash", "rename"}
            PROVE  dirent'[Partial(d)] = dirent[Partial(d)]
        <5>1. call[d].pc \in HoldPCs
          BY <4>4 DEF HoldPCs
        <5> QED
          BY <2>2, <3>3, <4>1, <4>2, <5>1, PartialsApart
      <4>5. call'[d] = call[d] /\ PartialOk(d)
        BY <2>1, <2>2, <3>3 DEF PartialInv
      <4> QED
        BY <2>1, <4>3, <4>4, <4>5, PartialStays
    <3> QED
      BY <3>1, <3>2, <3>3
  <2> QED
    BY <2>1, <2>2 DEF PartialInv, IsFetch
<1>3. ASSUME NEW n \in LocalNames, NEW content \in Contents, Restage(n, content) PROVE PartialInv'
  <2>1. UNCHANGED <<requests, call>>
    BY <1>3 DEF Restage
  <2>2. PICK i \in 1 .. MaxRestage :
           /\ dirent' = [dirent EXCEPT ![<<n, "file">>] = [restaged |-> i]]
           /\ data' = [data EXCEPT ![[restaged |-> i]] = content]
    BY <1>3 DEF Restage
  <2>3. ASSUME NEW d \in Calls, IsFetch(d) PROVE PartialOk(d)'
    <3>1. d # [restaged |-> i]
      BY UpgradeAssumption
    <3>2. data'[d] = data[d]
      BY <1>1, <2>2, <3>1 DEF TypeInv
    <3>3. ASSUME call[d].pc \in {"scp", "copy", "hash", "rename"}
          PROVE  dirent'[Partial(d)] = dirent[Partial(d)]
      <4>1. requests[d].local \in LocalNames
        BY <2>3, <3>3 DEF Inv, NamesInv, IsFetch, FileTools
      <4>2. Partial(d) \in Entries /\ Partial(d) # <<n, "file">>
        BY <4>1 DEF Partial, Entries
      <4> QED
        BY <1>1, <2>2, <4>2 DEF TypeInv
    <3> QED
      BY <2>1, <2>3, <3>2, <3>3, PartialStays DEF PartialInv
  <2> QED
    BY <2>1, <2>3 DEF PartialInv, IsFetch
<1>4. ASSUME UNCHANGED transferVars PROVE PartialInv'
  BY <1>4 DEF transferVars, PartialInv, PartialOk, IsFetch, Partial
<1> QED
  BY <1>2, <1>3, <1>4 DEF Next, CallStep, Reboot, CommitConfirmed, vars

\* A file that fetch_file reports as fetched and verified has, when it gets its
\* name, the content the router gave the digest of, if fetches under one local
\* name are of one router (the permit is the router's, not the name's).
THEOREM FetchesAreVerified ==
  ASSUME OneRouterPerName
  PROVE  Spec => PromotedFileIsVerified
<1>1. Init => PartialInv
  <2>1. ASSUME Init, NEW c \in Calls PROVE call[c].pc = "start"
    BY <2>1 DEF Init, TransferInit, Idle
  <2> QED
    BY <2>1 DEF PartialInv, PartialOk
<1>2. Inv /\ PartialInv /\ [Next]_vars => PartialInv'
  BY NextPartial
<1>3. ASSUME Inv, PartialInv, [Next]_vars, NEW c \in Calls,
             call'[c].reply = "fetched", call[c].reply # "fetched", call'[c].verified
      PROVE  data'[dirent'[File(c)']] = call[c].seen
  <2>1. CallStep(c) /\ Move(c)
    BY <1>3, OnlyCallsAct
  <2>2. IsFetch(c) /\ call[c].pc = "rename" /\ requests' = requests
    BY <1>3, <2>1 DEF Move, ReplyMove, CallMove
  <2>3. PartialOk(c) /\ TypeInv /\ c # NoFile /\ Ready
    BY <1>3, <2>2, UpgradeAssumption DEF PartialInv, Inv, Ready
  <2>4. dirent[Partial(c)] = c /\ data[c] = call[c].local
          /\ (call[c].verified => call[c].local = call[c].seen)
    BY <2>2, <2>3 DEF PartialOk
  <2>5. FetchRename(c)
    <3>1. ~ IsUpgrade(c) /\ ~ TransferStep(c) /\ ~ ListStep(c)
      BY <2>2, <2>3, TransferStepMoves
         DEF IsFetch, IsUpgrade, TransferMove, TransferTools, ListStep, ListStart, ListHash
    <3>2. ~ Abort(c)
      BY <2>2 DEF Abort
    <3>3. FetchStep(c)
      BY <2>1, <3>1, <3>2
         DEF CallStep, Step, UpgradeStep, UpgradeStart, dispatch_preflight, acquire_cancellable,
             LockedPreflight, UpgradeTransfer, Install, wait_for_version, PostBaseline, UpgradeAbort,
             PlainStep
    <3> QED
      BY <2>2, <3>3
         DEF FetchStep, FetchStart, FetchQueue, FetchProbe, FetchCheck, FetchScpStart, FetchScpRun,
             FetchHash, At
  <2>6. /\ dirent' = [dirent EXCEPT ![File(c)] = c, ![Partial(c)] = NoFile]
        /\ Reply(c, "fetched", call[c].verified) /\ data' = data
    BY <2>3, <2>4, <2>5 DEF FetchRename
  <2>7. call[c].verified
    BY <1>3, <2>3, <2>6 DEF Reply, TypeInv, CallStates
  <2>8. File(c) \in Entries /\ File(c) # Partial(c)
    BY <2>2, <2>3, FetchFacts, FetchEntries
  <2>9. dirent'[File(c)] = c
    BY <2>3, <2>6, <2>8 DEF TypeInv
  <2>10. File(c)' = File(c)
    BY <2>2 DEF File
  <2> QED
    BY <2>4, <2>6, <2>7, <2>9, <2>10
<1>4. Inv /\ PartialInv /\ [Next]_vars =>
        [\A c \in Calls :
            /\ call'[c].reply = "fetched" /\ call[c].reply # "fetched"
            /\ call'[c].verified
            => data'[dirent'[File(c)]] = call[c].seen]_vars
  <2>1. ASSUME Inv, PartialInv, [Next]_vars, NEW c \in Calls,
               call'[c].reply = "fetched", call[c].reply # "fetched", call'[c].verified
        PROVE  data'[dirent'[File(c)]] = call[c].seen
    <3>1. requests' = requests
      BY <2>1, OnlyCallsAct DEF Move, CallMove
    <3> QED
      BY <1>3, <2>1, <3>1 DEF File
  <2> QED
    BY <2>1
<1> QED
  BY <1>1, <1>2, <1>4, UpgradesAreConsistent, PTL DEF Spec, PromotedFileIsVerified
=============================================================================
