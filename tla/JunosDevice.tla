---------------------------- MODULE JunosDevice ----------------------------
(***************************************************************************)
(* One standalone Junos device as the server's code depends on it: the     *)
(* configuration lock, the SHARED candidate datastore, the running         *)
(* configuration and a commit-confirmed window.  The device is not part of *)
(* the repository; every operator below is the behaviour the code in       *)
(* device_manager.rs, candidate_transaction.rs and junos_transaction.rs    *)
(* relies on or warns about in its comments.                               *)
(*                                                                         *)
(* A configuration is abstracted to the set of authors whose edits it      *)
(* holds: the tool calls of the server and the operators who work on the   *)
(* same candidate from the CLI.                                            *)
(***************************************************************************)

CONSTANTS Sessions,   \* NETCONF session identities
          NoSession,  \* "no session"
          TheDevice,  \* owner of a window that no session's end cuts short
          Calls,      \* tool calls or change sets, each author of its own edits
          Operators   \* people editing the shared candidate from the CLI

ASSUME DeviceAssumption ==
         /\ NoSession \notin Sessions
         /\ TheDevice \notin Sessions \cup {NoSession}
         /\ Operators \cap Calls = {}

VARIABLES lockHolder,  \* the session that holds the candidate lock
          candidate,   \* authors with uncommitted edits in the candidate
          running,     \* authors whose edits are in the running configuration
          winBy,       \* who the open commit-confirmed window belongs to
          winEdits     \* what the device takes back when that window lapses

devVars == <<lockHolder, candidate, running, winBy, winEdits>>

Authors == Calls \cup Operators

DeviceTypeOK ==
  /\ lockHolder \in Sessions \cup {NoSession}
  /\ candidate \subseteq Authors
  /\ running \subseteq Authors
  /\ winBy \in Sessions \cup {NoSession, TheDevice}
  /\ winEdits \subseteq Authors

DeviceInit ==
  /\ lockHolder = NoSession
  /\ candidate = {}
  /\ running = {}
  /\ winBy = NoSession
  /\ winEdits = {}

(***************************************************************************)
(* RPCs.  Each operator is the device carrying out one RPC of session s;   *)
(* where its guard is false the device answers with an rpc-error.          *)
(***************************************************************************)

\* Another session's lock keeps s from writing the candidate; an unlocked
\* candidate is writable by everyone.
MayWrite(s) == lockHolder \in {NoSession, s}

\* <lock> is refused while someone holds the lock and while the candidate
\* holds uncommitted changes ("configuration database modified").
DevLock(s) ==
  /\ lockHolder = NoSession
  /\ candidate = {}
  /\ lockHolder' = s
  /\ UNCHANGED <<candidate, running, winBy, winEdits>>

DevUnlock(s) ==
  /\ lockHolder = s
  /\ lockHolder' = NoSession
  /\ UNCHANGED <<candidate, running, winBy, winEdits>>

DevLoad(s, a) ==
  /\ MayWrite(s)
  /\ candidate' = candidate \cup {a}
  /\ UNCHANGED <<lockHolder, running, winBy, winEdits>>

\* rollback 0 and <discard-changes/> both reset the shared candidate.
DevRevert(s) ==
  /\ MayWrite(s)
  /\ candidate' = {}
  /\ UNCHANGED <<lockHolder, running, winBy, winEdits>>

\* A commit activates the whole candidate and confirms an open window,
\* whichever tool opened it.
DevCommit(s) ==
  /\ MayWrite(s)
  /\ running' = running \cup candidate
  /\ candidate' = {}
  /\ winBy' = NoSession
  /\ winEdits' = {}
  /\ UNCHANGED lockHolder

\* A confirmed commit opens a window that belongs to `owner`.
DevOpenWindow(s, owner) ==
  /\ MayWrite(s)
  /\ running' = running \cup candidate
  /\ candidate' = {}
  /\ winBy' = owner
  /\ winEdits' = candidate
  /\ UNCHANGED lockHolder

\* The RFC 6241 form: under :confirmed-commit:1.0 the pending rollback belongs
\* to the session that issued it.
DevCommitConfirmed(s) == DevOpenWindow(s, s)

\* The Junos-native form: the pending rollback belongs to the device.
DevCommitNative(s) == DevOpenWindow(s, TheDevice)

\* The device ends session s: its lock is freed, edits it left under that lock
\* may or may not be dropped, and a window bound to it rolls back.
DevEndSession(s) ==
  /\ lockHolder' = IF lockHolder = s THEN NoSession ELSE lockHolder
  /\ \/ UNCHANGED candidate
     \/ lockHolder = s /\ candidate' = {}
  /\ running' = IF winBy = s THEN running \ winEdits ELSE running
  /\ winBy' = IF winBy = s THEN NoSession ELSE winBy
  /\ winEdits' = IF winBy = s THEN {} ELSE winEdits

(***************************************************************************)
(* What happens on the device without the server.                          *)
(***************************************************************************)

\* The deadline of the window passes with no confirming commit.
WindowExpires ==
  /\ winBy # NoSession
  /\ running' = running \ winEdits
  /\ winBy' = NoSession
  /\ winEdits' = {}
  /\ UNCHANGED <<lockHolder, candidate>>

OperatorEdit(o) ==
  /\ lockHolder = NoSession
  /\ o \notin candidate
  /\ candidate' = candidate \cup {o}
  /\ UNCHANGED <<lockHolder, running, winBy, winEdits>>

\* An operator ends the work in the candidate, by commit or by rollback 0.
OperatorFinish(o) ==
  /\ lockHolder = NoSession
  /\ o \in candidate
  /\ \/ /\ running' = running \cup candidate
        /\ winBy' = NoSession
        /\ winEdits' = {}
     \/ UNCHANGED <<running, winBy, winEdits>>
  /\ candidate' = {}
  /\ UNCHANGED lockHolder
=============================================================================
