--------------------------- MODULE ChangeControl ---------------------------
(***************************************************************************)
(* What change sets promise whoever approves and audits them, without       *)
(* sessions, locks, crashes or records: a change is planned, approved and   *)
(* taken up once; the device belongs to one change at a time from then      *)
(* until it is settled; only the change that has the device goes live or is *)
(* taken back, so that what a settled change did to the device is final.    *)
(* Reopen and Surface are the two exceptions the code makes.                *)
(***************************************************************************)
CONSTANT Changes

VARIABLES phase,   \* "none", "planned", "approved", "cancelled" or "taken"
          claim,   \* the changes that have the device
          live     \* the changes in the running configuration

vars == <<phase, claim, live>>

Init ==
  /\ phase = [k \in Changes |-> "none"]
  /\ claim = {}
  /\ live = {}

Moves(k, from, to) ==
  /\ phase[k] \in from
  /\ phase' = [phase EXCEPT ![k] = to]

Plan(k) == Moves(k, {"none"}, "planned") /\ UNCHANGED <<claim, live>>
Approve(k) == Moves(k, {"planned"}, "approved") /\ UNCHANGED <<claim, live>>
Cancel(k) == Moves(k, {"planned", "approved"}, "cancelled") /\ UNCHANGED <<claim, live>>

\* An approval is spent by taking the change up, on a device nobody has.
TakeUp(k) ==
  /\ claim = {}
  /\ Moves(k, {"approved"}, "taken")
  /\ claim' = {k}
  /\ UNCHANGED live

GoLive(k) ==
  /\ k \in claim /\ live' = live \cup {k}
  /\ UNCHANGED <<phase, claim>>

\* The rollback timer of a confirmed commit.
TakeBack(k) ==
  /\ k \in claim /\ live' = live \ {k}
  /\ UNCHANGED <<phase, claim>>

\* Whatever the outcome: it is settled, and the device is free of it.
Settle(k) ==
  /\ k \in claim /\ claim' = claim \ {k}
  /\ UNCHANGED <<phase, live>>

\* A change that was settled as live is found to be in doubt after all.
Reopen(k) ==
  /\ phase[k] = "taken" /\ k \in live \ claim
  /\ claim' = claim \cup {k}
  /\ UNCHANGED <<phase, live>>

\* What a failed change left behind goes live with the late confirmation of
\* another change, which is settled too.
Surface(k) ==
  /\ phase[k] = "taken" /\ k \notin claim
  /\ \E j \in Changes \ {k} : phase[j] = "taken" /\ j \notin claim
  /\ live' = live \cup {k}
  /\ UNCHANGED <<phase, claim>>

Next == \E k \in Changes : \/ Plan(k) \/ Approve(k) \/ Cancel(k)
                           \/ TakeUp(k) \/ GoLive(k) \/ TakeBack(k)
                           \/ Settle(k) \/ Reopen(k) \/ Surface(k)

Spec == Init /\ [][Next]_vars
=============================================================================
