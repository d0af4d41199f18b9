---------------------------- MODULE MCSignature ----------------------------
(* Instances of SignaturePackage for TLC. *)
EXTENDS SignaturePackage
CONSTANTS alice, bob

Ask(s, v, p, who) == [svc |-> s, verb |-> v, pin |-> p, caller |-> who]
\* Version replies: of both nodes, of one of them, and one without a version.
Both == [told |-> {1, 2}, unsaid |-> {}]
OddReplies == {[told |-> {1}, unsaid |-> {}], [told |-> {2}, unsaid |-> {}],
               [told |-> {1, 2}, unsaid |-> {2}]}
Scenario(asks, tokens, reloads) ==
    [asks |-> asks, tokens |-> tokens, reloads |-> reloads, latest |-> 1, replies |-> {Both}]
Partial(ask) == [Scenario({ask}, 1, 0) EXCEPT !.replies = OddReplies \cup {Both}]

\* Two tokens of one caller; two verbs of two services that share
\* the lease; two callers that may present each other's tokens, across a reload; both pipelines
\* that download; the read-only checks; and each verb with replies that do not tell of
\* every node.
AllScenarios ==
    {Scenario({Ask("idp", "install", 0, alice)}, 2, 0),
     Scenario({Ask("idp", "rollback", 0, alice), Ask("appid", "uninstall", 0, alice)}, 2, 0),
     Scenario({Ask("idp", "rollback", 0, alice), Ask("idp", "rollback", 0, bob)}, 1, 1),
     Scenario({Ask("appid", "install", 0, alice)}, 2, 0),
     Scenario({Ask("appid", "check", 0, alice), Ask("idp", "check", 0, alice)}, 0, 0)}
    \cup {Partial(Ask(s, "install", 0, alice)) : s \in {"idp", "appid"}}
    \cup {Partial(Ask("idp", "rollback", 0, alice)), Partial(Ask("appid", "uninstall", 0, alice))}

\* One pinned install of a version older than the published one.
PinnedScenario ==
    {[Scenario({Ask("idp", "install", 2, alice)}, 1, 0) EXCEPT !.latest = 3]}
=============================================================================
