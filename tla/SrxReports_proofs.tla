-------------------------- MODULE SrxReports_proofs -------------------------
(***************************************************************************)
(* Proofs about SrxQueries and SrxReports for every configuration, table   *)
(* and query, every nesting bound and every cap. The walks and sums of the *)
(* modules are functions defined by recursion over a finite interval: the  *)
(* first section shows that they satisfy their defining equations, and     *)
(* each induction is over a set of indices.                                *)
(***************************************************************************)
EXTENDS SrxReports, FiniteSetTheorems, WellFoundedInduction, TLAPS

(***************************************************************************)
(* Induction and recursion over 0..N.                                      *)
(***************************************************************************)

\* The order of the naturals as a well-founded relation.
LEMMA NaturalsAreOrdered ==
  \E R : IsWellFoundedOn(R, Nat) /\ \A a, b \in Nat : a < b => <<a, b>> \in R
<1> DEFINE R == OpToRel(<, Nat)
<1>1. IsWellFoundedOn(R, Nat)
  BY NatLessThanWellFounded
<1>2. \A a, b \in Nat : a < b => <<a, b>> \in R
  BY DEF OpToRel
<1> HIDE DEF R
<1> QED
  BY <1>1, <1>2, Zenon

\* A set of naturals that is not empty has a least member.
LEMMA LeastOf ==
  ASSUME NEW S, S \subseteq Nat, S # {}
  PROVE  \E n \in S : \A m \in S : n <= m
<1>1. PICK R : IsWellFoundedOn(R, Nat) /\ \A a, b \in Nat : a < b => <<a, b>> \in R
  BY NaturalsAreOrdered
<1>2. PICK n \in S : \A m \in S : ~ (<<m, n>> \in R)
  BY <1>1, WFMin
<1>3. n \in Nat /\ \A m \in S : m \in Nat /\ ~ (m < n)
  BY <1>1, <1>2, Zenon
<1>4. \A m \in S : n <= m
  BY <1>3
<1> QED
  BY <1>4, Zenon

\* A bounded set of naturals that is not empty has a greatest member.
LEMMA GreatestOf ==
  ASSUME NEW N \in Nat, NEW S, S \subseteq 0..N, S # {}
  PROVE  \E n \in S : \A m \in S : m <= n
<1> DEFINE T == {k \in 0..N : N - k \in S}
<1>1. T \subseteq Nat /\ T # {}
  <2>1. PICK n \in S : TRUE
    OBVIOUS
  <2>2. N - n \in T
    BY <2>1
  <2> QED
    BY <2>2
<1>2. PICK k \in T : \A m \in T : k <= m
  <2> HIDE DEF T
  <2> QED BY <1>1, LeastOf
<1>3. ASSUME NEW m \in S PROVE m <= N - k
  <2>1. N - m \in T
    OBVIOUS
  <2> QED
    BY <1>2, <2>1
<1> QED
  BY <1>2, <1>3

\* Max and Min are members of the sets they are taken of.
LEMMA MaxIsIn ==
  ASSUME NEW N \in Nat, NEW S, S \subseteq 0..N, S # {}
  PROVE  Max(S) \in S /\ \A m \in S : m <= Max(S)
<1> DEFINE Q(x) == x \in S /\ \A m \in S : x >= m
<1>1. \E n : Q(n)
  BY GreatestOf
<1>2. Max(S) = CHOOSE n : Q(n)
  BY DEF Max
<1>3. Q(Max(S))
  <2> HIDE DEF Q
  <2> QED BY <1>1, <1>2, Zenon
<1> QED
  BY <1>3

\* The least one as well.
LEMMA MinIsIn ==
  ASSUME NEW S, S \subseteq Nat, S # {}
  PROVE  Min(S) \in S /\ \A m \in S : Min(S) <= m
<1> DEFINE Q(x) == x \in S /\ \A m \in S : x =< m
<1>1. \E n : Q(n)
  BY LeastOf
<1>2. Min(S) = CHOOSE n : Q(n)
  BY DEF Min
<1>3. Q(Min(S))
  <2> HIDE DEF Q
  <2> QED BY <1>1, <1>2, Zenon
<1> QED
  BY <1>3

\* Induction over an interval: a set with 0, and with n when it has n - 1.
LEMMA Induction ==
  ASSUME NEW N \in Nat, NEW P, 0 \in P, \A n \in 1..N : n - 1 \in P => n \in P
  PROVE  \A n \in 0..N : n \in P
<1> SUFFICES ASSUME NEW k \in 0..N, k \notin P PROVE FALSE
  OBVIOUS
<1> DEFINE B == {n \in 0..N : n \notin P}
<1>1. PICK n \in B : \A m \in B : n <= m
  <2>1. B \subseteq Nat /\ B # {}
    OBVIOUS
  <2> HIDE DEF B
  <2> QED BY <2>1, LeastOf
<1>2. n \in 1..N /\ n - 1 \in 0..N
  BY <1>1
<1>3. n - 1 \in P
  BY <1>1, <1>2
<1> QED
  BY <1>1, <1>2, <1>3

\* f is reached from `a` by the steps of `next`.
Follows(f, N, a, next) == f[0] = a /\ \A n \in 1..N : f[n] = next[n][f[n - 1]]

\* Recursion over an interval: from a start and a step that stays in S there is
\* a function of the indices that follows the steps.
LEMMA Recursion ==
  ASSUME NEW N \in Nat, NEW S, NEW a \in S, NEW next \in [1..N -> [S -> S]]
  PROVE  \E f \in [0..N -> S] : Follows(f, N, a, next)
<1> DEFINE Q(n, f) == f \in [0..n -> S] /\ f[0] = a /\ \A i \in 1..n : f[i] = next[i][f[i - 1]]
           P == {n \in 0..N : \E f : Q(n, f)}
<1>1. 0 \in P
  <2>1. Q(0, [i \in 0..0 |-> a])
    OBVIOUS
  <2> HIDE DEF Q
  <2>2. \E f : Q(0, f)
    BY <2>1, Zenon
  <2> QED
    BY <2>2
<1>2. ASSUME NEW n \in 1..N, n - 1 \in P PROVE n \in P
  <2>1. PICK f : Q(n - 1, f)
    BY <1>2
  <2> DEFINE g == [i \in 0..n |-> IF i = n THEN next[n][f[n - 1]] ELSE f[i]]
  <2>2. f[n - 1] \in S /\ next[n][f[n - 1]] \in S
    BY <2>1
  <2>3. g \in [0..n -> S] /\ g[0] = a
    BY <2>1, <2>2
  <2>4. ASSUME NEW i \in 1..n PROVE g[i] = next[i][g[i - 1]]
    BY <2>1
  <2>5. Q(n, g)
    BY <2>3, <2>4
  <2> HIDE DEF Q
  <2>6. \E h : Q(n, h)
    BY <2>5, Zenon
  <2> QED
    BY <2>6
<1>3. \A n \in 0..N : n \in P
  <2> HIDE DEF P
  <2> QED BY <1>1, <1>2, Induction
<1> QED
  BY <1>3 DEF Follows

(***************************************************************************)
(* The sum of a sequence of counts.                                        *)
(***************************************************************************)

\* A function over 1..N is a sequence of that length.
LEMMA FunctionIsSequence ==
  ASSUME NEW S, NEW N \in Nat, NEW c \in [1..N -> S]
  PROVE  c \in Seq(S) /\ Len(c) = N
OBVIOUS

\* Total adds the counts one after the other.
LEMMA TotalIsASum ==
  ASSUME NEW N \in Nat, NEW c \in [1..N -> Nat]
  PROVE  \E u \in [0..N -> Nat] :
            u[0] = 0 /\ (\A n \in 1..N : u[n] = u[n - 1] + c[n]) /\ Total(c) = u[N]
<1> DEFINE next == [n \in 1..N |-> [v \in Nat |-> v + c[n]]]
           Sat(h) == h = [i \in 0..N |-> IF i = 0 THEN 0 ELSE h[i - 1] + c[i]]
<1>1. Len(c) = N
  BY FunctionIsSequence
<1>2. PICK f \in [0..N -> Nat] : Follows(f, N, 0, next)
  <2>1. next \in [1..N -> [Nat -> Nat]] /\ 0 \in Nat
    OBVIOUS
  <2> HIDE DEF next
  <2> QED BY <2>1, Recursion, Zenon
<1>3. ASSUME NEW n \in 1..N PROVE f[n] = f[n - 1] + c[n]
  <2>1. f[n - 1] \in Nat
    BY <1>2
  <2> QED
    BY <1>2, <2>1 DEF Follows
<1>4. Sat(f)
  BY <1>2, <1>3 DEF Follows
<1> DEFINE u == CHOOSE h : Sat(h)
<1>5. Total(c) = u[N]
  BY <1>1 DEF Total
<1>6. Sat(u)
  <2> HIDE DEF Sat
  <2> QED BY <1>4, Zenon
<1> HIDE DEF u
<1>7. u[0] = 0 /\ \A n \in 1..N : u[n] = u[n - 1] + c[n]
  BY <1>6
<1> DEFINE P == {n \in 0..N : u[n] \in Nat}
<1>8. \A n \in 0..N : n \in P
  <2>1. 0 \in P
    BY <1>7
  <2>2. ASSUME NEW n \in 1..N, n - 1 \in P PROVE n \in P
    <3>1. u[n - 1] \in Nat /\ c[n] \in Nat /\ n \in 0..N
      BY <2>2
    <3>2. u[n] = u[n - 1] + c[n]
      BY <1>7
    <3>3. u[n] \in Nat
      BY <3>1, <3>2
    <3> QED BY <3>1, <3>3
  <2> HIDE DEF P
  <2> QED BY <2>1, <2>2, Induction
<1>9. u \in [0..N -> Nat]
  BY <1>6, <1>8
<1> QED
  BY <1>5, <1>7, <1>9

(***************************************************************************)
(* srx_flow_sessions.                                                      *)
(***************************************************************************)

\* What a reply of a device of N nodes is, node by node.
IsReply(n, live) ==
  /\ n.sessions \in Nat /\ n.counted \in BOOLEAN /\ n.listed \in BOOLEAN
  /\ n.listed /\ n.errors \subseteq {"warning"} => n.sessions = live
  /\ n.counted => n.listed /\ n.errors \subseteq {"warning"}
  /\ ~n.listed \/ ~(n.errors \subseteq {"warning"}) => n.sessions = 0

LEMMA RepliesOfNodes ==
  ASSUME NEW table \in Seq(Nat), NEW nodes \in FlowReplies(table)
  PROVE  /\ DOMAIN nodes = 1..Len(table) /\ Len(nodes) = Len(table)
         /\ \A i \in 1..Len(table) : IsReply(nodes[i], table[i])
<1> DEFINE N == Len(table)
           R == UNION {FlowReply(table[i]) : i \in DOMAIN table}
<1>1. DOMAIN table = 1..N /\ N \in Nat
  OBVIOUS
<1>2. nodes \in [1..N -> R] /\ \A i \in 1..N : nodes[i] \in FlowReply(table[i])
  BY <1>1 DEF FlowReplies
<1>3. Len(nodes) = N
  <2> HIDE DEF R, N
  <2> QED BY <1>1, <1>2, FunctionIsSequence
<1>4. ASSUME NEW live \in Nat, NEW r \in FlowReply(live) PROVE IsReply(r, live)
  <2>1. \/ \E e \in {{}, {"warning"}}, c \in BOOLEAN :
             r = [listed |-> TRUE, errors |-> e, counted |-> c, sessions |-> live]
        \/ \E e \in {{"error"}, {"warning", "error"}, {"none"}, {"none", "warning"}} :
             r = [listed |-> TRUE, errors |-> e, counted |-> FALSE, sessions |-> 0]
        \/ r = [listed |-> FALSE, errors |-> {}, counted |-> FALSE, sessions |-> 0]
    BY <1>4 DEF FlowReply
  <2>2. CASE \E e \in {{}, {"warning"}}, c \in BOOLEAN :
               r = [listed |-> TRUE, errors |-> e, counted |-> c, sessions |-> live]
    BY <2>2 DEF IsReply
  <2>3. CASE \E e \in {{"error"}, {"warning", "error"}, {"none"}, {"none", "warning"}} :
               r = [listed |-> TRUE, errors |-> e, counted |-> FALSE, sessions |-> 0]
    BY <2>3 DEF IsReply
  <2>4. CASE r = [listed |-> FALSE, errors |-> {}, counted |-> FALSE, sessions |-> 0]
    BY <2>4 DEF IsReply
  <2> QED
    BY <2>1, <2>2, <2>3, <2>4
<1>5. \A i \in 1..N : table[i] \in Nat
  BY <1>1
<1> QED
  BY <1>1, <1>2, <1>3, <1>4, <1>5

\* The part of a table that some nodes hold.
Held(table, S) == [i \in DOMAIN table |-> IF i \in S THEN table[i] ELSE 0]

\* A summary that knows a size knows that of the nodes it went by.
LEMMA SummaryIsTheTable ==
  ASSUME NEW table \in Seq(Nat), NEW nodes \in FlowReplies(table), parse_summary_total(nodes).known
  PROVE  parse_summary_total(nodes).total = Total(Held(table, NodesTold(nodes)))
<1> DEFINE N == Len(table)
           c == [i \in DOMAIN nodes |-> IF i \in NodesTold(nodes) THEN nodes[i].sessions ELSE 0]
<1>1. parse_summary_total(nodes).total = Total(c)
  BY DEF parse_summary_total
<1>2. \A i \in NodesTold(nodes) : nodes[i].counted
  BY DEF parse_summary_total
<1>3. DOMAIN nodes = 1..N /\ DOMAIN table = 1..N
  BY RepliesOfNodes
<1>4. ASSUME NEW i \in 1..N, i \in NodesTold(nodes) PROVE nodes[i].sessions = table[i]
  <2>1. IsReply(nodes[i], table[i])
    BY RepliesOfNodes
  <2> QED
    BY <1>2, <1>4, <2>1 DEF IsReply
<1>5. c = Held(table, NodesTold(nodes))
  BY <1>3, <1>4 DEF Held
<1> QED
  BY <1>1, <1>5

\* What the walk has after some nodes.
Item == [listed : BOOLEAN, sessions : Nat, error : BOOLEAN]
Listing == [nodes : Seq(Item), remaining : Nat, truncated : BOOLEAN]

\* A node that answers only with an error, or not at all, shows no sessions.
Failed(n) == ~n.listed \/ (n.errors # {} /\ ~("warning" \in n.errors /\ "error" \notin n.errors))
Taken(acc, n) ==
  IF Failed(n) THEN 0 ELSE IF n.sessions > acc.remaining THEN acc.remaining ELSE n.sessions

Adds(acc, n, after) ==
  /\ after \in Listing /\ Taken(acc, n) \in Nat /\ Taken(acc, n) <= acc.remaining
  /\ after.nodes = Append(acc.nodes, [listed |-> n.listed, sessions |-> Taken(acc, n), error |-> n.errors # {}])
  /\ after.remaining = acc.remaining - Taken(acc, n)
  /\ after.truncated = (acc.truncated \/ (~Failed(n) /\ n.sessions > Taken(acc, n)))

\* One node adds one entry, which takes its sessions from what is left.
LEMMA NodeIsListed ==
  ASSUME NEW acc \in Listing, NEW n, n.sessions \in Nat, n.listed \in BOOLEAN
  PROVE  Adds(acc, n, WalkNode(acc, n))
<1> DEFINE e == [listed |-> n.listed, sessions |-> Taken(acc, n), error |-> n.errors # {}]
<1>1. acc.remaining \in Nat /\ acc.truncated \in BOOLEAN /\ acc.nodes \in Seq(Item)
  BY DEF Listing
<1>2. Taken(acc, n) \in Nat /\ Taken(acc, n) <= acc.remaining
  BY <1>1 DEF Taken
<1>3. WalkNode(acc, n) = [nodes |-> Append(acc.nodes, e), remaining |-> acc.remaining - Taken(acc, n),
                          truncated |-> acc.truncated \/ (~Failed(n) /\ n.sessions > Taken(acc, n))]
  BY DEF WalkNode, extract_rpc_error, Taken, Failed
<1>4. e \in Item
  BY <1>2 DEF Item
<1>5. Append(acc.nodes, e) \in Seq(Item)
  <2> HIDE DEF e
  <2> QED BY <1>1, <1>4
<1>6. acc.remaining - Taken(acc, n) \in Nat
  BY <1>1, <1>2
<1>7. (acc.truncated \/ (~Failed(n) /\ n.sessions > Taken(acc, n))) \in BOOLEAN
  BY <1>1
<1>8. WalkNode(acc, n) \in Listing
  <2> HIDE DEF e
  <2> QED BY <1>3, <1>5, <1>6, <1>7 DEF Listing
<1> HIDE DEF e
<1> QED
  BY <1>2, <1>3, <1>8 DEF e, Adds

AreReplies(nodes, N) == \A i \in 1..N : nodes[i].sessions \in Nat /\ nodes[i].listed \in BOOLEAN

\* parse_walk goes through the nodes one after the other.
LEMMA WalkIsALoop ==
  ASSUME NEW N \in Nat, NEW nodes, DOMAIN nodes = 1..N, Len(nodes) = N, AreReplies(nodes, N), NEW cap \in Nat
  PROVE  \E u : /\ u[0] = [nodes |-> <<>>, remaining |-> cap, truncated |-> FALSE]
                /\ \A n \in 1..N : u[n] = WalkNode(u[n - 1], nodes[n])
                /\ parse_walk(nodes, cap) = u[N]
<1> DEFINE start == [nodes |-> <<>>, remaining |-> cap, truncated |-> FALSE]
           next == [n \in 1..N |-> [v \in Listing |-> WalkNode(v, nodes[n])]]
           Sat(h) == h = [i \in 0..N |-> IF i = 0 THEN start ELSE WalkNode(h[i - 1], nodes[i])]
<1>1. start \in Listing
  BY DEF Listing
<1>2. \A n \in 1..N : \A v \in Listing : WalkNode(v, nodes[n]) \in Listing
  BY NodeIsListed DEF Adds, AreReplies
<1>3. PICK f \in [0..N -> Listing] : Follows(f, N, start, next)
  <2>1. next \in [1..N -> [Listing -> Listing]]
    BY <1>2
  <2> HIDE DEF next, start
  <2> QED BY <1>1, <2>1, Recursion, Zenon
<1>4. ASSUME NEW n \in 1..N PROVE f[n] = WalkNode(f[n - 1], nodes[n])
  <2>1. f[n - 1] \in Listing
    BY <1>3
  <2> QED
    BY <1>3, <2>1 DEF Follows
<1>5. Sat(f)
  <2>1. f = [i \in 0..N |-> f[i]] /\ f[0] = start
    BY <1>3 DEF Follows
  <2>2. ASSUME NEW i \in 0..N PROVE f[i] = IF i = 0 THEN start ELSE WalkNode(f[i - 1], nodes[i])
    <3>1. CASE i = 0
      BY <2>1, <3>1
    <3>2. CASE i \in 1..N
      BY <1>4, <3>2
    <3> QED
      BY <3>1, <3>2
  <2> HIDE DEF start
  <2> QED BY <2>1, <2>2, Zenon
<1> DEFINE u == CHOOSE h : Sat(h)
<1>6. parse_walk(nodes, cap) = u[N]
  BY DEF parse_walk
<1>7. Sat(u)
  <2> HIDE DEF Sat
  <2> QED BY <1>5, Zenon
<1> HIDE DEF u
<1>8. u[0] = start
  <2> HIDE DEF start
  <2> QED BY <1>7
<1>9. ASSUME NEW n \in 1..N PROVE u[n] = WalkNode(u[n - 1], nodes[n])
  <2>1. n \in 0..N /\ n # 0
    OBVIOUS
  <2> HIDE DEF start
  <2> QED BY <1>7, <2>1, Zenon
<1> QED
  BY <1>6, <1>8, <1>9

\* The walk's entries account for the cap, and nothing is cut unless it ran out.
LEMMA WalkIsBounded ==
  ASSUME NEW table \in Seq(Nat), NEW nodes \in FlowReplies(table), NEW cap \in Nat
  PROVE  LET w == parse_walk(nodes, cap)
             listed == Total([i \in DOMAIN w.nodes |-> w.nodes[i].sessions])
         IN /\ listed \in Nat /\ listed <= cap
            /\ w.truncated => listed = cap
            /\ ~w.truncated => Total([i \in DOMAIN nodes |-> nodes[i].sessions]) <= cap
            /\ ~w.truncated => \A i \in DOMAIN table :
                 w.nodes[i].listed => w.nodes[i].error \/ w.nodes[i].sessions = table[i]
<1> DEFINE N == Len(table)
           w == parse_walk(nodes, cap)
<1>1. N \in Nat /\ DOMAIN table = 1..N /\ DOMAIN nodes = 1..N /\ Len(nodes) = N
  BY RepliesOfNodes
<1>2. \A i \in 1..N : nodes[i].sessions \in Nat /\ nodes[i].listed \in BOOLEAN
  BY RepliesOfNodes DEF IsReply
<1> HIDE DEF N
<1>0. AreReplies(nodes, N)
  BY <1>2 DEF AreReplies
<1>3. PICK u : /\ u[0] = [nodes |-> <<>>, remaining |-> cap, truncated |-> FALSE]
               /\ \A n \in 1..N : u[n] = WalkNode(u[n - 1], nodes[n])
               /\ w = u[N]
  BY <1>1, <1>0, WalkIsALoop
<1> HIDE DEF w
<1> DEFINE Entry(n, i) ==
             /\ u[n].nodes[i].sessions = u[i - 1].remaining - u[i].remaining
             /\ u[n].nodes[i].error = (nodes[i].errors # {})
             /\ u[n].nodes[i].listed = nodes[i].listed
             /\ ~u[n].truncated => \/ Failed(nodes[i]) /\ u[n].nodes[i].sessions = 0
                                   \/ u[n].nodes[i].sessions = nodes[i].sessions
           Q(n) == /\ u[n] \in Listing /\ Len(u[n].nodes) = n
                   /\ u[n].truncated => u[n].remaining = 0
                   /\ \A i \in 1..n : Entry(n, i)
           P == {n \in 0..N : Q(n)}
<1>4. Q(0)
  BY <1>3 DEF Listing
<1>5. ASSUME NEW n \in 1..N, Q(n - 1) PROVE Q(n)
  <2> DEFINE b == u[n - 1]
             t == Taken(b, nodes[n])
  <2>1. b \in Listing /\ n - 1 \in Nat /\ Len(b.nodes) = n - 1
    BY <1>5
  <2>2. nodes[n].sessions \in Nat /\ nodes[n].listed \in BOOLEAN /\ u[n] = WalkNode(b, nodes[n])
    BY <1>2, <1>3
  <2>3. /\ u[n] \in Listing /\ t \in Nat /\ t <= b.remaining
        /\ u[n].nodes = Append(b.nodes, [listed |-> nodes[n].listed, sessions |-> t, error |-> nodes[n].errors # {}])
        /\ u[n].remaining = b.remaining - t
        /\ u[n].truncated = (b.truncated \/ (~Failed(nodes[n]) /\ nodes[n].sessions > t))
    <3> HIDE DEF b
    <3>1. Adds(b, nodes[n], u[n])
      BY <2>1, <2>2, NodeIsListed, Zenon
    <3> QED
      BY <3>1 DEF Adds
  <2>4. b.remaining \in Nat /\ u[n].remaining \in Nat /\ b.nodes \in Seq(Item)
        /\ b.truncated \in BOOLEAN
    BY <2>1, <2>3 DEF Listing
  <2>5. t = IF Failed(nodes[n]) THEN 0
            ELSE IF nodes[n].sessions > b.remaining THEN b.remaining ELSE nodes[n].sessions
    BY DEF Taken
  <2> HIDE DEF t
  <2>6. Len(u[n].nodes) = n
    BY <2>1, <2>3, <2>4
  <2>7. u[n].truncated => u[n].remaining = 0
    <3>1. b.truncated => b.remaining = 0
      BY <1>5
    <3> HIDE DEF b
    <3> QED BY <2>2, <2>3, <2>4, <2>5, <3>1
  <2>8. ASSUME NEW i \in 1..n PROVE Entry(n, i)
    <3>1. CASE i = n
      <4>1. u[n].nodes[i] = [listed |-> nodes[n].listed, sessions |-> t, error |-> nodes[n].errors # {}]
        BY <2>1, <2>3, <2>4, <3>1
      <4>2. u[n].nodes[i].sessions = t /\ u[n].nodes[i].error = (nodes[n].errors # {})
            /\ u[n].nodes[i].listed = nodes[n].listed
        BY <4>1
      <4>3. t = u[i - 1].remaining - u[i].remaining
        BY <2>3, <2>4, <3>1
      <4>4. ~u[n].truncated => (Failed(nodes[i]) /\ t = 0) \/ t = nodes[i].sessions
        BY <2>2, <2>3, <2>4, <2>5, <3>1
      <4> QED
        BY <3>1, <4>2, <4>3, <4>4
    <3>2. CASE i \in 1..(n - 1)
      <4>1. u[n].nodes[i] = b.nodes[i]
        BY <2>1, <2>3, <2>4, <3>2
      <4>2. ~u[n].truncated => ~b.truncated
        BY <2>3
      <4>3. Entry(n - 1, i)
        BY <1>5, <3>2
      <4> QED
        BY <4>1, <4>2, <4>3
    <3> QED
      BY <3>1, <3>2
  <2> HIDE DEF Entry, b
  <2> QED
    BY <2>3, <2>6, <2>7, <2>8
<1>6. \A n \in 0..N : Q(n)
  <2>1. \A n \in 0..N : n \in P
    <3>1. 0 \in P /\ \A n \in 1..N : n - 1 \in P => n \in P
      <4> HIDE DEF Q
      <4> QED BY <1>1, <1>4, <1>5
    <3> HIDE DEF P
    <3> QED BY <1>1, <3>1, Induction
  <2> QED
    BY <2>1
<1>7. \A n \in 0..N : u[n].remaining \in Nat
  BY <1>6 DEF Listing
<1>8. Q(N) /\ w = u[N] /\ w \in Listing
  <2>1. N \in 0..N
    BY <1>1
  <2> QED
    BY <1>3, <1>6, <2>1
<1>9. DOMAIN w.nodes = 1..N
  BY <1>8 DEF Listing
<1> DEFINE taken == [i \in DOMAIN w.nodes |-> w.nodes[i].sessions]
<1>10. taken \in [1..N -> Nat] /\ \A i \in 1..N : taken[i] = w.nodes[i].sessions
  <2>1. w.nodes \in Seq(Item)
    BY <1>8 DEF Listing
  <2>2. \A i \in 1..N : w.nodes[i] \in Item
    <3>1. Len(w.nodes) = N
      BY <1>8
    <3> QED
      BY <2>1, <3>1
  <2>3. \A i \in 1..N : w.nodes[i].sessions \in Nat
    BY <2>2 DEF Item
  <2> QED
    BY <1>9, <2>3
<1> HIDE DEF taken
<1>11. PICK s \in [0..N -> Nat] :
         s[0] = 0 /\ (\A n \in 1..N : s[n] = s[n - 1] + taken[n]) /\ Total(taken) = s[N]
  BY <1>1, <1>10, TotalIsASum
<1> DEFINE T == {n \in 0..N : s[n] = cap - u[n].remaining}
<1>12. \A n \in 0..N : n \in T
  <2>1. 0 \in T
    BY <1>1, <1>3, <1>11
  <2>2. ASSUME NEW n \in 1..N, n - 1 \in T PROVE n \in T
    <3>1. taken[n] = u[n - 1].remaining - u[n].remaining
      BY <1>8, <1>10
    <3>2. u[n - 1].remaining \in Nat /\ u[n].remaining \in Nat
      <4>1. n - 1 \in 0..N /\ n \in 0..N
        BY <1>1
      <4> QED
        BY <1>7, <4>1
    <3>3. s[n] = s[n - 1] + taken[n] /\ s[n - 1] = cap - u[n - 1].remaining
      BY <1>11, <2>2
    <3>4. n \in 0..N
      OBVIOUS
    <3> QED
      BY <3>1, <3>2, <3>3, <3>4
  <2> HIDE DEF T
  <2> QED BY <1>1, <2>1, <2>2, Induction
<1>13. Total(taken) = cap - w.remaining /\ w.remaining \in Nat /\ Total(taken) \in Nat
  <2>1. N \in 0..N
    BY <1>1
  <2> QED
    BY <1>7, <1>8, <1>11, <1>12, <2>1
<1>14. w.truncated => w.remaining = 0
  BY <1>8
<1>15. ASSUME ~w.truncated, NEW i \in 1..N
       PROVE  /\ taken[i] = nodes[i].sessions
              /\ w.nodes[i].listed => w.nodes[i].error \/ w.nodes[i].sessions = table[i]
  <2>1. \/ Failed(nodes[i]) /\ w.nodes[i].sessions = 0
        \/ w.nodes[i].sessions = nodes[i].sessions
    BY <1>8, <1>15
  <2>2. w.nodes[i].error = (nodes[i].errors # {}) /\ w.nodes[i].listed = nodes[i].listed
    BY <1>8
  <2>3. /\ nodes[i].listed /\ nodes[i].errors \subseteq {"warning"} => nodes[i].sessions = table[i]
        /\ ~nodes[i].listed \/ ~(nodes[i].errors \subseteq {"warning"}) => nodes[i].sessions = 0
    BY RepliesOfNodes DEF N, IsReply
  <2>4. Failed(nodes[i]) => ~nodes[i].listed \/ ~(nodes[i].errors \subseteq {"warning"})
    BY DEF Failed
  <2> QED
    BY <1>10, <2>1, <2>2, <2>3, <2>4
<1>16. ~w.truncated => taken = [i \in DOMAIN nodes |-> nodes[i].sessions]
  <2>1. taken = [i \in 1..N |-> taken[i]]
    BY <1>10
  <2> QED
    BY <1>1, <1>15, <2>1
<1>17. Total(taken) <= cap /\ (w.truncated => Total(taken) = cap)
  BY <1>13, <1>14
<1> QED
  BY <1>1, <1>13, <1>15, <1>16, <1>17 DEF taken, w

\* No step changes the query.
LEMMA QueryIsFixed ==
  ASSUME [QueryNext \/ ReportNext]_queryVars
  PROVE  query' = query
BY DEF queryVars, QueryNext, ReportNext, RefuseQuery, MatchZonePolicies, MatchGlobalPolicies, CommitPolicies,
       ListPolicies, CommitBetweenPages, ResolveAddress, ResolveApplication, ClusterHealth, FlowSummary, FlowWalk, SessionsChange, ServicesStatus

\* The invariant of one call: an answer comes once, at the end.
FlowInv == query.tool = "flow_sessions" =>
  /\ device \in Seq(Nat)
  /\ step # "done" => answer = NoAnswer
  /\ FlowAnswerIsBounded

\* Only the session listing's own steps.
LEMMA FlowSteps ==
  ASSUME query.tool = "flow_sessions", QueryNext \/ ReportNext
  PROVE  RefuseQuery \/ FlowSummary \/ FlowWalk \/ SessionsChange
BY DEF QueryNext, ReportNext, MatchZonePolicies, MatchGlobalPolicies, CommitPolicies, ListPolicies, CommitBetweenPages,
       ResolveAddress, ResolveApplication, ClusterHealth, ServicesStatus

\* The total of no nodes.
LEMMA NoNodes == Total([i \in DOMAIN <<>> |-> (<<>>)[i].sessions]) = 0
<1> DEFINE c == [i \in DOMAIN <<>> |-> (<<>>)[i].sessions]
<1>1. c \in [1..0 -> Nat] /\ 0 \in Nat
  OBVIOUS
<1>2. PICK u \in [0..0 -> Nat] :
        u[0] = 0 /\ (\A n \in 1..0 : u[n] = u[n - 1] + c[n]) /\ Total(c) = u[0]
  <2> HIDE DEF c
  <2> QED BY <1>1, TotalIsASum
<1> QED
  BY <1>2

\* A refusal, an error and a walk are bounded answers; the walk is asked for only
\* of a table within the cap.
LEMMA FlowInvKept ==
  ASSUME query \in Queries, FlowInv, [QueryNext \/ ReportNext]_queryVars
  PROVE  FlowInv'
<1> SUFFICES ASSUME query'.tool = "flow_sessions"
             PROVE  /\ (device \in Seq(Nat))'
                    /\ (step # "done" => answer = NoAnswer)'
                    /\ FlowAnswerIsBounded'
  BY DEF FlowInv
<1>1. CASE UNCHANGED queryVars
  BY <1>1 DEF FlowInv, queryVars, FlowAnswerIsBounded
<1>2. query' = query
  BY QueryIsFixed
<1> SUFFICES ASSUME QueryNext \/ ReportNext, query.tool = "flow_sessions"
             PROVE  /\ (device \in Seq(Nat))'
                    /\ (step # "done" => answer = NoAnswer)'
                    /\ FlowAnswerIsBounded'
  BY <1>1, <1>2
<1>3. query' = query /\ query.cap \in Nat /\ device \in Seq(Nat) /\ (step # "done" => answer = NoAnswer)
      /\ FlowAnswerIsBounded /\ NoAnswer.tag # "active"
  BY <1>2, FlowAssumption DEF FlowInv, NoAnswer
<1>4. ASSUME NEW kind, answer' = Err(kind), step' = "done", device' = device
      PROVE  (device \in Seq(Nat))' /\ (step # "done" => answer = NoAnswer)' /\ FlowAnswerIsBounded'
  <2>1. answer'.tag # "active" /\ step' # "walk"
    BY <1>4 DEF Err
  <2> QED
    BY <1>3, <1>4, <2>1 DEF FlowAnswerIsBounded
<1>5. CASE RefuseQuery
  BY <1>4, <1>5 DEF RefuseQuery
<1>6. CASE FlowSummary
  <2>1. device' = device /\ moved' = moved
    BY <1>6 DEF FlowSummary
  <2>2. CASE \E kind \in {"invalid_input", "transport"} : answer' = Err(kind) /\ step' = "done"
    BY <1>4, <2>1, <2>2
  <2>3. ASSUME NEW nodes \in FlowReplies(device), plan_walk(parse_summary_total(nodes), query.cap) = "proceed",
               step = "start", step' = "walk", partial' = NodesTold(nodes), UNCHANGED answer
        PROVE  (device \in Seq(Nat))' /\ (step # "done" => answer = NoAnswer)' /\ FlowAnswerIsBounded'
    <3>1. parse_summary_total(nodes).known /\ ~(parse_summary_total(nodes).total > query.cap)
      BY <2>3 DEF plan_walk, parse_summary_total
    <3> DEFINE held == Held(device, NodesTold(nodes))
    <3>2. parse_summary_total(nodes).total = Total(held)
      BY <1>3, <3>1, SummaryIsTheTable
    <3>3. Total(held) \in Nat
      <4>1. Len(device) \in Nat /\ held \in [1..Len(device) -> Nat]
        BY <1>3 DEF Held
      <4> HIDE DEF held
      <4> QED
        BY <4>1, TotalIsASum
    <3>4. Total(held) <= query.cap
      BY <1>3, <3>1, <3>2, <3>3
    <3>5. answer' = NoAnswer
      BY <1>3, <2>3
    <3> QED
      BY <1>3, <2>1, <2>3, <3>4, <3>5 DEF FlowAnswerIsBounded, Held
  <2>4. ASSUME NEW plan \in {"count_unavailable", "count_exceeds_cap"}, step' = "done",
               answer' = [tag |-> "active", nodes |-> <<>>, truncated |-> TRUE, refused |-> plan, raw |-> 0]
        PROVE  (device \in Seq(Nat))' /\ (step # "done" => answer = NoAnswer)' /\ FlowAnswerIsBounded'
    <3>1. answer'.nodes = <<>> /\ answer'.raw = 0 /\ answer'.refused # "no"
      BY <2>4
    <3>2. Total([i \in DOMAIN answer'.nodes |-> answer'.nodes[i].sessions]) = 0
      BY <3>1, NoNodes
    <3> QED
      BY <1>3, <2>1, <2>4, <3>1, <3>2 DEF FlowAnswerIsBounded
  <2>5. ASSUME NEW nodes \in FlowReplies(device)
        PROVE  \/ plan_walk(parse_summary_total(nodes), query.cap) = "proceed"
               \/ plan_walk(parse_summary_total(nodes), query.cap) \in {"count_unavailable", "count_exceeds_cap"}
    BY DEF plan_walk
  <2> QED
    BY <1>6, <2>2, <2>3, <2>4, <2>5 DEF FlowSummary
<1>7. CASE FlowWalk
  <2>1. device' = device /\ moved' = moved /\ step' = "done"
    BY <1>7 DEF FlowWalk
  <2>2. CASE answer' = Err("transport")
    BY <1>4, <2>1, <2>2
  <2>3. ASSUME NEW nodes \in FlowReplies(device),
               answer' = [tag |-> "active", nodes |-> parse_walk(nodes, query.cap).nodes,
                          truncated |-> parse_walk(nodes, query.cap).truncated, refused |-> "no",
                          raw |-> compose_walk_raw(query, nodes, parse_walk(nodes, query.cap).truncated)]
        PROVE  FlowAnswerIsBounded'
    <3> DEFINE w == parse_walk(nodes, query.cap)
               listed == Total([i \in DOMAIN w.nodes |-> w.nodes[i].sessions])
    <3>1. /\ listed \in Nat /\ listed <= query.cap
          /\ w.truncated => listed = query.cap
          /\ ~w.truncated => Total([i \in DOMAIN nodes |-> nodes[i].sessions]) <= query.cap
          /\ ~w.truncated => \A i \in DOMAIN device :
               w.nodes[i].listed => w.nodes[i].error \/ w.nodes[i].sessions = device[i]
      BY <1>3, WalkIsBounded
    <3>2. compose_walk_raw(query, nodes, w.truncated) <= query.cap
      BY <1>3, <3>1 DEF compose_walk_raw
    <3>3. answer'.nodes = w.nodes /\ answer'.truncated = w.truncated
          /\ answer'.raw = compose_walk_raw(query, nodes, w.truncated)
      BY <2>3
    <3> HIDE DEF w
    <3> QED
      BY <1>3, <2>1, <3>1, <3>2, <3>3 DEF FlowAnswerIsBounded
  <2> QED
    BY <1>3, <1>7, <2>1, <2>2, <2>3 DEF FlowWalk
<1>8. CASE SessionsChange
  <2>1. device' \in Seq(Nat) /\ moved' /\ step' = "walk" /\ answer' = answer /\ step = "walk"
    BY <1>8, FlowAssumption DEF SessionsChange
  <2>2. answer' = NoAnswer
    BY <1>3, <2>1
  <2> QED
    BY <1>3, <2>1, <2>2 DEF FlowAnswerIsBounded
<1> QED
  BY <1>5, <1>6, <1>7, <1>8, FlowSteps

(***************************************************************************)
(* srx_policy_match.                                                       *)
(***************************************************************************)

\* While the global tier is asked, the zone pair fell through to the default of
\* the device that answered.
VerdictInv == query.tool = "policy_match" =>
  /\ device \in PolicyConfigs
  /\ step # "done" => answer = NoAnswer
  /\ step = "global" =>
       /\ partial.tag = "active" /\ partial.verdict = "no_match" /\ partial.is_global = FALSE
       /\ ~moved => device.zone = "none" /\ partial.default_action = device.default
  /\ VerdictIsTheDevices

\* What the parser makes of a tier's reply, whichever node gave it.
Parsed(payload, global, reply) ==
  \/ reply.tag = "error"
  \/ /\ payload.action \in {"deny-all", "permit-all"}
     /\ reply = [tag |-> "active", verdict |-> "no_match", is_global |-> FALSE, default_action |-> payload.action]
  \/ /\ payload.action \in {"permit", "deny", "reject"} /\ (global \/ payload.zones # "absent")
     /\ reply = [tag |-> "active", verdict |-> payload.action, default_action |-> "none",
                 is_global |-> global \/ payload.zones = "any"]

\* The parser takes a tier's reply for what it is.
LEMMA TierIsParsed ==
  ASSUME NEW payload, NEW nodes \in NodeReplies(payload), NEW global \in BOOLEAN
  PROVE  Parsed(payload, global, parse_reply(nodes, global))
<1> DEFINE Good == {i \in DOMAIN nodes : nodes[i] # RpcError}
<1>1. \A i \in DOMAIN nodes : nodes[i] \in {RpcError, payload}
  BY DEF NodeReplies
<1>2. Good \subseteq Nat
  BY DEF NodeReplies
<1>3. CASE Good = {}
  <2>1. parse_reply(nodes, global) = Err("rpc")
    BY <1>3 DEF parse_reply
  <2> QED
    BY <2>1 DEF Err, Parsed
<1>4. CASE Good # {}
  <2>1. Min(Good) \in Good
    <3> HIDE DEF Good
    <3> QED BY <1>2, <1>4, MinIsIn
  <2>2. nodes[Min(Good)] = payload
    BY <1>1, <2>1
  <2>3. CASE payload.action = "absent"
    <3>1. parse_reply(nodes, global) = Err("schema")
      BY <1>4, <2>2, <2>3 DEF parse_reply
    <3> QED
      BY <3>1 DEF Err, Parsed
  <2>4. CASE payload.action \in {"deny-all", "permit-all"}
    <3>1. parse_reply(nodes, global) =
            [tag |-> "active", verdict |-> "no_match", is_global |-> FALSE, default_action |-> payload.action]
      BY <1>4, <2>2, <2>4 DEF parse_reply
    <3> QED
      BY <2>4, <3>1 DEF Parsed
  <2>5. CASE payload.action \in {"permit", "deny", "reject"}
    <3>1. parse_reply(nodes, global) =
            IF ~global /\ payload.zones = "absent" THEN Err("schema")
            ELSE [tag |-> "active", verdict |-> payload.action, default_action |-> "none",
                  is_global |-> global \/ payload.zones = "any"]
      BY <1>4, <2>2, <2>5 DEF parse_reply
    <3>2. Err("schema").tag = "error"
      BY DEF Err
    <3> QED
      BY <2>5, <3>1, <3>2 DEF Parsed
  <2>6. CASE payload.action \notin {"permit", "deny", "reject", "deny-all", "permit-all", "absent"}
    <3>1. parse_reply(nodes, global) = Err("parse")
      BY <1>4, <2>2, <2>6 DEF parse_reply
    <3> QED
      BY <3>1 DEF Err, Parsed
  <2> QED
    BY <2>3, <2>4, <2>5, <2>6
<1> QED
  BY <1>3, <1>4

\* What a configuration answers to the RPC of the zone pair.
LEMMA ZoneOfTheDevice ==
  ASSUME NEW d \in PolicyConfigs, NEW payload \in TierReplies(d, "zone")
  PROVE  /\ payload.action \in {"deny-all", "permit-all"} => d.zone = "none" /\ payload.action = d.default
         /\ payload.action \in {"permit", "deny", "reject"} /\ payload.zones # "absent" =>
              \/ d.zone = payload.action /\ payload.zones # "any"
              \/ d.zone = "none" /\ d.global = payload.action /\ payload.zones = "any"
<1>1. d.zone \notin {"deny-all", "permit-all"} /\ d.global \notin {"deny-all", "permit-all"}
      /\ d.default \in {"deny-all", "permit-all"}
  BY PoliciesAssumption DEF IsAction
<1>2. d["zone"] = d.zone
  OBVIOUS
<1> QED
  BY <1>1, <1>2 DEF TierReplies, Matched

\* What it answers to the RPC of the global policies.
LEMMA GlobalOfTheDevice ==
  ASSUME NEW d \in PolicyConfigs, NEW payload \in TierReplies(d, "global")
  PROVE  /\ payload.action \in {"deny-all", "permit-all"} => d.global = "none" /\ payload.action = d.default
         /\ payload.action \in {"permit", "deny", "reject"} => d.global = payload.action
<1>1. d.global \notin {"deny-all", "permit-all"} /\ d.default \in {"deny-all", "permit-all"}
  BY PoliciesAssumption DEF IsAction
<1>2. d["global"] = d.global
  OBVIOUS
<1> QED
  BY <1>1, <1>2 DEF TierReplies, Matched

\* Only the policy match's own steps.
LEMMA VerdictSteps ==
  ASSUME query.tool = "policy_match", QueryNext \/ ReportNext
  PROVE  RefuseQuery \/ MatchZonePolicies \/ MatchGlobalPolicies \/ CommitPolicies
BY DEF QueryNext, ReportNext, ListPolicies, CommitBetweenPages, ResolveAddress, ResolveApplication, ClusterHealth,
       FlowSummary, FlowWalk, SessionsChange, ServicesStatus

\* Every step of a policy match keeps its invariant.
LEMMA VerdictInvKept ==
  ASSUME query \in Queries, VerdictInv, [QueryNext \/ ReportNext]_queryVars
  PROVE  VerdictInv'
<1>1. query' = query
  BY QueryIsFixed
<1> SUFFICES ASSUME query.tool = "policy_match" PROVE VerdictInv'
  BY <1>1 DEF VerdictInv
<1>2. CASE UNCHANGED queryVars
  BY <1>2 DEF VerdictInv, queryVars, VerdictIsTheDevices
<1> SUFFICES ASSUME QueryNext \/ ReportNext PROVE VerdictInv'
  BY <1>2
<1>3. /\ device \in PolicyConfigs /\ VerdictIsTheDevices /\ (step # "done" => answer = NoAnswer)
      /\ step = "global" =>
           /\ partial.tag = "active" /\ partial.verdict = "no_match" /\ partial.is_global = FALSE
           /\ ~moved => device.zone = "none" /\ partial.default_action = device.default
  BY DEF VerdictInv
<1>4. NoAnswer.tag # "active" /\ \A kind : Err(kind).tag # "active"
  BY DEF NoAnswer, Err
<1>5. ASSUME step' = "done", device' = device, answer'.tag # "active"
      PROVE  VerdictInv'
  BY <1>1, <1>3, <1>5 DEF VerdictInv, VerdictIsTheDevices
<1>6. CASE RefuseQuery
  BY <1>4, <1>5, <1>6 DEF RefuseQuery
<1>7. CASE MatchZonePolicies
  <2>1. device' = device /\ moved' = moved /\ step = "start"
    BY <1>7 DEF MatchZonePolicies
  <2>2. CASE answer' = Err("transport") /\ step' = "done"
    BY <1>4, <1>5, <2>1, <2>2
  <2>3. ASSUME NEW payload \in TierReplies(device, "zone"), NEW nodes \in NodeReplies(payload),
               IF parse_reply(nodes, FALSE).tag = "active" /\ parse_reply(nodes, FALSE).verdict = "no_match"
               THEN partial' = parse_reply(nodes, FALSE) /\ step' = "global" /\ UNCHANGED answer
               ELSE answer' = parse_reply(nodes, FALSE) /\ step' = "done" /\ UNCHANGED partial
        PROVE  VerdictInv'
    <3> DEFINE zone == parse_reply(nodes, FALSE)
    <3>1. Parsed(payload, FALSE, zone)
      BY TierIsParsed, Zenon
    <3>5. IF zone.tag = "active" /\ zone.verdict = "no_match"
          THEN partial' = zone /\ step' = "global" /\ UNCHANGED answer
          ELSE answer' = zone /\ step' = "done" /\ UNCHANGED partial
      BY <2>3
    <3> HIDE DEF zone
    <3>2. CASE zone.tag = "error"
      BY <1>5, <2>1, <3>2, <3>5
    <3>3. CASE /\ payload.action \in {"deny-all", "permit-all"}
               /\ zone = [tag |-> "active", verdict |-> "no_match", is_global |-> FALSE,
                          default_action |-> payload.action]
      <4>1. partial' = zone /\ step' = "global" /\ answer' = answer
        BY <3>3, <3>5
      <4>2. device.zone = "none" /\ payload.action = device.default
        BY <1>3, <3>3, ZoneOfTheDevice
      <4>3. answer'.tag # "active"
        BY <1>3, <1>4, <2>1, <4>1
      <4> QED
        BY <1>1, <1>3, <2>1, <3>3, <4>1, <4>2, <4>3 DEF VerdictInv, VerdictIsTheDevices
    <3>4. CASE /\ payload.action \in {"permit", "deny", "reject"} /\ payload.zones # "absent"
               /\ zone = [tag |-> "active", verdict |-> payload.action, default_action |-> "none",
                          is_global |-> FALSE \/ payload.zones = "any"]
      <4>1. answer' = zone /\ step' = "done"
        BY <3>4, <3>5
      <4>2. \/ device.zone = payload.action /\ payload.zones # "any"
            \/ device.zone = "none" /\ device.global = payload.action /\ payload.zones = "any"
        BY <1>3, <3>4, ZoneOfTheDevice
      <4>3. zone.verdict = payload.action /\ zone.default_action = "none" /\ zone.is_global = (payload.zones = "any")
        BY <3>4
      <4>4. Evaluate(device).verdict = payload.action /\ Evaluate(device).is_global = (payload.zones = "any")
        BY <3>4, <4>2 DEF Evaluate
      <4> QED
        BY <1>1, <1>3, <2>1, <3>4, <4>1, <4>3, <4>4 DEF VerdictInv, VerdictIsTheDevices
    <3> QED
      BY <3>1, <3>2, <3>3, <3>4 DEF Parsed
  <2> QED
    BY <1>7, <2>2, <2>3 DEF MatchZonePolicies
<1>8. CASE MatchGlobalPolicies
  <2>1. device' = device /\ moved' = moved /\ step = "global" /\ step' = "done"
    BY <1>8 DEF MatchGlobalPolicies
  <2>2. CASE answer' = Err("transport")
    BY <1>4, <1>5, <2>1, <2>2
  <2>3. ASSUME NEW payload \in TierReplies(device, "global"), NEW nodes \in NodeReplies(payload),
               answer' = resolve_verdict(partial, parse_reply(nodes, TRUE))
        PROVE  VerdictInv'
    <3> DEFINE global == parse_reply(nodes, TRUE)
    <3>1. Parsed(payload, TRUE, global)
      BY TierIsParsed, Zenon
    <3>2. /\ partial.tag = "active" /\ partial.verdict = "no_match" /\ partial.is_global = FALSE
          /\ ~moved => device.zone = "none" /\ partial.default_action = device.default
      BY <1>3, <2>1
    <3> HIDE DEF global
    <3>3. answer' = IF global.tag = "error" THEN global
                    ELSE IF global.verdict # "no_match" THEN global ELSE partial
      BY <2>3, <3>2 DEF resolve_verdict, global
    <3>4. CASE global.tag = "error"
      BY <1>5, <2>1, <3>3, <3>4
    <3>5. CASE /\ payload.action \in {"deny-all", "permit-all"}
               /\ global = [tag |-> "active", verdict |-> "no_match", is_global |-> FALSE,
                            default_action |-> payload.action]
      <4>1. answer' = partial
        BY <3>3, <3>5
      <4>2. device.global = "none"
        BY <1>3, <3>5, GlobalOfTheDevice
      <4> QED
        BY <1>1, <1>3, <2>1, <3>2, <4>1, <4>2 DEF VerdictInv, VerdictIsTheDevices, Evaluate
    <3>6. CASE /\ payload.action \in {"permit", "deny", "reject"}
               /\ global = [tag |-> "active", verdict |-> payload.action, default_action |-> "none",
                            is_global |-> TRUE \/ payload.zones = "any"]
      <4>1. answer' = global /\ global.verdict = payload.action /\ global.default_action = "none" /\ global.is_global
        BY <3>3, <3>6
      <4>2. device.global = payload.action /\ payload.action # "none" /\ payload.action # "no_match"
        BY <1>3, <3>6, GlobalOfTheDevice
      <4> QED
        BY <1>1, <1>3, <2>1, <3>2, <3>6, <4>1, <4>2 DEF VerdictInv, VerdictIsTheDevices, Evaluate
    <3> QED
      BY <3>1, <3>4, <3>5, <3>6 DEF Parsed
  <2> QED
    BY <1>8, <2>2, <2>3 DEF MatchGlobalPolicies
<1>9. CASE CommitPolicies
  <2>1. device' \in PolicyConfigs /\ moved' /\ step # "done" /\ step' = step /\ partial' = partial /\ answer' = answer
    BY <1>9 DEF CommitPolicies
  <2>2. answer' = NoAnswer
    BY <1>3, <2>1
  <2> QED
    BY <1>1, <1>3, <1>4, <2>1, <2>2 DEF VerdictInv, VerdictIsTheDevices
<1> QED
  BY <1>6, <1>7, <1>8, <1>9, VerdictSteps

(***************************************************************************)
(* get_srx_security_services_status.                                       *)
(***************************************************************************)

\* One slot of the report says of a service what its reply said at that place.
SlotIsTrue(slot, s, i) ==
  /\ slot = "not_configured" => SaysAbsent(s, i)
  /\ slot = "active" => SaysActive(s, i)

\* A slot is never better or worse than the reply.
LEMMA SlotsAreTrue ==
  ASSUME NEW s \in Services, IsServiceReply(device[s].truth, device[s].reply), NEW i
  PROVE  SlotIsTrue(per_node(device[s].reply, i), s, i)
<1> DEFINE sub == device[s].reply
           truth == device[s].truth
<1>1. CASE ~sub.ok \/ i \notin DOMAIN sub.nodes
  BY <1>1 DEF per_node, SlotIsTrue
<1>2. CASE sub.ok /\ i \in DOMAIN sub.nodes
  <2>1. /\ sub.nodes[i].body \in Bodies(truth[sub.nodes[i].node])
        /\ truth[sub.nodes[i].node] \in {"active", "absent"}
    BY <1>2 DEF IsServiceReply
  <2>2. per_node(sub, i) = ParseService(sub.nodes[i].body)
    BY <1>2 DEF per_node
  <2>3. CASE per_node(sub, i) = "not_configured"
    <3>1. sub.nodes[i].body \in {"refused", "other"}
      BY <2>1, <2>2, <2>3 DEF ParseService, Bodies
    <3>2. sub.nodes[i].body = "refused" => truth[sub.nodes[i].node] = "absent"
      BY <2>1 DEF Bodies
    <3> QED
      BY <1>2, <2>3, <3>1, <3>2 DEF SlotIsTrue, SaysAbsent
  <2>4. CASE per_node(sub, i) = "active"
    <3>1. sub.nodes[i].body = "element"
      BY <2>1, <2>2, <2>4 DEF ParseService, Bodies
    <3>2. truth[sub.nodes[i].node] = "active"
      BY <2>1, <3>1 DEF Bodies
    <3> QED
      BY <1>2, <2>4, <3>2 DEF SlotIsTrue, SaysActive
  <2> QED
    BY <2>3, <2>4 DEF SlotIsTrue
<1> QED
  BY <1>1, <1>2

\* What a slot says depends on the device only.
LEMMA SlotsStay ==
  ASSUME device' = device, NEW s, NEW i
  PROVE  (SaysAbsent(s, i)' <=> SaysAbsent(s, i)) /\ (SaysActive(s, i)' <=> SaysActive(s, i))
BY DEF SaysAbsent, SaysActive

\* The invariant of one call.
ServiceInv == query.tool = "services_status" =>
  /\ device = query.device
  /\ step # "done" => answer = NoAnswer
  /\ AbsentMeansAbsent

\* The captures put together keep the services' truth.
LEMMA ServiceInvKept ==
  ASSUME query \in Queries, ServiceInv, [QueryNext \/ ReportNext]_queryVars
  PROVE  ServiceInv'
<1>1. query' = query
  BY QueryIsFixed
<1> SUFFICES ASSUME query.tool = "services_status" PROVE ServiceInv'
  BY <1>1 DEF ServiceInv
<1>2. CASE UNCHANGED queryVars
  <2>1. device' = device /\ step' = step /\ answer' = answer
    BY <1>2 DEF queryVars
  <2>2. AbsentMeansAbsent'
    BY <1>1, <2>1, SlotsStay DEF ServiceInv, AbsentMeansAbsent
  <2> QED BY <1>1, <2>1, <2>2 DEF ServiceInv
<1>3. CASE RefuseQuery
  BY <1>1, <1>3 DEF RefuseQuery, ServiceInv, AbsentMeansAbsent, Err
<1>4. CASE ServicesStatus
  <2> DEFINE subs == [t \in Services |-> device[t].reply]
             count == NodeCount(subs, query.order)
             nodes == [i \in 1..count |-> [s \in Services |-> per_node(subs[s], i)]]
  <2>1. answer' = IF \A i \in DOMAIN nodes, s \in Services : nodes[i][s] = "not_configured"
                  THEN NotConfigured ELSE [tag |-> "active", nodes |-> nodes]
    BY <1>4 DEF ServicesStatus
  <2>2. device' = device /\ step' = "done" /\ device = query.device
    BY <1>4 DEF ServicesStatus, ServiceInv
  <2>3. \A s \in Services : IsServiceReply(device[s].truth, device[s].reply)
    BY <2>2, ServicesAssumption
  <2>4. \A i \in 1..count, s \in Services : SlotIsTrue(nodes[i][s], s, i)
    BY <2>3, SlotsAreTrue
  <2>5. CASE answer' = [tag |-> "active", nodes |-> nodes]
    <3>1. answer'.tag = "active" /\ answer'.nodes = nodes /\ DOMAIN nodes = 1..count
      BY <2>5
    <3> HIDE DEF nodes
    <3>2. AbsentMeansAbsent'
      BY <1>1, <2>2, <2>4, <3>1, SlotsStay DEF AbsentMeansAbsent, SlotIsTrue
    <3> QED
      BY <1>1, <2>2, <3>2 DEF ServiceInv
  <2>6. CASE answer' = NotConfigured /\ \A i \in DOMAIN nodes, s \in Services : nodes[i][s] = "not_configured"
    <3>1. answer'.tag = "not_configured"
      BY <2>6 DEF NotConfigured
    <3>2. ASSUME NEW s \in Services, NEW i \in 1..count PROVE SaysAbsent(s, i)
      <4>1. nodes[i][s] = "not_configured"
        BY <2>6
      <4> HIDE DEF nodes
      <4> QED
        BY <2>4, <4>1 DEF SlotIsTrue
    <3> HIDE DEF nodes
    <3>3. AbsentMeansAbsent'
      BY <1>1, <2>2, <3>1, <3>2, SlotsStay DEF AbsentMeansAbsent
    <3> QED
      BY <1>1, <2>2, <3>3 DEF ServiceInv
  <2> QED
    BY <2>1, <2>5, <2>6
<1> QED
  BY <1>2, <1>3, <1>4 DEF QueryNext, ReportNext, MatchZonePolicies, MatchGlobalPolicies, CommitPolicies,
       ListPolicies, CommitBetweenPages, ResolveAddress, ResolveApplication, ClusterHealth, FlowSummary, FlowWalk, SessionsChange

(***************************************************************************)
(* srx_list_policies.                                                      *)
(***************************************************************************)

\* The policies of the nodes that answered.
Listed(nodes) == UNION {ToSet(nodes[i].policies) : i \in {j \in DOMAIN nodes : nodes[j].tag = "ok"}}

\* The members of two sequences put together.
LEMMA MembersOfConcat ==
  ASSUME NEW S, NEW a \in Seq(S), NEW b \in Seq(S)
  PROVE  a \o b \in Seq(S) /\ ToSet(a \o b) = ToSet(a) \cup ToSet(b)
<1>1. a \o b \in Seq(S) /\ Len(a \o b) = Len(a) + Len(b)
  OBVIOUS
<1>2. \A i \in 1..Len(a) : (a \o b)[i] = a[i]
  OBVIOUS
<1>3. \A i \in 1..Len(b) : (a \o b)[Len(a) + i] = b[i]
  OBVIOUS
<1>4. DOMAIN a = 1..Len(a) /\ DOMAIN b = 1..Len(b) /\ DOMAIN (a \o b) = 1..(Len(a) + Len(b))
      /\ Len(a) \in Nat /\ Len(b) \in Nat
  BY <1>1
<1>5. ASSUME NEW x \in ToSet(a \o b) PROVE x \in ToSet(a) \cup ToSet(b)
  <2>1. PICK i \in 1..(Len(a) + Len(b)) : x = (a \o b)[i]
    BY <1>4 DEF ToSet
  <2>2. CASE i \in 1..Len(a)
    BY <1>2, <1>4, <2>1, <2>2 DEF ToSet
  <2>3. CASE i \notin 1..Len(a)
    <3>1. i - Len(a) \in 1..Len(b) /\ Len(a) + (i - Len(a)) = i
      BY <1>4, <2>1, <2>3
    <3>2. x = b[i - Len(a)]
      BY <1>3, <2>1, <3>1
    <3> QED
      BY <1>4, <3>1, <3>2 DEF ToSet
  <2> QED
    BY <2>2, <2>3
<1>6. ASSUME NEW x \in ToSet(a) PROVE x \in ToSet(a \o b)
  <2>1. PICK i \in 1..Len(a) : x = a[i]
    BY <1>4 DEF ToSet
  <2>2. i \in 1..(Len(a) + Len(b)) /\ x = (a \o b)[i]
    BY <1>2, <1>4, <2>1
  <2> QED
    BY <1>4, <2>2 DEF ToSet
<1>7. ASSUME NEW x \in ToSet(b) PROVE x \in ToSet(a \o b)
  <2>1. PICK i \in 1..Len(b) : x = b[i]
    BY <1>4 DEF ToSet
  <2>2. Len(a) + i \in 1..(Len(a) + Len(b)) /\ x = (a \o b)[Len(a) + i]
    BY <1>3, <1>4, <2>1
  <2> QED
    BY <1>4, <2>2 DEF ToSet
<1> QED
  BY <1>1, <1>5, <1>6, <1>7

\* OfEveryNode lists the policies of every node that answered, and no others.
LEMMA EveryNodeIsListed ==
  ASSUME NEW nodes \in Seq(PolicyReply)
  PROVE  OfEveryNode(nodes) \in Seq(Policy) /\ ToSet(OfEveryNode(nodes)) = Listed(nodes)
<1> DEFINE N == Len(nodes)
           Own(i) == IF nodes[i].tag = "ok" THEN nodes[i].policies ELSE <<>>
           next == [n \in 1..N |-> [v \in Seq(Policy) |-> v \o Own(n)]]
           Sat(h) == h = [i \in 0..N |-> IF i = 0 THEN <<>> ELSE h[i - 1] \o Own(i)]
<1>1. N \in Nat /\ DOMAIN nodes = 1..N
  OBVIOUS
<1>2. \A i \in 1..N : Own(i) \in Seq(Policy)
  <2>1. \A i \in 1..N : nodes[i] \in PolicyReply
    OBVIOUS
  <2> QED
    BY <2>1 DEF PolicyReply
<1> HIDE DEF N, Own
<1>3. PICK f \in [0..N -> Seq(Policy)] : Follows(f, N, <<>>, next)
  <2>1. <<>> \in Seq(Policy) /\ next \in [1..N -> [Seq(Policy) -> Seq(Policy)]]
    BY <1>2
  <2> HIDE DEF next
  <2> QED BY <1>1, <2>1, Recursion, Zenon
<1>4. ASSUME NEW i \in 0..N PROVE f[i] = IF i = 0 THEN <<>> ELSE f[i - 1] \o Own(i)
  <2>1. CASE i = 0
    BY <1>3, <2>1 DEF Follows
  <2>2. CASE i \in 1..N
    <3>1. f[i - 1] \in Seq(Policy)
      BY <1>1, <1>3, <2>2
    <3> QED
      BY <1>3, <2>2, <3>1 DEF Follows
  <2> QED
    BY <1>1, <2>1, <2>2
<1>5. Sat(f)
  <2>1. f = [i \in 0..N |-> f[i]]
    BY <1>3
  <2> QED
    BY <1>4, <2>1, Zenon
<1> DEFINE u == CHOOSE h : Sat(h)
<1>6. OfEveryNode(nodes) = u[N]
  BY DEF OfEveryNode, Own, N
<1>7. Sat(u)
  <2> HIDE DEF Sat
  <2> QED BY <1>5, Zenon
<1> HIDE DEF u
<1>8. u[0] = <<>> /\ \A n \in 1..N : u[n] = u[n - 1] \o Own(n)
  <2>1. 0 \in 0..N /\ \A n \in 1..N : n \in 0..N /\ n # 0
    BY <1>1
  <2> QED
    BY <1>7, <2>1, Zenon
<1> DEFINE Q(n) == u[n] \in Seq(Policy) /\ ToSet(u[n]) = UNION {ToSet(Own(i)) : i \in 1..n}
           P == {n \in 0..N : Q(n)}
<1>9. \A n \in 0..N : n \in P
  <2>1. 0 \in P
    <3>1. ToSet(<<>>) = {} /\ <<>> \in Seq(Policy) /\ 1..0 = {}
      BY DEF ToSet
    <3>2. Q(0)
      BY <1>8, <3>1
    <3> HIDE DEF Q
    <3> QED
      BY <1>1, <3>2
  <2>2. ASSUME NEW n \in 1..N, n - 1 \in P PROVE n \in P
    <3>1. Q(n - 1) /\ n \in 0..N
      BY <1>1, <2>2
    <3>2. u[n] \in Seq(Policy) /\ ToSet(u[n]) = ToSet(u[n - 1]) \cup ToSet(Own(n))
      <4>1. u[n] = u[n - 1] \o Own(n) /\ Own(n) \in Seq(Policy) /\ u[n - 1] \in Seq(Policy)
        BY <1>2, <1>8, <3>1
      <4>2. /\ u[n - 1] \o Own(n) \in Seq(Policy)
            /\ ToSet(u[n - 1] \o Own(n)) = ToSet(u[n - 1]) \cup ToSet(Own(n))
        BY <4>1, MembersOfConcat
      <4> QED
        BY <4>1, <4>2
    <3>3. 1..n = 1..(n - 1) \cup {n}
      BY <1>1
    <3>4. ToSet(u[n]) = UNION {ToSet(Own(i)) : i \in 1..n}
      BY <3>1, <3>2, <3>3
    <3> QED
      BY <3>1, <3>2, <3>4
  <2> HIDE DEF P
  <2> QED BY <1>1, <2>1, <2>2, Induction
<1>10. Q(N)
  BY <1>1, <1>9
<1>11. UNION {ToSet(Own(i)) : i \in 1..N} = Listed(nodes)
  <2>1. \A i \in 1..N : nodes[i].tag = "ok" => Own(i) = nodes[i].policies
    BY DEF Own
  <2>2. \A i \in 1..N : nodes[i].tag # "ok" => ToSet(Own(i)) = {}
    BY DEF Own, ToSet
  <2>3. Listed(nodes) = UNION {ToSet(nodes[i].policies) : i \in {j \in 1..N : nodes[j].tag = "ok"}}
    BY <1>1 DEF Listed
  <2> QED
    BY <2>1, <2>2, <2>3
<1> QED
  BY <1>6, <1>10, <1>11

\* `all` has one policy of each key of the set S.
OncePerKey(S, all) ==
  /\ all \in Seq(Policy)
  /\ \A j \in 1..Len(all) : all[j] \in S
  /\ \A p \in S : \E j \in 1..Len(all) : all[j].key = p.key
  /\ \A i, j \in 1..Len(all) : all[i].key = all[j].key => i = j

\* Adding an unseen policy.
LEMMA OneMore ==
  ASSUME NEW S, NEW all, OncePerKey(S, all), NEW p \in Policy
  PROVE  OncePerKey(S \cup {p}, AddUnseen(all, p))
<1>1. all \in Seq(Policy) /\ Len(all) \in Nat /\ DOMAIN all = 1..Len(all)
  BY DEF OncePerKey
<1>2. CASE \E i \in DOMAIN all : all[i].key = p.key
  <2>1. AddUnseen(all, p) = all
    BY <1>2 DEF AddUnseen
  <2> QED
    BY <1>1, <1>2, <2>1 DEF OncePerKey
<1>3. CASE ~\E i \in DOMAIN all : all[i].key = p.key
  <2> DEFINE more == Append(all, p)
             N == Len(all)
  <2>1. AddUnseen(all, p) = more
    BY <1>3 DEF AddUnseen
  <2>2. more \in Seq(Policy) /\ Len(more) = N + 1 /\ more[N + 1] = p /\ \A i \in 1..N : more[i] = all[i]
    BY <1>1
  <2> HIDE DEF more
  <2>3. \A j \in 1..(N + 1) : j = N + 1 \/ j \in 1..N
    BY <1>1
  <2>4. \A j \in 1..N : j \in 1..(N + 1)
    BY <1>1
  <2>5. N + 1 \in 1..(N + 1)
    BY <1>1
  <2>6. \A j \in 1..N : all[j].key # p.key /\ all[j] \in S
    BY <1>1, <1>3 DEF OncePerKey
  <2>7. \A j \in 1..(N + 1) : more[j] \in S \cup {p}
    BY <2>2, <2>3, <2>6
  <2>8. ASSUME NEW q \in S \cup {p} PROVE \E j \in 1..(N + 1) : more[j].key = q.key
    <3>1. CASE q = p
      BY <2>2, <2>5, <3>1
    <3>2. CASE q \in S
      BY <2>2, <2>4, <3>2 DEF OncePerKey
    <3> QED
      BY <3>1, <3>2
  <2>9. ASSUME NEW i \in 1..(N + 1), NEW j \in 1..(N + 1), more[i].key = more[j].key PROVE i = j
    <3>1. CASE i = N + 1 /\ j = N + 1
      BY <3>1
    <3>2. CASE i = N + 1 /\ j \in 1..N
      BY <2>2, <2>6, <2>9, <3>2
    <3>3. CASE i \in 1..N /\ j = N + 1
      BY <2>2, <2>6, <2>9, <3>3
    <3>4. CASE i \in 1..N /\ j \in 1..N
      BY <2>2, <2>9, <3>4 DEF OncePerKey
    <3> QED
      BY <2>3, <3>1, <3>2, <3>3, <3>4
  <2> QED
    BY <2>1, <2>2, <2>7, <2>8, <2>9 DEF OncePerKey
<1> QED
  BY <1>2, <1>3

\* Deduplicated has each key of the list once.
LEMMA DeduplicatedIsOnce ==
  ASSUME NEW listed \in Seq(Policy)
  PROVE  OncePerKey(ToSet(listed), Deduplicated(listed))
<1> DEFINE N == Len(listed)
           next == [n \in 1..N |-> [v \in Seq(Policy) |-> AddUnseen(v, listed[n])]]
           Sat(h) == h = [i \in 0..N |-> IF i = 0 THEN <<>> ELSE AddUnseen(h[i - 1], listed[i])]
<1>1. N \in Nat /\ DOMAIN listed = 1..N /\ \A i \in 1..N : listed[i] \in Policy
  OBVIOUS
<1> HIDE DEF N
<1>2. ASSUME NEW i \in 1..N, NEW v \in Seq(Policy) PROVE AddUnseen(v, listed[i]) \in Seq(Policy)
  BY <1>1 DEF AddUnseen
<1>3. PICK f \in [0..N -> Seq(Policy)] : Follows(f, N, <<>>, next)
  <2>1. <<>> \in Seq(Policy) /\ next \in [1..N -> [Seq(Policy) -> Seq(Policy)]]
    BY <1>2
  <2> HIDE DEF next
  <2> QED BY <1>1, <2>1, Recursion, Zenon
<1>4. ASSUME NEW i \in 0..N PROVE f[i] = IF i = 0 THEN <<>> ELSE AddUnseen(f[i - 1], listed[i])
  <2>1. CASE i = 0
    BY <1>3, <2>1 DEF Follows
  <2>2. CASE i \in 1..N
    <3>1. f[i - 1] \in Seq(Policy)
      BY <1>1, <1>3, <2>2
    <3> QED
      BY <1>3, <2>2, <3>1 DEF Follows
  <2> QED
    BY <1>1, <2>1, <2>2
<1>5. Sat(f)
  <2>1. f = [i \in 0..N |-> f[i]]
    BY <1>3
  <2> QED
    BY <1>4, <2>1, Zenon
<1> DEFINE u == CHOOSE h : Sat(h)
<1>6. Deduplicated(listed) = u[N]
  BY DEF Deduplicated, N
<1>7. Sat(u)
  <2> HIDE DEF Sat
  <2> QED BY <1>5, Zenon
<1> HIDE DEF u
<1>8. u[0] = <<>> /\ \A n \in 1..N : u[n] = AddUnseen(u[n - 1], listed[n])
  <2>1. 0 \in 0..N /\ \A n \in 1..N : n \in 0..N /\ n # 0
    BY <1>1
  <2> QED
    BY <1>7, <2>1, Zenon
<1> DEFINE Sofar(n) == {listed[i] : i \in 1..n}
           P == {n \in 0..N : OncePerKey(Sofar(n), u[n])}
<1>9. \A n \in 0..N : n \in P
  <2>1. OncePerKey(Sofar(0), u[0])
    <3>1. Sofar(0) = {} /\ u[0] = <<>> /\ <<>> \in Seq(Policy) /\ Len(<<>>) = 0
      BY <1>8
    <3> QED
      BY <3>1 DEF OncePerKey
  <2>2. ASSUME NEW n \in 1..N, n - 1 \in P PROVE n \in P
    <3>1. OncePerKey(Sofar(n - 1), u[n - 1]) /\ n \in 0..N /\ listed[n] \in Policy
      BY <1>1, <2>2
    <3>2. 1..n = 1..(n - 1) \cup {n}
      BY <1>1
    <3>3. Sofar(n) = Sofar(n - 1) \cup {listed[n]}
      BY <3>2
    <3> HIDE DEF Sofar
    <3>4. OncePerKey(Sofar(n), u[n])
      BY <1>8, <3>1, <3>3, OneMore
    <3> QED
      BY <3>1, <3>4
  <2>3. 0 \in P
    <3> HIDE DEF Sofar
    <3> QED BY <1>1, <2>1
  <2> HIDE DEF P
  <2> QED BY <1>1, <2>2, <2>3, Induction
<1>10. OncePerKey(Sofar(N), u[N])
  <2>1. N \in P
    <3> HIDE DEF P
    <3> QED BY <1>1, <1>9
  <2> HIDE DEF Sofar
  <2> QED BY <2>1
<1>11. Sofar(N) = ToSet(listed)
  BY <1>1 DEF ToSet
<1> QED
  BY <1>6, <1>10, <1>11

\* As many policies as keys.
LEMMA KeysAreCounted ==
  ASSUME NEW S, NEW all, OncePerKey(S, all)
  PROVE  Cardinality({p.key : p \in S}) = Len(all)
<1> DEFINE Keys == {p.key : p \in S}
           N == Len(all)
           f == [i \in 1..N |-> all[i].key]
<1>1. N \in Nat
  BY DEF OncePerKey
<1>2. f \in [1..N -> Keys]
  BY DEF OncePerKey
<1>3. \A i, j \in 1..N : f[i] = f[j] => i = j
  BY DEF OncePerKey
<1>4. \A k \in Keys : \E i \in 1..N : f[i] = k
  BY DEF OncePerKey
<1>5. ExistsBijection(1..N, Keys)
  <2> HIDE DEF f, Keys, N
  <2>1. f \in Bijection(1..N, Keys)
    BY <1>2, <1>3, <1>4 DEF Bijection, Injection, Surjection, IsInjective
  <2> QED
    BY <2>1 DEF ExistsBijection
<1> QED
  <2> HIDE DEF Keys, N
  <2>1. Cardinality(Keys) = N
    BY <1>1, <1>5, FS_CountingElements
  <2> QED
    BY <2>1 DEF Keys, N

\* A policy as it is shown, with a count of its own or none.
Shown == [key : STRING \X STRING, hits : SUBSET Nat]
HitsOf(nodes, k) == {{}} \cup {{p.hits} : p \in {q \in Listed(nodes) : q.key = k}}
AllPolicies(nodes) == Deduplicated(OfEveryNode(nodes))

\* The pages so far are the first policies of the list, while no commit changed it.
PagesInv == query.tool = "list_policies" /\ ~moved =>
  /\ device = query.device
  /\ partial \in Seq(Shown) /\ Len(partial) <= Len(AllPolicies(device))
  /\ \A i \in 1..Len(partial) : /\ partial[i].key = AllPolicies(device)[i].key
                                /\ partial[i].hits \in HitsOf(device, partial[i].key)
  /\ step = "done" /\ answer.tag = "active" =>
       Len(partial) = Len(AllPolicies(device)) /\ answer.total_count = Len(AllPolicies(device))

\* The list of a device.
LEMMA ListOfDevice ==
  ASSUME NEW nodes \in Seq(PolicyReply)
  PROVE  OncePerKey(Listed(nodes), AllPolicies(nodes))
BY EveryNodeIsListed, DeduplicatedIsOnce DEF AllPolicies

\* A count is one of the policy's own, or none.
LEMMA CountIsItsOwn ==
  ASSUME NEW nodes \in Seq(PolicyReply), NEW hits \in {<<>>, OfEveryNode(nodes)}, NEW k
  PROVE  HitCount(hits, k) \in HitsOf(nodes, k) /\ HitCount(hits, k) \subseteq Nat
<1> DEFINE Counted == {i \in DOMAIN hits : hits[i].key = k}
<1>1. hits \in Seq(Policy) /\ ToSet(hits) \subseteq Listed(nodes)
  <2>1. ToSet(<<>>) = {} /\ <<>> \in Seq(Policy)
    BY DEF ToSet
  <2> QED
    BY <2>1, EveryNodeIsListed
<1>2. CASE Counted = {}
  <2>1. HitCount(hits, k) = {}
    BY <1>2 DEF HitCount
  <2> QED
    BY <2>1 DEF HitsOf
<1>3. CASE Counted # {}
  <2>1. Len(hits) \in Nat /\ Counted \subseteq 0..Len(hits)
    BY <1>1
  <2>2. Max(Counted) \in Counted
    <3> HIDE DEF Counted
    <3> QED BY <1>3, <2>1, MaxIsIn
  <2>3. HitCount(hits, k) = {hits[Max(Counted)].hits}
    BY <1>3 DEF HitCount
  <2>4. hits[Max(Counted)] \in Listed(nodes) /\ hits[Max(Counted)].key = k
    BY <1>1, <2>2 DEF ToSet
  <2>5. hits[Max(Counted)] \in Policy
    BY <1>1, <2>2
  <2>6. hits[Max(Counted)].hits \in Nat
    BY <2>5 DEF Policy
  <2> HIDE DEF Counted
  <2> QED
    BY <2>3, <2>4, <2>6 DEF HitsOf
<1> QED
  BY <1>2, <1>3

\* One page after another.
LEMMA PagesInvKept ==
  ASSUME query \in Queries, PagesInv, [QueryNext \/ ReportNext]_queryVars
  PROVE  PagesInv'
<1>1. query' = query
  BY QueryIsFixed
<1>5. query.tool = "list_policies" /\ [QueryNext \/ ReportNext]_queryVars => moved' \/ moved' = moved
  BY DEF queryVars, QueryNext, ReportNext, RefuseQuery, MatchZonePolicies, MatchGlobalPolicies, CommitPolicies,
       ListPolicies, CommitBetweenPages, ResolveAddress, ResolveApplication, ClusterHealth, FlowSummary, FlowWalk,
       SessionsChange, ServicesStatus
<1> SUFFICES ASSUME query.tool = "list_policies", ~moved, ~moved' PROVE PagesInv'
  BY <1>1, <1>5 DEF PagesInv
<1>2. CASE UNCHANGED queryVars
  BY <1>2 DEF PagesInv, queryVars
<1>3. CASE RefuseQuery
  <2>1. device' = device /\ partial' = partial /\ answer'.tag # "active"
    BY <1>3 DEF RefuseQuery, Err
  <2> QED
    BY <1>1, <2>1 DEF PagesInv
<1>4. CASE ListPolicies
  <2>1. PICK hits \in {<<>>, OfEveryNode(device)} :
          LET reply == ParsePolicies(device, hits, Len(partial), query.limit)
          IN /\ answer' = reply
             /\ IF reply.tag = "active"
                THEN /\ partial' = partial \o reply.policies
                     /\ step' = IF reply.truncated THEN "start" ELSE "done"
                ELSE step' = "done" /\ UNCHANGED partial
    BY <1>4 DEF ListPolicies
  <2> DEFINE all == AllPolicies(device)
             N == Len(partial)
             T == Len(all)
  <2>2. device' = device /\ device = query.device /\ query.limit \in Nat /\ device \in Seq(PolicyReply)
    BY <1>4, QueriesAssumption DEF ListPolicies, PagesInv
  <2>3. /\ partial \in Seq(Shown) /\ N \in Nat /\ N <= T
        /\ \A i \in 1..N : partial[i].key = all[i].key /\ partial[i].hits \in HitsOf(device, partial[i].key)
    BY DEF PagesInv
  <2>4. all \in Seq(Policy) /\ T \in Nat
    BY <2>2, ListOfDevice DEF OncePerKey
  <2>5. CASE answer'.tag # "active"
    <3>1. partial' = partial
      BY <2>1, <2>5
    <3> QED
      BY <1>1, <2>2, <2>3, <2>5, <3>1 DEF PagesInv
  <2>6. CASE answer'.tag = "active"
    <3> DEFINE page == Page(T, N, query.limit)
               fresh == [i \in 1..(page.end - page.start) |->
                           [key |-> all[page.start + i].key, hits |-> HitCount(hits, all[page.start + i].key)]]
    <3>1. answer' = ParsePolicies(device, hits, N, query.limit) /\ partial' = partial \o answer'.policies
          /\ step' = IF answer'.truncated THEN "start" ELSE "done"
      BY <2>1, <2>6
    <3>2. answer' = [tag |-> "active", truncated |-> page.truncated, total_count |-> T, policies |-> fresh]
      BY <2>6, <3>1 DEF ParsePolicies, Err, AllPolicies
    <3>3. page.start = N /\ page.end \in N..T /\ page.truncated = (page.end < T)
      BY <2>2, <2>3, <2>4 DEF Page
    <3>4. answer'.policies = fresh /\ answer'.total_count = T /\ answer'.truncated = (page.end < T)
      BY <3>2, <3>3
    <3> DEFINE K == page.end - page.start
    <3>5. K \in Nat /\ N + K = page.end /\ N + K <= T
      BY <2>3, <2>4, <3>3
    <3>6. \A i \in 1..K : /\ fresh[i] = [key |-> all[N + i].key, hits |-> HitCount(hits, all[N + i].key)]
                          /\ N + i \in 1..T
      BY <2>3, <2>4, <3>3, <3>5
    <3>7. ASSUME NEW i \in 1..K
          PROVE  /\ fresh[i] \in Shown /\ fresh[i].key = all[N + i].key
                 /\ fresh[i].hits \in HitsOf(device, fresh[i].key)
      <4> HIDE DEF all, N, fresh, K, page
      <4>1. all[N + i] \in Policy
        <5>1. N + i \in 1..Len(all)
          BY <3>6
        <5>2. all \in Seq(Policy)
          BY <2>4
        <5> QED
          BY <5>1, <5>2
      <4>2. all[N + i].key \in STRING \X STRING
        BY <4>1 DEF Policy
      <4>3. HitCount(hits, all[N + i].key) \in HitsOf(device, all[N + i].key) /\ HitCount(hits, all[N + i].key) \subseteq Nat
        BY <2>2, CountIsItsOwn
      <4>4. fresh[i] = [key |-> all[N + i].key, hits |-> HitCount(hits, all[N + i].key)]
        BY <3>6
      <4>5. fresh[i].key = all[N + i].key /\ fresh[i].hits = HitCount(hits, all[N + i].key)
        BY <4>4
      <4>6. fresh[i] \in Shown
        BY <4>2, <4>3, <4>4 DEF Shown
      <4> QED
        BY <4>3, <4>5, <4>6
    <3>8. fresh \in Seq(Shown) /\ Len(fresh) = K
      <4>1. fresh \in [1..K -> Shown]
        <5>1. fresh = [i \in 1..K |-> fresh[i]]
          OBVIOUS
        <5> HIDE DEF fresh, K
        <5> QED BY <3>7, <5>1
      <4> HIDE DEF fresh, K
      <4> QED BY <3>5, <4>1, FunctionIsSequence
    <3> HIDE DEF fresh, K, page, all, N, T
    <3>9. partial' = partial \o fresh
      BY <3>1, <3>4
    <3>10. /\ partial' \in Seq(Shown) /\ Len(partial') = N + K
           /\ \A i \in 1..N : partial'[i] = partial[i]
           /\ \A i \in (N + 1)..(N + K) : partial'[i] = fresh[i - N]
      <4>1. Len(partial) = N
        BY DEF N
      <4>2. partial \o fresh \in Seq(Shown) /\ Len(partial \o fresh) = N + K
        <5>1. partial \in Seq(Shown) /\ fresh \in Seq(Shown)
          BY <2>3, <3>8
        <5>2. partial \o fresh \in Seq(Shown)
          BY <5>1
        <5>3. Len(partial \o fresh) = Len(partial) + Len(fresh)
          BY <5>1
        <5> QED BY <3>8, <4>1, <5>2, <5>3
      <4>3. \A i \in 1..N : (partial \o fresh)[i] = partial[i]
        BY <2>3, <3>8, <4>1
      <4>4. ASSUME NEW i \in (N + 1)..(N + K) PROVE (partial \o fresh)[i] = fresh[i - N]
        <5>1. \A j \in 1..K : (partial \o fresh)[N + j] = fresh[j]
          BY <2>3, <3>5, <3>8, <4>1
        <5>2. i - N \in 1..K /\ N + (i - N) = i
          BY <2>3, <3>5
        <5> QED
          BY <5>1, <5>2
      <4> QED
        BY <3>9, <4>2, <4>3, <4>4
    <3>11. ASSUME NEW i \in 1..Len(partial')
           PROVE  partial'[i].key = all[i].key /\ partial'[i].hits \in HitsOf(device, partial'[i].key)
      <4>1. CASE i \in 1..N
        BY <2>3, <3>10, <4>1
      <4>2. CASE i \in (N + 1)..(N + K)
        <5>1. i - N \in 1..K /\ N + (i - N) = i
          BY <2>3, <3>5, <4>2
        <5> QED
          BY <3>7, <3>10, <4>2, <5>1
      <4> QED
        BY <2>3, <3>5, <3>10, <4>1, <4>2
    <3>12. step' = "done" => Len(partial') = T /\ answer'.total_count = T
      <4>1. CASE page.end < T
        BY <3>1, <3>4, <4>1
      <4>2. CASE ~(page.end < T)
        BY <2>3, <2>4, <3>3, <3>4, <3>5, <3>10, <4>2
      <4> QED
        BY <4>1, <4>2
    <3> QED
      BY <1>1, <2>2, <3>5, <3>10, <3>11, <3>12 DEF PagesInv, all, T
  <2> QED
    BY <2>5, <2>6
<1> QED
  BY <1>2, <1>3, <1>4 DEF QueryNext, ReportNext, MatchZonePolicies, MatchGlobalPolicies, CommitPolicies, CommitBetweenPages,
       ResolveAddress, ResolveApplication, ClusterHealth, FlowSummary, FlowWalk, SessionsChange, ServicesStatus

\* All the pages together are the list.
LEMMA PagesAreTheList ==
  ASSUME query \in Queries, PagesInv
  PROVE  PagesTile
<1> SUFFICES ASSUME query.tool = "list_policies", step = "done", answer.tag = "active", ~moved PROVE PagesTile
  BY DEF PagesTile
<1> DEFINE all == AllPolicies(device)
           Keys == {p.key : p \in Listed(device)}
<1>1. device \in Seq(PolicyReply)
  BY QueriesAssumption DEF PagesInv
<1>2. OncePerKey(Listed(device), all)
  BY <1>1, ListOfDevice
<1>3. /\ DOMAIN partial = 1..Len(all) /\ Len(partial) = Len(all) /\ answer.total_count = Len(all)
      /\ \A i \in 1..Len(all) : partial[i].key = all[i].key /\ partial[i].hits \in HitsOf(device, partial[i].key)
  BY DEF PagesInv
<1>4. Cardinality(Keys) = Len(all)
  BY <1>2, KeysAreCounted
<1> HIDE DEF all
<1>5. {partial[i].key : i \in DOMAIN partial} = Keys
  <2>1. \A i \in 1..Len(all) : partial[i].key \in Keys
    BY <1>2, <1>3 DEF OncePerKey
  <2>2. \A k \in Keys : \E i \in 1..Len(all) : partial[i].key = k
    BY <1>2, <1>3 DEF OncePerKey
  <2> HIDE DEF Keys
  <2> QED
    BY <1>3, <2>1, <2>2
<1> QED
  BY <1>3, <1>4, <1>5 DEF PagesTile, Listed, HitsOf

(***************************************************************************)
(* The names a lookup depends on.                                          *)
(***************************************************************************)

\* A set of names that has the members of every name it has.
IsClosed(nodes, S) == \A n \in S \cap DOMAIN nodes : ToSet(nodes[n].members) \subseteq S

\* The root is reached, and so are the members of what is reached.
LEMMA ReachedIsClosed ==
  ASSUME NEW nodes, NEW root
  PROVE  root \in Reached(nodes, root) /\ IsClosed(nodes, Reached(nodes, root))
<1> DEFINE All == {root} \cup DOMAIN nodes \cup UNION {ToSet(nodes[n].members) : n \in DOMAIN nodes}
           Closed == {S \in SUBSET All : root \in S /\ \A n \in S \cap DOMAIN nodes : ToSet(nodes[n].members) \subseteq S}
<1>1. Reached(nodes, root) = {n \in All : \A S \in Closed : n \in S}
  BY DEF Reached
<1>2. root \in Reached(nodes, root)
  BY <1>1
<1>3. ASSUME NEW n \in Reached(nodes, root), n \in DOMAIN nodes, NEW m \in ToSet(nodes[n].members)
      PROVE  m \in Reached(nodes, root)
  <2>1. m \in All
    BY <1>3
  <2>2. ASSUME NEW S \in Closed PROVE m \in S
    <3>1. n \in S
      BY <1>1, <1>3
    <3> QED
      BY <1>3, <3>1
  <2> HIDE DEF All, Closed
  <2> QED
    BY <1>1, <2>1, <2>2
<1> QED
  BY <1>2, <1>3 DEF IsClosed

\* Nothing else is.
LEMMA ReachedIsLeast ==
  ASSUME NEW nodes, NEW root, NEW S, root \in S, IsClosed(nodes, S)
  PROVE  Reached(nodes, root) \subseteq S
<1> DEFINE All == {root} \cup DOMAIN nodes \cup UNION {ToSet(nodes[n].members) : n \in DOMAIN nodes}
           Closed == {T \in SUBSET All : root \in T /\ \A n \in T \cap DOMAIN nodes : ToSet(nodes[n].members) \subseteq T}
<1>1. Reached(nodes, root) = {n \in All : \A T \in Closed : n \in T}
  BY DEF Reached
<1>2. S \cap All \in Closed
  BY DEF IsClosed
<1> HIDE DEF All, Closed
<1> QED
  BY <1>1, <1>2

\* What a reached name reaches is reached.
LEMMA ReachedThrough ==
  ASSUME NEW nodes, NEW root, NEW m \in Reached(nodes, root)
  PROVE  Reached(nodes, m) \subseteq Reached(nodes, root)
BY ReachedIsClosed, ReachedIsLeast

\* A name and what its members reach.
LEMMA ReachedByMembers ==
  ASSUME NEW nodes, NEW root \in DOMAIN nodes
  PROVE  Reached(nodes, root) = {root} \cup UNION {Reached(nodes, m) : m \in ToSet(nodes[root].members)}
<1> DEFINE Mem == ToSet(nodes[root].members)
           S == {root} \cup UNION {Reached(nodes, m) : m \in Mem}
<1>1. \A m \in Mem : m \in Reached(nodes, root) /\ m \in Reached(nodes, m)
  BY ReachedIsClosed DEF IsClosed
<1>2. \A m \in Mem : Reached(nodes, m) \subseteq Reached(nodes, root)
  BY <1>1, ReachedThrough
<1>3. ASSUME NEW n \in S, n \in DOMAIN nodes, NEW x \in ToSet(nodes[n].members) PROVE x \in S
  <2>1. CASE n = root
    BY <1>1, <1>3, <2>1
  <2>2. ASSUME NEW m \in Mem, n \in Reached(nodes, m) PROVE x \in S
    <3>1. x \in Reached(nodes, m)
      BY <1>3, <2>2, ReachedIsClosed DEF IsClosed
    <3> QED
      BY <3>1
  <2> QED
    BY <1>3, <2>1, <2>2
<1>4. root \in S /\ IsClosed(nodes, S)
  <2> HIDE DEF Mem
  <2>1. root \in S
    OBVIOUS
  <2> HIDE DEF S
  <2> QED
    BY <1>3, <2>1 DEF IsClosed
<1>5. Reached(nodes, root) \subseteq S
  <2> HIDE DEF S
  <2> QED BY <1>4, ReachedIsLeast
<1>6. S \subseteq Reached(nodes, root)
  BY <1>2, ReachedIsClosed
<1> QED
  BY <1>5, <1>6

\* A name without members reaches itself.
LEMMA ReachedAlone ==
  ASSUME NEW nodes, NEW root, root \in DOMAIN nodes => nodes[root].members = <<>>
  PROVE  Reached(nodes, root) = {root}
<1>1. IsClosed(nodes, {root})
  BY DEF IsClosed, ToSet
<1> QED
  BY <1>1, ReachedIsLeast, ReachedIsClosed

\* A chain of one, one longer by a membership, and one shorter.
LEMMA ChainOfOne ==
  ASSUME NEW nodes, NEW root
  PROVE  HasChain(nodes, root, 1)
<1> DEFINE chain == [i \in 1..1 |-> root]
<1>1. chain \in [1..1 -> Reached(nodes, root)] /\ chain[1] = root
  BY ReachedIsClosed
<1>2. 1..(1 - 1) = {}
  OBVIOUS
<1> HIDE DEF chain
<1> QED
  BY <1>1, <1>2 DEF HasChain

\* A chain from a member is one from the set.
LEMMA ChainFromMember ==
  ASSUME NEW nodes, NEW root \in DOMAIN nodes, NEW m \in ToSet(nodes[root].members), NEW k \in Nat, k > 0,
         HasChain(nodes, m, k)
  PROVE  HasChain(nodes, root, k + 1)
<1>1. PICK c \in [1..k -> Reached(nodes, m)] :
        c[1] = m /\ \A i \in 1..(k - 1) : c[i] \in DOMAIN nodes /\ c[i + 1] \in ToSet(nodes[c[i]].members)
  BY DEF HasChain
<1> DEFINE d == [i \in 1..(k + 1) |-> IF i = 1 THEN root ELSE c[i - 1]]
<1>2. Reached(nodes, m) \subseteq Reached(nodes, root) /\ root \in Reached(nodes, root)
  <2>1. m \in Reached(nodes, root)
    BY ReachedIsClosed DEF IsClosed
  <2> QED
    BY <2>1, ReachedThrough, ReachedIsClosed
<1>3. d \in [1..(k + 1) -> Reached(nodes, root)] /\ d[1] = root
  BY <1>1, <1>2
<1>4. ASSUME NEW i \in 1..k PROVE d[i] \in DOMAIN nodes /\ d[i + 1] \in ToSet(nodes[d[i]].members)
  <2>1. CASE i = 1
    BY <1>1, <2>1
  <2>2. CASE i # 1
    <3>1. i - 1 \in 1..(k - 1) /\ d[i] = c[i - 1] /\ d[i + 1] = c[i] /\ (i - 1) + 1 = i
      BY <2>2
    <3> QED
      BY <1>1, <3>1
  <2> QED
    BY <2>1, <2>2
<1>5. (k + 1) - 1 = k
  OBVIOUS
<1> HIDE DEF d
<1> QED
  BY <1>3, <1>4, <1>5 DEF HasChain

\* A longer chain goes through a member.
LEMMA ChainToMember ==
  ASSUME NEW nodes, NEW root, NEW k \in Nat, k > 0, HasChain(nodes, root, k + 1)
  PROVE  root \in DOMAIN nodes /\ \E m \in ToSet(nodes[root].members) : HasChain(nodes, m, k)
<1>1. (k + 1) - 1 = k
  OBVIOUS
<1>2. PICK c \in [1..(k + 1) -> Reached(nodes, root)] :
        c[1] = root /\ \A i \in 1..k : c[i] \in DOMAIN nodes /\ c[i + 1] \in ToSet(nodes[c[i]].members)
  BY <1>1 DEF HasChain
<1>3. 1 \in 1..k /\ 1 + 1 = 2
  OBVIOUS
<1>4. root \in DOMAIN nodes /\ c[2] \in ToSet(nodes[root].members)
  BY <1>2, <1>3
<1> DEFINE m == c[2]
           d == [i \in 1..k |-> c[i + 1]]
           P == {j \in Nat : j \in 0..(k - 1) => c[j + 2] \in Reached(nodes, m)}
<1>5. \A j \in 0..(k - 1) : j \in P
  <2>1. 0 \in P
    BY ReachedIsClosed
  <2>2. ASSUME NEW j \in 1..(k - 1), j - 1 \in P PROVE j \in P
    <3>1. c[(j - 1) + 2] \in Reached(nodes, m) /\ (j - 1) + 2 = j + 1 /\ (j + 1) + 1 = j + 2 /\ j + 1 \in 1..k
      BY <2>2
    <3>2. c[j + 1] \in DOMAIN nodes /\ c[j + 2] \in ToSet(nodes[c[j + 1]].members)
      BY <1>2, <3>1
    <3>3. c[j + 2] \in Reached(nodes, m)
      BY <3>1, <3>2, ReachedIsClosed DEF IsClosed
    <3> QED
      BY <3>3
  <2>3. k - 1 \in Nat
    OBVIOUS
  <2> HIDE DEF P
  <2> QED BY <2>1, <2>2, <2>3, Induction
<1>6. ASSUME NEW i \in 1..k PROVE d[i] = c[i + 1] /\ c[i + 1] \in Reached(nodes, m)
  <2>1. i - 1 \in 0..(k - 1) /\ (i - 1) + 2 = i + 1
    OBVIOUS
  <2>2. i - 1 \in P
    BY <1>5, <2>1
  <2> QED
    BY <2>1, <2>2
<1>7. d \in [1..k -> Reached(nodes, m)] /\ d[1] = m
  BY <1>3, <1>6
<1>8. ASSUME NEW i \in 1..(k - 1) PROVE d[i] \in DOMAIN nodes /\ d[i + 1] \in ToSet(nodes[d[i]].members)
  <2>1. i \in 1..k /\ i + 1 \in 1..k
    OBVIOUS
  <2>2. d[i] = c[i + 1] /\ d[i + 1] = c[(i + 1) + 1]
    BY <2>1
  <2> QED
    BY <1>2, <2>1, <2>2
<1> HIDE DEF d, m
<1>9. HasChain(nodes, m, k)
  BY <1>7, <1>8 DEF HasChain
<1> QED
  BY <1>4, <1>9 DEF m

(***************************************************************************)
(* What is right and what is wrong with a name, and how it follows from    *)
(* its members.                                                            *)
(***************************************************************************)

OnCycle(nodes, n) == n \in DOMAIN nodes /\ \E m \in ToSet(nodes[n].members) : n \in Reached(nodes, m)
LeavesOf(nodes, n) == {x \in Reached(nodes, n) \cap DOMAIN nodes : nodes[x].kind = "leaf"}

\* Nothing is wrong with n, come to through the sets of `path`.
Fine(nodes, left, path, n) ==
  /\ path \cap Reached(nodes, n) = {}
  /\ Reached(nodes, n) \subseteq DOMAIN nodes
  /\ \A x \in Reached(nodes, n) : ~OnCycle(nodes, x)
  /\ ~HasChain(nodes, n, left + 1)

\* What an error says of n.
Wrong(nodes, left, path, n, err) ==
  /\ err \in {"depth", "cycle", "name_not_found"}
  /\ err = "depth" => HasChain(nodes, n, left + 1)
  /\ err = "cycle" => path \cap Reached(nodes, n) # {} \/ \E x \in Reached(nodes, n) : OnCycle(nodes, x)
  /\ err = "name_not_found" => ~(Reached(nodes, n) \subseteq DOMAIN nodes)

\* A leaf.
LEMMA LeafIsFine ==
  ASSUME NEW nodes, NEW n \in DOMAIN nodes, nodes[n].kind = "leaf", nodes[n].members = <<>>,
         NEW path, n \notin path, NEW left \in Nat, left > 0
  PROVE  Fine(nodes, left, path, n) /\ LeavesOf(nodes, n) = {n}
<1>1. Reached(nodes, n) = {n}
  BY ReachedAlone
<1>2. ToSet(nodes[n].members) = {}
  BY DEF ToSet
<1>3. ~HasChain(nodes, n, left + 1)
  BY <1>2, ChainToMember
<1> QED
  BY <1>1, <1>2, <1>3 DEF Fine, LeavesOf, OnCycle

\* A set whose members are fine.
LEMMA SetIsFine ==
  ASSUME NEW nodes, NEW n \in DOMAIN nodes, nodes[n].kind # "leaf", NEW path, n \notin path, NEW left \in Nat, left > 0,
         \A m \in ToSet(nodes[n].members) : Fine(nodes, left - 1, path \cup {n}, m)
  PROVE  /\ Fine(nodes, left, path, n)
         /\ LeavesOf(nodes, n) = UNION {LeavesOf(nodes, m) : m \in ToSet(nodes[n].members)}
<1> DEFINE Mem == ToSet(nodes[n].members)
<1>1. Reached(nodes, n) = {n} \cup UNION {Reached(nodes, m) : m \in Mem}
  BY ReachedByMembers
<1>2. \A m \in Mem : /\ (path \cup {n}) \cap Reached(nodes, m) = {} /\ Reached(nodes, m) \subseteq DOMAIN nodes
                     /\ \A x \in Reached(nodes, m) : ~OnCycle(nodes, x)
                     /\ ~HasChain(nodes, m, (left - 1) + 1)
  BY DEF Fine
<1>3. ~OnCycle(nodes, n)
  BY <1>2 DEF OnCycle
<1>4. ~HasChain(nodes, n, left + 1)
  <2>1. (left - 1) + 1 = left
    OBVIOUS
  <2> QED
    BY <1>2, <2>1, ChainToMember
<1> HIDE DEF Mem
<1>5. path \cap Reached(nodes, n) = {} /\ Reached(nodes, n) \subseteq DOMAIN nodes
      /\ \A x \in Reached(nodes, n) : ~OnCycle(nodes, x)
  BY <1>1, <1>2, <1>3
<1>6. LeavesOf(nodes, n) = UNION {LeavesOf(nodes, m) : m \in Mem}
  BY <1>1 DEF LeavesOf
<1> QED
  BY <1>4, <1>5, <1>6 DEF Fine, Mem

\* What is wrong with a member is wrong with the set.
LEMMA MemberIsWrong ==
  ASSUME NEW nodes, NEW n \in DOMAIN nodes, NEW path, NEW left \in Nat, left > 0, NEW err,
         NEW m \in ToSet(nodes[n].members), Wrong(nodes, left - 1, path \cup {n}, m, err)
  PROVE  Wrong(nodes, left, path, n, err)
<1>1. Reached(nodes, m) \subseteq Reached(nodes, n) /\ n \in Reached(nodes, n)
  <2>1. m \in Reached(nodes, n)
    BY ReachedIsClosed DEF IsClosed
  <2> QED
    BY <2>1, ReachedThrough, ReachedIsClosed
<1>2. (left - 1) + 1 = left
  OBVIOUS
<1>3. err = "depth" => HasChain(nodes, n, left + 1)
  BY <1>2, ChainFromMember DEF Wrong
<1>4. ASSUME err = "cycle"
      PROVE  path \cap Reached(nodes, n) # {} \/ \E x \in Reached(nodes, n) : OnCycle(nodes, x)
  <2>1. CASE \E x \in Reached(nodes, m) : OnCycle(nodes, x)
    BY <1>1, <2>1
  <2>2. CASE path \cap Reached(nodes, m) # {}
    BY <1>1, <2>2
  <2>3. CASE n \in Reached(nodes, m)
    BY <1>1, <2>3 DEF OnCycle
  <2> QED
    BY <1>4, <2>1, <2>2, <2>3 DEF Wrong
<1>5. err = "name_not_found" => ~(Reached(nodes, n) \subseteq DOMAIN nodes)
  BY <1>1 DEF Wrong
<1> QED
  BY <1>3, <1>4, <1>5 DEF Wrong

(***************************************************************************)
(* The walk.                                                               *)
(***************************************************************************)

IsDistinct(s) == \A i, j \in 1..Len(s) : s[i] = s[j] => i = j

\* What a visit of v comes back with when r is its result.
VisitTells(nodes, left, v, r) ==
  /\ r \in Walked
  /\ v.acc.err # "none" => r = v.acc
  /\ v.acc.err = "none" /\ r.err # "none" => Wrong(nodes, left, v.path, v.name, r.err)
  /\ v.acc.err = "none" /\ r.err = "none" =>
       /\ Fine(nodes, left, v.path, v.name)
       /\ ToSet(r.out) = ToSet(v.acc.out) \cup LeavesOf(nodes, v.name)
       /\ IsDistinct(v.acc.out) => IsDistinct(r.out)

\* `more` is `out` with the leaf x, taken once.
WithLeaf(out, x, more) ==
  ToSet(more) = ToSet(out) \cup {x} /\ (IsDistinct(out) => IsDistinct(more))

\* A leaf is added once.
LEMMA LeafIsAdded ==
  ASSUME NEW S, NEW out \in Seq(S), NEW x \in S, NEW more,
         more = IF x \in ToSet(out) THEN out ELSE Append(out, x)
  PROVE  more \in Seq(S) /\ WithLeaf(out, x, more)
<1>1. CASE x \in ToSet(out)
  BY <1>1 DEF WithLeaf
<1>2. CASE x \notin ToSet(out)
  <2>1. more = Append(out, x)
    BY <1>2
  <2> DEFINE N == Len(out)
  <2>2. N \in Nat /\ DOMAIN out = 1..N
    OBVIOUS
  <2>3. more \in Seq(S) /\ Len(more) = N + 1 /\ more[N + 1] = x
    BY <2>1
  <2>4. \A i \in 1..N : more[i] = out[i]
    BY <2>1
  <2>5. DOMAIN more = 1..(N + 1)
    BY <2>3
  <2>6. Len(out) = N
    OBVIOUS
  <2> HIDE DEF N
  <2>7. 1..(N + 1) = 1..N \cup {N + 1} /\ ~(N + 1 \in 1..N)
    BY <2>2
  <2>8. ToSet(more) = ToSet(out) \cup {x}
    <3>1. ToSet(more) = {more[i] : i \in 1..(N + 1)} /\ ToSet(out) = {out[i] : i \in 1..N}
      BY <2>2, <2>5 DEF ToSet
    <3>2. {more[i] : i \in 1..(N + 1)} = {more[i] : i \in 1..N} \cup {more[N + 1]}
      BY <2>7
    <3>3. {more[i] : i \in 1..N} = {out[i] : i \in 1..N}
      BY <2>4
    <3> QED
      BY <2>3, <3>1, <3>2, <3>3
  <2>9. \A i \in 1..N : out[i] # x
    BY <1>2, <2>2 DEF ToSet
  <2>10. ASSUME IsDistinct(out), NEW i \in 1..(N + 1), NEW j \in 1..(N + 1), more[i] = more[j] PROVE i = j
    <3>1. CASE i \in 1..N /\ j \in 1..N
      BY <2>4, <2>6, <2>10, <3>1 DEF IsDistinct
    <3>2. CASE i = N + 1 \/ j = N + 1
      BY <2>3, <2>4, <2>7, <2>9, <2>10, <3>2
    <3> QED
      BY <2>7, <3>1, <3>2
  <2> QED
    BY <2>3, <2>8, <2>10 DEF IsDistinct, WithLeaf
<1> QED
  BY <1>1, <1>2

\* The members are visited one after the other.
LEMMA MembersAreALoop ==
  ASSUME NEW members \in Seq(STRING), NEW below \in [Visit -> Walked], NEW v \in Visit
  PROVE  \E u : /\ u[0] = v.acc
                /\ \A k \in 1..Len(members) :
                     u[k] = below[[name |-> members[k], path |-> v.path \cup {v.name}, acc |-> u[k - 1]]]
                /\ \A k \in 0..Len(members) : u[k] \in Walked
                /\ VisitMembers(members, below, v) = u[Len(members)]
<1> DEFINE N == Len(members)
           At(k, a) == [name |-> members[k], path |-> v.path \cup {v.name}, acc |-> a]
           next == [k \in 1..N |-> [a \in Walked |-> below[At(k, a)]]]
           Sat(h) == h = [k \in 0..N |-> IF k = 0 THEN v.acc ELSE below[At(k, h[k - 1])]]
<1>1. N \in Nat /\ v.acc \in Walked
  BY DEF Visit
<1>2. \A k \in 1..N, a \in Walked : At(k, a) \in Visit
  BY DEF Visit
<1>3. \A k \in 1..N, a \in Walked : below[At(k, a)] \in Walked
  <2> HIDE DEF At
  <2> QED BY <1>2
<1> HIDE DEF N
<1>4. PICK f \in [0..N -> Walked] : Follows(f, N, v.acc, next)
  <2>1. next \in [1..N -> [Walked -> Walked]]
    <3> HIDE DEF At
    <3> QED BY <1>3
  <2> HIDE DEF next
  <2> QED BY <1>1, <2>1, Recursion, Zenon
<1>5. ASSUME NEW k \in 0..N PROVE f[k] = IF k = 0 THEN v.acc ELSE below[At(k, f[k - 1])]
  <2> HIDE DEF At
  <2>1. CASE k = 0
    BY <1>4, <2>1 DEF Follows
  <2>2. CASE k \in 1..N
    <3>1. f[k - 1] \in Walked
      BY <1>1, <1>4, <2>2
    <3> QED
      BY <1>4, <2>2, <3>1 DEF Follows
  <2> QED
    BY <1>1, <2>1, <2>2
<1>6. Sat(f)
  <2>1. f = [k \in 0..N |-> f[k]]
    BY <1>4
  <2> HIDE DEF At
  <2> QED
    BY <1>5, <2>1, Zenon
<1> DEFINE u == CHOOSE h : Sat(h)
<1>7. VisitMembers(members, below, v) = u[N]
  BY DEF VisitMembers, N
<1>8. Sat(u)
  <2> HIDE DEF Sat
  <2> QED BY <1>6, Zenon
<1> HIDE DEF u
<1>9. u[0] = v.acc /\ \A k \in 1..N : u[k] = below[At(k, u[k - 1])]
  <2>1. 0 \in 0..N /\ \A k \in 1..N : k \in 0..N /\ k # 0
    BY <1>1
  <2> HIDE DEF At
  <2> QED
    BY <1>8, <2>1, Zenon
<1> DEFINE P == {k \in 0..N : u[k] \in Walked}
<1>10. \A k \in 0..N : k \in P
  <2>1. 0 \in P /\ \A k \in 1..N : k - 1 \in P => k \in P
    <3> HIDE DEF At
    <3> QED BY <1>1, <1>3, <1>9
  <2> HIDE DEF P
  <2> QED BY <1>1, <2>1, Induction
<1> QED
  BY <1>7, <1>9, <1>10 DEF N

\* What the members tell of the set they are visited for.
MembersTell(nodes, members, left, path, acc, r) ==
  /\ r \in Walked
  /\ r.err # "none" => \E m \in ToSet(members) : Wrong(nodes, left, path, m, r.err)
  /\ r.err = "none" =>
       /\ \A m \in ToSet(members) : Fine(nodes, left, path, m)
       /\ ToSet(r.out) = ToSet(acc.out) \cup UNION {LeavesOf(nodes, m) : m \in ToSet(members)}
       /\ IsDistinct(acc.out) => IsDistinct(r.out)

\* What a sequence is.
LEMMA SequenceIsAList ==
  ASSUME NEW S, NEW s \in Seq(S)
  PROVE  Len(s) \in Nat /\ DOMAIN s = 1..Len(s) /\ \A k \in 1..Len(s) : s[k] \in S
OBVIOUS

\* Visiting the members one after the other adds up what each visit tells.
LEMMA MembersAreVisited ==
  ASSUME NEW nodes, NEW members \in Seq(STRING), NEW left \in Nat, NEW below \in [Visit -> Walked],
         \A w \in Visit : VisitTells(nodes, left, w, below[w]), NEW v \in Visit, v.acc.err = "none"
  PROVE  MembersTell(nodes, members, left, v.path \cup {v.name}, v.acc, VisitMembers(members, below, v))
<1> DEFINE N == Len(members)
           path == v.path \cup {v.name}
           At(k, a) == [name |-> members[k], path |-> path, acc |-> a]
           Leaves(k) == UNION {LeavesOf(nodes, members[j]) : j \in 1..k}
<1>1. PICK u : /\ u[0] = v.acc
               /\ \A k \in 1..N : u[k] = below[At(k, u[k - 1])]
               /\ \A k \in 0..N : u[k] \in Walked
               /\ VisitMembers(members, below, v) = u[N]
  BY MembersAreALoop
<1>2. N \in Nat
  OBVIOUS
<1>a. DOMAIN members = 1..N /\ \A k \in 1..N : members[k] \in STRING
  BY SequenceIsAList, Zenon
<1>3. ToSet(members) = {members[j] : j \in 1..N}
  BY <1>a DEF ToSet
<1>4. path \in SUBSET STRING
  BY DEF Visit
<1> HIDE DEF N, path
<1> DEFINE Good(k) ==
             /\ u[k].err # "none" => \E j \in 1..k : Wrong(nodes, left, path, members[j], u[k].err)
             /\ u[k].err = "none" =>
                  /\ \A j \in 1..k : Fine(nodes, left, path, members[j])
                  /\ ToSet(u[k].out) = ToSet(v.acc.out) \cup Leaves(k)
                  /\ IsDistinct(v.acc.out) => IsDistinct(u[k].out)
           P == {k \in 0..N : Good(k)}
<1>5. 0 \in P
  BY <1>1, <1>2
<1>6. ASSUME NEW k \in 1..N, k - 1 \in P PROVE k \in P
  <2>1. k - 1 \in 0..N /\ k \in 0..N /\ 1..k = 1..(k - 1) \cup {k}
    BY <1>2
  <2>2. u[k - 1] \in Walked /\ u[k] = below[At(k, u[k - 1])]
    BY <1>1, <2>1
  <2> DEFINE w == At(k, u[k - 1])
  <2>3. w \in Visit /\ w.acc = u[k - 1] /\ w.name = members[k] /\ w.path = path
    BY <1>a, <1>4, <2>2 DEF Visit
  <2>4. u[k] = below[w]
    BY <2>2
  <2> HIDE DEF w, At
  <2>5. VisitTells(nodes, left, w, u[k])
    BY <2>3, <2>4
  <2>6. Good(k - 1)
    BY <1>6
  <2>7. Leaves(k) = Leaves(k - 1) \cup LeavesOf(nodes, members[k])
    BY <2>1
  <2> HIDE DEF Leaves
  <2>8. CASE u[k - 1].err # "none"
    <3>1. u[k] = u[k - 1]
      BY <2>3, <2>5, <2>8 DEF VisitTells
    <3>2. PICK j \in 1..(k - 1) : Wrong(nodes, left, path, members[j], u[k - 1].err)
      BY <2>6, <2>8
    <3>3. Good(k)
      BY <2>1, <2>8, <3>1, <3>2
    <3> QED
      BY <2>1, <3>3
  <2>9. CASE u[k - 1].err = "none" /\ u[k].err # "none"
    <3>1. Wrong(nodes, left, path, members[k], u[k].err)
      BY <2>3, <2>5, <2>9 DEF VisitTells
    <3>2. Good(k)
      BY <2>1, <2>9, <3>1
    <3> QED
      BY <2>1, <3>2
  <2>10. CASE u[k - 1].err = "none" /\ u[k].err = "none"
    <3>1. /\ Fine(nodes, left, path, members[k])
          /\ ToSet(u[k].out) = ToSet(u[k - 1].out) \cup LeavesOf(nodes, members[k])
          /\ IsDistinct(u[k - 1].out) => IsDistinct(u[k].out)
      BY <2>3, <2>5, <2>10 DEF VisitTells
    <3>2. \A j \in 1..k : Fine(nodes, left, path, members[j])
      BY <2>1, <2>6, <2>10, <3>1
    <3>3. ToSet(u[k].out) = ToSet(v.acc.out) \cup Leaves(k)
      BY <2>6, <2>7, <2>10, <3>1
    <3>4. IsDistinct(v.acc.out) => IsDistinct(u[k].out)
      BY <2>6, <2>10, <3>1
    <3>5. Good(k)
      BY <2>10, <3>2, <3>3, <3>4
    <3> QED
      BY <2>1, <3>5
  <2> QED
    BY <2>8, <2>9, <2>10
<1>7. N \in P
  <2>1. \A n \in 0..N : n \in P
    <3> HIDE DEF P
    <3> QED BY <1>2, <1>5, <1>6, Induction
  <2> HIDE DEF P
  <2> QED BY <1>2, <2>1
<1>8. Good(N) /\ u[N] \in Walked
  BY <1>1, <1>2, <1>7
<1>9. UNION {LeavesOf(nodes, m) : m \in ToSet(members)} = Leaves(N)
  BY <1>3
<1> DEFINE r == u[N]
<1>10. r.err # "none" => \E m \in ToSet(members) : Wrong(nodes, left, path, m, r.err)
  BY <1>3, <1>8
<1>11. r.err = "none" =>
       /\ \A m \in ToSet(members) : Fine(nodes, left, path, m)
       /\ ToSet(r.out) = ToSet(v.acc.out) \cup UNION {LeavesOf(nodes, m) : m \in ToSet(members)}
       /\ IsDistinct(v.acc.out) => IsDistinct(r.out)
  <2>1. ASSUME r.err = "none" PROVE \A m \in ToSet(members) : Fine(nodes, left, path, m)
    BY <1>3, <1>8, <2>1
  <2> QED
    BY <1>8, <1>9, <2>1
<1>12. MembersTell(nodes, members, left, path, v.acc, r)
  <2> HIDE DEF r
  <2>1. r \in Walked
    BY <1>8 DEF r
  <2> QED BY <1>10, <1>11, <2>1 DEF MembersTell
<1> QED
  BY <1>1, <1>12 DEF path

\* A name of a book.
LEMMA NodeOfABook ==
  ASSUME NEW nodes, IsBook(nodes), NEW n \in DOMAIN nodes
  PROVE  \/ nodes[n].kind = "leaf" /\ nodes[n].members = <<>>
         \/ nodes[n].kind # "leaf" /\ nodes[n].members \in Seq(STRING)
BY DEF IsBook, ConfigNode

\* The five ways a visit ends, by the order of the tests.
LEMMA VisitByCases ==
  ASSUME NEW nodes, NEW left \in Nat, NEW below, NEW v
  PROVE  LET r == VisitOne(nodes, left, below, v)
         IN /\ v.acc.err # "none" => r = v.acc
            /\ v.acc.err = "none" =>
                 /\ left = 0 => r = [v.acc EXCEPT !.err = "depth"]
                 /\ left > 0 /\ v.name \in v.path => r = [v.acc EXCEPT !.err = "cycle"]
                 /\ left > 0 /\ v.name \notin v.path =>
                      /\ v.name \notin DOMAIN nodes => r = [v.acc EXCEPT !.err = "name_not_found"]
                      /\ v.name \in DOMAIN nodes =>
                           /\ nodes[v.name].kind = "leaf" =>
                                r = [v.acc EXCEPT !.out = IF v.name \in ToSet(@) THEN @ ELSE Append(@, v.name)]
                           /\ nodes[v.name].kind # "leaf" => r = VisitMembers(nodes[v.name].members, below, v)
<1>1. CASE v.acc.err # "none"
  BY <1>1 DEF VisitOne
<1>2. CASE v.acc.err = "none" /\ left = 0
  BY <1>2 DEF VisitOne
<1>3. CASE v.acc.err = "none" /\ left > 0
  BY <1>3 DEF VisitOne
<1> QED
  BY <1>1, <1>2, <1>3

\* A visit gives back a walk.
LEMMA VisitIsWalked ==
  ASSUME NEW nodes, IsBook(nodes), NEW left \in Nat, NEW v \in Visit,
         NEW below, left > 0 => below \in [Visit -> Walked]
  PROVE  VisitOne(nodes, left, below, v) \in Walked
<1> DEFINE r == VisitOne(nodes, left, below, v)
<1>1. v.acc \in [err : WalkError, out : Seq(STRING)] /\ v.name \in STRING
  BY DEF Visit, Walked
<1>2. CASE v.acc.err # "none"
  <2>1. r = v.acc
    BY <1>2 DEF VisitOne
  <2> QED BY <1>1, <2>1 DEF Walked
<1>3. CASE v.acc.err = "none" /\ (left = 0 \/ v.name \in v.path \/ v.name \notin DOMAIN nodes)
  <2>1. \/ r = [v.acc EXCEPT !.err = "depth"]
        \/ r = [v.acc EXCEPT !.err = "cycle"]
        \/ r = [v.acc EXCEPT !.err = "name_not_found"]
    <3>1. CASE left = 0
      BY <1>3, <3>1 DEF VisitOne
    <3>2. CASE left # 0 /\ v.name \in v.path
      BY <1>3, <3>2 DEF VisitOne
    <3>3. CASE left # 0 /\ v.name \notin v.path
      BY <1>3, <3>3 DEF VisitOne
    <3> QED
      BY <3>1, <3>2, <3>3
  <2>2. \A e \in WalkError : [v.acc EXCEPT !.err = e] \in Walked
    BY <1>1 DEF Walked
  <2>3. "depth" \in WalkError /\ "cycle" \in WalkError /\ "name_not_found" \in WalkError
    BY DEF WalkError
  <2> HIDE DEF r
  <2>4. r \in Walked
    BY <2>1, <2>2, <2>3, Zenon
  <2> QED BY <2>4 DEF r
<1>4. CASE v.acc.err = "none" /\ left > 0 /\ v.name \notin v.path /\ v.name \in DOMAIN nodes
  <2>1. CASE nodes[v.name].kind = "leaf"
    <3> DEFINE more == IF v.name \in ToSet(v.acc.out) THEN v.acc.out ELSE Append(v.acc.out, v.name)
    <3>1. r = [v.acc EXCEPT !.out = more]
      BY <1>4, <2>1, VisitByCases
    <3>2. v.acc.out \in Seq(STRING)
      BY <1>1
    <3>3. more \in Seq(STRING)
      <4>1. more = IF v.name \in ToSet(v.acc.out) THEN v.acc.out ELSE Append(v.acc.out, v.name)
        OBVIOUS
      <4> HIDE DEF more
      <4> QED BY <1>1, <3>2, <4>1, LeafIsAdded, Zenon
    <3> HIDE DEF more, r
    <3>4. r \in Walked
      BY <1>1, <3>1, <3>3 DEF Walked
    <3> QED BY <3>4 DEF r
  <2>2. CASE nodes[v.name].kind # "leaf"
    <3>1. nodes[v.name].members \in Seq(STRING)
      BY <1>4, <2>2, NodeOfABook
    <3>2. r = VisitMembers(nodes[v.name].members, below, v)
      BY <1>4, <2>2, VisitByCases
    <3> DEFINE ms == nodes[v.name].members
    <3> HIDE DEF ms
    <3>3. PICK u : /\ \A k \in 0..Len(ms) : u[k] \in Walked
                   /\ VisitMembers(ms, below, v) = u[Len(ms)]
      BY <1>4, <3>1, MembersAreALoop DEF ms
    <3>4. Len(ms) \in Nat
      BY <3>1, SequenceIsAList, Zenon DEF ms
    <3>5. Len(ms) \in 0..Len(ms)
      BY <3>4
    <3> QED
      BY <3>2, <3>3, <3>5 DEF ms
  <2> QED
    BY <2>1, <2>2
<1> QED
  BY <1>2, <1>3, <1>4

\* One visit, told from the visits one level down.
LEMMA VisitIsTold ==
  ASSUME NEW nodes, IsBook(nodes), NEW left \in Nat, NEW v \in Visit, NEW below,
         left > 0 => /\ below \in [Visit -> Walked]
                     /\ \A w \in Visit : VisitTells(nodes, left - 1, w, below[w])
  PROVE  VisitTells(nodes, left, v, VisitOne(nodes, left, below, v))
<1> DEFINE r == VisitOne(nodes, left, below, v)
<1>1. v.acc \in [err : WalkError, out : Seq(STRING)] /\ v.name \in STRING
  BY DEF Visit, Walked
<1>2. r \in Walked
  BY VisitIsWalked
<1> SUFFICES VisitTells(nodes, left, v, r)
  OBVIOUS
<1>3. CASE v.acc.err # "none"
  <2>1. r = v.acc
    BY <1>3 DEF VisitOne
  <2> HIDE DEF r
  <2> QED BY <1>2, <1>3, <2>1 DEF VisitTells
<1>4. ASSUME NEW e, v.acc.err = "none", r = [v.acc EXCEPT !.err = e], Wrong(nodes, left, v.path, v.name, e)
      PROVE  VisitTells(nodes, left, v, r)
  <2>1. r.err = e /\ e # "none"
    BY <1>1, <1>4 DEF Wrong
  <2> HIDE DEF r
  <2> QED BY <1>2, <1>4, <2>1 DEF VisitTells
<1>5. CASE v.acc.err = "none" /\ left = 0
  <2>1. HasChain(nodes, v.name, left + 1)
    <3>1. left + 1 = 1
      BY <1>5
    <3> QED BY <3>1, ChainOfOne
  <2>2. r = [v.acc EXCEPT !.err = "depth"]
    BY <1>5, VisitByCases
  <2>3. Wrong(nodes, left, v.path, v.name, "depth")
    BY <2>1 DEF Wrong
  <2> HIDE DEF r
  <2> QED BY <1>4, <1>5, <2>2, <2>3
<1>6. CASE v.acc.err = "none" /\ left > 0 /\ v.name \in v.path
  <2>1. r = [v.acc EXCEPT !.err = "cycle"]
    BY <1>6 DEF VisitOne
  <2>2. Wrong(nodes, left, v.path, v.name, "cycle")
    BY <1>6, ReachedIsClosed DEF Wrong
  <2> HIDE DEF r
  <2> QED BY <1>4, <1>6, <2>1, <2>2
<1>7. CASE v.acc.err = "none" /\ left > 0 /\ v.name \notin v.path /\ v.name \notin DOMAIN nodes
  <2>1. r = [v.acc EXCEPT !.err = "name_not_found"]
    BY <1>7, VisitByCases
  <2>2. Wrong(nodes, left, v.path, v.name, "name_not_found")
    BY <1>7, ReachedIsClosed DEF Wrong
  <2> HIDE DEF r
  <2> QED BY <1>4, <1>7, <2>1, <2>2
<1>8. CASE v.acc.err = "none" /\ left > 0 /\ v.name \notin v.path /\ v.name \in DOMAIN nodes
  <2>1. CASE nodes[v.name].kind = "leaf"
    <3> DEFINE more == IF v.name \in ToSet(v.acc.out) THEN v.acc.out ELSE Append(v.acc.out, v.name)
    <3>1. r = [v.acc EXCEPT !.out = more]
      BY <1>8, <2>1, VisitByCases
    <3>2. v.acc.out \in Seq(STRING)
      BY <1>1
    <3>3. ToSet(more) = ToSet(v.acc.out) \cup {v.name} /\ (IsDistinct(v.acc.out) => IsDistinct(more))
      <4> DEFINE out == v.acc.out
                 x == v.name
      <4>1. more = IF x \in ToSet(out) THEN out ELSE Append(out, x)
        OBVIOUS
      <4>2. out \in Seq(STRING) /\ x \in STRING
        BY <1>1, <3>2
      <4> HIDE DEF more, out, x
      <4>3. WithLeaf(out, x, more)
        BY <4>1, <4>2, LeafIsAdded, Zenon
      <4> QED BY <4>3 DEF out, x, WithLeaf
    <3>4. Fine(nodes, left, v.path, v.name) /\ LeavesOf(nodes, v.name) = {v.name}
      BY <1>8, <2>1, NodeOfABook, LeafIsFine
    <3> HIDE DEF more, r
    <3>5. r.out = more /\ r.err = "none"
      BY <1>1, <1>8, <3>1
    <3> QED
      BY <1>2, <1>8, <3>3, <3>4, <3>5 DEF VisitTells
  <2>2. CASE nodes[v.name].kind # "leaf"
    <3> DEFINE ms == nodes[v.name].members
    <3>1. ms \in Seq(STRING)
      BY <1>8, <2>2, NodeOfABook
    <3>2. r = VisitMembers(ms, below, v)
      BY <1>8, <2>2, VisitByCases
    <3>3. left - 1 \in Nat
      BY <1>8
    <3>4. MembersTell(nodes, ms, left - 1, v.path \cup {v.name}, v.acc, r)
      <4> HIDE DEF ms, r
      <4> QED BY <1>8, <3>1, <3>2, <3>3, MembersAreVisited, Zenon
    <3> HIDE DEF r
    <3>5. CASE r.err # "none"
      <4>1. PICK m \in ToSet(nodes[v.name].members) : Wrong(nodes, left - 1, v.path \cup {v.name}, m, r.err)
        BY <3>4, <3>5 DEF MembersTell
      <4>2. Wrong(nodes, left, v.path, v.name, r.err)
        BY <1>8, <4>1, MemberIsWrong
      <4> QED
        BY <1>2, <1>8, <3>5, <4>2 DEF VisitTells
    <3>6. CASE r.err = "none"
      <4>1. /\ \A m \in ToSet(ms) : Fine(nodes, left - 1, v.path \cup {v.name}, m)
            /\ ToSet(r.out) = ToSet(v.acc.out) \cup UNION {LeavesOf(nodes, m) : m \in ToSet(ms)}
            /\ IsDistinct(v.acc.out) => IsDistinct(r.out)
        BY <3>4, <3>6 DEF MembersTell
      <4>2. /\ Fine(nodes, left, v.path, v.name)
            /\ LeavesOf(nodes, v.name) = UNION {LeavesOf(nodes, m) : m \in ToSet(nodes[v.name].members)}
        BY <1>8, <2>2, <4>1, SetIsFine
      <4> QED
        BY <1>2, <1>8, <3>6, <4>1, <4>2 DEF VisitTells
    <3> QED
      BY <3>5, <3>6
  <2> QED
    BY <2>1, <2>2
<1> QED
  BY <1>3, <1>5, <1>6, <1>7, <1>8

\* What the whole walk tells, at every number of levels left.
LEMMA WalkIsTold ==
  ASSUME NEW nodes, IsBook(nodes)
  PROVE  \A left \in 0..(MAX_RESOLUTION_DEPTH + 1) :
           /\ walk(nodes)[left] \in [Visit -> Walked]
           /\ \A v \in Visit : VisitTells(nodes, left, v, walk(nodes)[left][v])
<1> DEFINE D == MAX_RESOLUTION_DEPTH + 1
           S == [Visit -> Walked]
           At(left, below) == [v \in Visit |-> VisitOne(nodes, left, below, v)]
           start == At(0, <<>>)
           next == [left \in 1..D |-> [b \in S |-> At(left, b)]]
           Below(h, left) == IF left = 0 THEN <<>> ELSE h[left - 1]
           Sat(h) == h = [left \in 0..D |-> At(left, Below(h, left))]
<1>1. D \in Nat
  BY DepthAssumption
<1>2. start \in S
  BY VisitIsWalked
<1> HIDE DEF D
<1>3. ASSUME NEW left \in 1..D, NEW b \in S PROVE At(left, b) \in S
  BY <1>1, VisitIsWalked
<1> HIDE DEF start, At
<1>4. PICK f \in [0..D -> S] : Follows(f, D, start, next)
  <2>1. next \in [1..D -> [S -> S]]
    BY <1>3
  <2> HIDE DEF next, S
  <2> QED BY <1>1, <1>2, <2>1, Recursion, Zenon
<1>5. ASSUME NEW left \in 0..D PROVE f[left] = At(left, Below(f, left))
  <2>1. CASE left = 0
    BY <1>4, <2>1 DEF Follows, start
  <2>2. CASE left \in 1..D
    <3>1. f[left - 1] \in S /\ left # 0
      BY <1>1, <1>4, <2>2
    <3>2. f[left] = next[left][f[left - 1]]
      BY <1>4, <2>2 DEF Follows
    <3> HIDE DEF S
    <3> QED
      BY <2>2, <3>1, <3>2
  <2> QED
    BY <1>1, <2>1, <2>2
<1>6. Sat(f)
  <2>1. f = [left \in 0..D |-> f[left]]
    BY <1>4
  <2> HIDE DEF Below
  <2> QED
    BY <1>5, <2>1, Zenon
<1> DEFINE u == CHOOSE h : Sat(h)
<1>7. walk(nodes) = u
  BY DEF walk, D, At
<1>8. Sat(u)
  <2> HIDE DEF Sat
  <2> QED BY <1>6, Zenon
<1> HIDE DEF u
<1>9. \A left \in 0..D : u[left] = At(left, Below(u, left))
  <2> HIDE DEF Below
  <2> QED BY <1>8, Zenon
<1> DEFINE Told(left) == u[left] \in S /\ \A v \in Visit : VisitTells(nodes, left, v, u[left][v])
           P == {left \in 0..D : Told(left)}
<1>10. ASSUME NEW left \in 0..D, left > 0 => Told(left - 1) PROVE Told(left)
  <2> DEFINE b == Below(u, left)
  <2>1. left > 0 => b \in [Visit -> Walked] /\ \A w \in Visit : VisitTells(nodes, left - 1, w, b[w])
    BY <1>1, <1>10
  <2>2. u[left] = At(left, b) /\ left \in Nat
    BY <1>1, <1>9
  <2> HIDE DEF b
  <2>3. ASSUME NEW v \in Visit
        PROVE  VisitOne(nodes, left, b, v) \in Walked /\ VisitTells(nodes, left, v, VisitOne(nodes, left, b, v))
    BY <2>1, <2>2, VisitIsWalked, VisitIsTold
  <2> QED
    BY <2>2, <2>3 DEF At
<1>11. \A left \in 0..D : left \in P
  <2>1. 0 \in P
    BY <1>1, <1>10
  <2>2. ASSUME NEW left \in 1..D, left - 1 \in P PROVE left \in P
    <3>1. left \in 0..D /\ Told(left - 1)
      BY <1>1, <2>2
    <3> HIDE DEF Told
    <3> QED BY <1>10, <3>1
  <2> HIDE DEF P
  <2> QED BY <1>1, <2>1, <2>2, Induction
<1> QED
  BY <1>7, <1>11 DEF D

(***************************************************************************)
(* The lookup.                                                             *)
(***************************************************************************)

\* What a lookup of root comes back with.
Resolved(nodes, root, found) ==
  LET leaves == LeavesOf(nodes, root)
      cyclic == \E x \in Reached(nodes, root) : OnCycle(nodes, x)
      deep == HasChain(nodes, root, MAX_RESOLUTION_DEPTH + 2)
      undefined == ~(Reached(nodes, root) \subseteq DOMAIN nodes)
  IN /\ found.err \in WalkError
     /\ found.err = "cycle" => cyclic
     /\ found.err = "depth" => deep
     /\ found.err = "name_not_found" => undefined
     /\ found.err = "none" =>
          /\ ~cyclic /\ ~deep /\ ~undefined
          /\ ToSet(found.out) \subseteq leaves
          /\ Len(found.out) = Cardinality(ToSet(found.out))
          /\ found.truncated = (Cardinality(leaves) > MEMBER_CAP)
          /\ Cardinality(ToSet(found.out)) = IF found.truncated THEN MEMBER_CAP ELSE Cardinality(leaves)

\* A list without repetitions has as many members as entries.
LEMMA DistinctIsCounted ==
  ASSUME NEW S, NEW s \in Seq(S), IsDistinct(s)
  PROVE  Cardinality(ToSet(s)) = Len(s)
<1> DEFINE N == Len(s)
<1>1. N \in Nat /\ DOMAIN s = 1..N
  OBVIOUS
<1>2. ToSet(s) = {s[i] : i \in 1..N}
  BY <1>1 DEF ToSet
<1>3. s \in Bijection(1..N, ToSet(s))
  <2>1. s \in [1..N -> ToSet(s)]
    BY <1>1, <1>2
  <2>2. s \in Injection(1..N, ToSet(s))
    BY <2>1 DEF IsDistinct, Injection, IsInjective
  <2>3. s \in Surjection(1..N, ToSet(s))
    BY <1>2, <2>1 DEF Surjection
  <2> QED
    BY <2>2, <2>3 DEF Bijection
<1>4. ExistsBijection(1..N, ToSet(s))
  BY <1>3 DEF ExistsBijection
<1> HIDE DEF N
<1>5. Cardinality(ToSet(s)) = N
  BY <1>1, <1>4, FS_CountingElements
<1> QED
  BY <1>5 DEF N

\* The first entries of a list.
LEMMA FirstOfAList ==
  ASSUME NEW S, NEW s \in Seq(S), NEW n \in Nat, n <= Len(s)
  PROVE  /\ SubSeq(s, 1, n) \in Seq(S) /\ Len(SubSeq(s, 1, n)) = n
         /\ ToSet(SubSeq(s, 1, n)) \subseteq ToSet(s)
         /\ IsDistinct(s) => IsDistinct(SubSeq(s, 1, n))
<1> DEFINE t == SubSeq(s, 1, n)
<1>1. t \in Seq(S) /\ Len(t) = n /\ \A i \in 1..n : t[i] = s[i]
  OBVIOUS
<1>2. DOMAIN t = 1..n /\ DOMAIN s = 1..Len(s) /\ Len(s) \in Nat
  BY <1>1
<1> HIDE DEF t
<1>3. \A i \in 1..n : i \in 1..Len(s)
  BY <1>2
<1>4. ToSet(t) \subseteq ToSet(s)
  BY <1>1, <1>2, <1>3 DEF ToSet
<1>5. IsDistinct(s) => IsDistinct(t)
  BY <1>1, <1>3 DEF IsDistinct
<1> QED
  BY <1>1, <1>4, <1>5 DEF t

\* resolve answers with the leaves or with what is wrong.
LEMMA ResolveIsTold ==
  ASSUME NEW nodes, IsBook(nodes), NEW root \in STRING
  PROVE  Resolved(nodes, root, resolve(nodes, root))
<1> DEFINE acc == [err |-> "none", out |-> <<>>]
           v == [name |-> root, path |-> {}, acc |-> acc]
           D == MAX_RESOLUTION_DEPTH + 1
           w == walk(nodes)[D][v]
           found == resolve(nodes, root)
           leaves == LeavesOf(nodes, root)
           truncated == Len(w.out) > MEMBER_CAP
<1>1. acc \in Walked
  BY DEF Walked, WalkError
<1>2. v \in Visit /\ v.acc.err = "none" /\ v.acc.out = <<>> /\ v.name = root /\ v.path = {}
  BY <1>1 DEF Visit
<1>3. D \in 0..D /\ D + 1 = MAX_RESOLUTION_DEPTH + 2 /\ MEMBER_CAP \in Nat
  BY DepthAssumption
<1>4. VisitTells(nodes, D, v, w)
  BY <1>2, <1>3, WalkIsTold
<1>5. found = [err |-> w.err, truncated |-> truncated,
               out |-> IF truncated THEN SubSeq(w.out, 1, MEMBER_CAP) ELSE w.out]
  BY DEF resolve
<1> HIDE DEF w, v, D, acc
<1>6. w \in Walked /\ w.err \in WalkError /\ w.out \in Seq(STRING)
  BY <1>4 DEF VisitTells, Walked
<1>7. found.err = w.err
  BY <1>5
<1> HIDE DEF found
<1>8. CASE w.err # "none"
  <2>1. Wrong(nodes, D, {}, root, w.err)
    BY <1>2, <1>4, <1>8 DEF VisitTells
  <2> QED
    BY <1>3, <1>6, <1>7, <1>8, <2>1 DEF Wrong, Resolved, found
<1>9. CASE w.err = "none"
  <2>1. Fine(nodes, D, {}, root) /\ ToSet(w.out) = ToSet(v.acc.out) \cup leaves /\ (IsDistinct(v.acc.out) => IsDistinct(w.out))
    BY <1>2, <1>4, <1>9 DEF VisitTells
  <2>2. ToSet(v.acc.out) = {} /\ IsDistinct(v.acc.out)
    BY <1>2 DEF ToSet, IsDistinct
  <2>3. ToSet(w.out) = leaves /\ IsDistinct(w.out)
    BY <2>1, <2>2
  <2>4. Cardinality(leaves) = Len(w.out)
    BY <1>6, <2>3, DistinctIsCounted
  <2>5. Len(w.out) \in Nat
    BY <1>6, SequenceIsAList, Zenon
  <2>6. found.truncated = (Cardinality(leaves) > MEMBER_CAP)
    BY <1>5, <2>4
  <2>7. /\ ToSet(found.out) \subseteq leaves
        /\ Len(found.out) = Cardinality(ToSet(found.out))
        /\ Cardinality(ToSet(found.out)) = IF truncated THEN MEMBER_CAP ELSE Cardinality(leaves)
    <3>1. CASE truncated
      <4> DEFINE t == SubSeq(w.out, 1, MEMBER_CAP)
      <4>1. found.out = t
        BY <1>5, <3>1
      <4>2. MEMBER_CAP <= Len(w.out)
        BY <1>3, <2>5, <3>1
      <4>3. /\ t \in Seq(STRING) /\ Len(t) = MEMBER_CAP /\ ToSet(t) \subseteq ToSet(w.out)
            /\ IsDistinct(w.out) => IsDistinct(t)
        BY <1>3, <1>6, <4>2, FirstOfAList
      <4> HIDE DEF t
      <4>4. Cardinality(ToSet(t)) = Len(t)
        BY <2>3, <4>3, DistinctIsCounted
      <4> QED
        BY <2>3, <3>1, <4>1, <4>3, <4>4
    <3>2. CASE ~truncated
      <4>1. found.out = w.out
        BY <1>5, <3>2
      <4> QED
        BY <2>3, <2>4, <3>2, <4>1
    <3> QED
      BY <3>1, <3>2
  <2>8. found.truncated = truncated
    BY <1>5
  <2>9. /\ ~\E x \in Reached(nodes, root) : OnCycle(nodes, x)
        /\ ~HasChain(nodes, root, MAX_RESOLUTION_DEPTH + 2)
        /\ Reached(nodes, root) \subseteq DOMAIN nodes
    BY <1>3, <2>1 DEF Fine
  <2> HIDE DEF truncated
  <2>10. Resolved(nodes, root, found)
    BY <1>6, <1>7, <1>9, <2>6, <2>7, <2>8, <2>9 DEF Resolved
  <2> QED BY <2>10 DEF found
<1> QED
  BY <1>8, <1>9

(***************************************************************************)
(* The books.                                                              *)
(***************************************************************************)

\* A name of several books has the last definition.
LEMMA LastDefinition ==
  ASSUME NEW M \in Nat, NEW books, DOMAIN books \subseteq 0..M
  PROVE  /\ DOMAIN Merged(books) = UNION {DOMAIN books[i] : i \in DOMAIN books}
         /\ \A n \in DOMAIN Merged(books) :
              LET last == Max({i \in DOMAIN books : n \in DOMAIN books[i]})
              IN last \in DOMAIN books /\ n \in DOMAIN books[last] /\ Merged(books)[n] = books[last][n]
<1> DEFINE Names == UNION {DOMAIN books[i] : i \in DOMAIN books}
           Defining(n) == {i \in DOMAIN books : n \in DOMAIN books[i]}
<1>1. Merged(books) = [n \in Names |-> books[Max(Defining(n))][n]]
  BY DEF Merged
<1>2. ASSUME NEW n \in Names PROVE Max(Defining(n)) \in Defining(n)
  <2>1. Defining(n) \subseteq 0..M /\ Defining(n) # {}
    OBVIOUS
  <2> HIDE DEF Defining
  <2> QED BY <2>1, MaxIsIn
<1>3. DOMAIN Merged(books) = Names /\ \A n \in Names : Merged(books)[n] = books[Max(Defining(n))][n]
  <2> HIDE DEF Names, Defining
  <2> QED BY <1>1
<1> QED
  BY <1>2, <1>3

\* Books merged are a book.
LEMMA MergedIsABook ==
  ASSUME NEW M \in Nat, NEW books, DOMAIN books \subseteq 0..M, \A i \in DOMAIN books : IsBook(books[i])
  PROVE  IsBook(Merged(books))
<1>1. ASSUME NEW n \in DOMAIN Merged(books) PROVE Merged(books)[n] \in ConfigNode
  <2> DEFINE last == Max({i \in DOMAIN books : n \in DOMAIN books[i]})
  <2>1. last \in DOMAIN books /\ n \in DOMAIN books[last] /\ Merged(books)[n] = books[last][n]
    BY <1>1, LastDefinition
  <2> HIDE DEF last
  <2> QED BY <2>1 DEF IsBook
<1> QED
  BY <1>1 DEF IsBook

\* A configuration of address books all of whose entries parse.
IsConfig(config) ==
  /\ IsList(config.top)
  /\ \A i \in DOMAIN config.top : IsBook(config.top[i].book) /\ "none" \notin config.top[i].attach
  /\ \A z \in DOMAIN config.zones : z # "none" /\ IsBook(config.zones[z])

\* A configuration as QueriesAssumption has it either parses or has an entry that
\* no lookup gets past.
LEMMA ConfigIsReadOrNot ==
  ASSUME NEW config, IsList(config.top), config.unnamed \in BOOLEAN,
         \A i \in DOMAIN config.top : IsAddressBook(config.top[i].book) /\ "none" \notin config.top[i].attach,
         \A z \in DOMAIN config.zones : z # "none" /\ IsAddressBook(config.zones[z])
  PROVE  /\ BooksAreUnreadable(config) => UnreadableEntries(config) # {}
         /\ ~BooksAreUnreadable(config) => IsConfig(config) /\ UnreadableEntries(config) = {}
<1>1. ASSUME NEW book, IsAddressBook(book)
      PROVE  /\ parse_address_book(book).tag = "error" => UnreadableIn(book) # {}
             /\ parse_address_book(book).tag # "error" => IsBook(book) /\ UnreadableIn(book) = {}
  <2>1. CASE Unreadable \in {book[n] : n \in DOMAIN book}
    <3>1. parse_address_book(book).tag = "error"
      BY <2>1 DEF parse_address_book, Err
    <3> QED BY <2>1, <3>1 DEF UnreadableIn
  <2>2. CASE Unreadable \notin {book[n] : n \in DOMAIN book}
    <3>1. parse_address_book(book).tag = "ok"
      BY <2>2 DEF parse_address_book
    <3>2. \A n \in DOMAIN book : book[n] \in ConfigNode /\ book[n] # Unreadable
      BY <1>1, <2>2 DEF IsAddressBook
    <3> QED BY <3>1, <3>2 DEF IsBook, UnreadableIn
  <2> QED BY <2>1, <2>2
<1>2. CASE BooksAreUnreadable(config)
  <2>1. CASE config.unnamed
    BY <1>2, <2>1 DEF UnreadableEntries
  <2>2. ASSUME NEW book \in AddressBooksOf(config), parse_address_book(book).tag = "error", IsAddressBook(book)
        PROVE  UnreadableEntries(config) # {}
    BY <1>1, <2>2 DEF UnreadableEntries
  <2>3. CASE \E i \in DOMAIN config.top : parse_address_book(config.top[i].book).tag = "error"
    BY <1>2, <2>2, <2>3 DEF AddressBooksOf
  <2>4. CASE \E z \in DOMAIN config.zones : parse_address_book(config.zones[z]).tag = "error"
    BY <1>2, <2>2, <2>4 DEF AddressBooksOf
  <2> QED BY <1>2, <2>1, <2>3, <2>4 DEF BooksAreUnreadable
<1>3. CASE ~BooksAreUnreadable(config)
  <2>1. ~config.unnamed
    BY <1>3 DEF BooksAreUnreadable
  <2>2. \A i \in DOMAIN config.top : IsBook(config.top[i].book) /\ UnreadableIn(config.top[i].book) = {}
    BY <1>1, <1>3 DEF BooksAreUnreadable
  <2>3. \A z \in DOMAIN config.zones : IsBook(config.zones[z]) /\ UnreadableIn(config.zones[z]) = {}
    BY <1>1, <1>3 DEF BooksAreUnreadable
  <2>4. IsConfig(config)
    BY <2>2, <2>3 DEF IsConfig
  <2>5. UnreadableEntries(config) = {}
    BY <2>1, <2>2, <2>3 DEF UnreadableEntries, AddressBooksOf
  <2> QED BY <1>3, <2>4, <2>5
<1> QED BY <1>2, <1>3

NamedOf(config) == {i \in DOMAIN config.top : config.top[i].name \notin {"none", "global"}}
AttachedTo(config, zone) == {i \in NamedOf(config) : zone \in config.top[i].attach}
SameName(config, nm) == {i \in NamedOf(config) : config.top[i].name = nm}

\* The zone's own book of View.
OwnBook(config, zone) ==
  IF zone \in DOMAIN config.zones THEN config.zones[zone]
  ELSE IF AttachedTo(config, zone) = {} THEN [n \in {} |-> Leaf]
  ELSE config.top[Max(SameName(config, config.top[Max(AttachedTo(config, zone))].name))].book

ViewOf(config, zone, name) ==
  IF name \in DOMAIN OwnBook(config, zone) THEN OwnBook(config, zone)
  ELSE parse_address_books(config).global

\* The book attached to a zone is the last of the name the last book to name
\* the zone has.
LEMMA AttachedBook ==
  ASSUME NEW config, IsConfig(config), NEW zone
  PROVE  LET books == parse_address_books(config)
             Attached == AttachedTo(config, zone)
         IN /\ zone \in DOMAIN books.attach <=> Attached # {}
            /\ Attached # {} =>
                 LET nm == config.top[Max(Attached)].name
                     last == Max(SameName(config, nm))
                 IN /\ books.attach[zone] = nm /\ nm \in DOMAIN books.named
                    /\ last \in DOMAIN config.top /\ books.named[nm] = config.top[last].book
<1> DEFINE top == config.top
           N == Len(top)
           Named == NamedOf(config)
           names == [i \in Named |-> [n \in {top[i].name} |-> top[i].book]]
           zones == [i \in Named |-> [z \in top[i].attach |-> top[i].name]]
           Attached == AttachedTo(config, zone)
           books == parse_address_books(config)
<1>1. N \in Nat /\ DOMAIN top = 1..N
  BY DEF IsConfig, IsList
<1>2. Named \subseteq 0..N /\ Named \subseteq DOMAIN top
  BY <1>1 DEF NamedOf
<1>3. books.named = Merged(names) /\ books.attach = Merged(zones)
  <2>1. Named = DOMAIN top \ {i \in DOMAIN top : top[i].name \in {"none", "global"}}
    BY DEF NamedOf
  <2> QED
    BY <2>1 DEF parse_address_books
<1> HIDE DEF N, books
<1>4. Attached = {i \in Named : zone \in top[i].attach}
  BY DEF AttachedTo
<1>5. DOMAIN names = Named /\ DOMAIN zones = Named
  OBVIOUS
<1>6. \A i \in Named : DOMAIN names[i] = {top[i].name} /\ DOMAIN zones[i] = top[i].attach
  OBVIOUS
<1>7. \A i \in Named : names[i][top[i].name] = top[i].book /\ \A z \in top[i].attach : zones[i][z] = top[i].name
  OBVIOUS
<1> HIDE DEF names, zones, Named, top, Attached
<1>8. /\ DOMAIN Merged(names) = UNION {DOMAIN names[i] : i \in Named}
      /\ DOMAIN Merged(zones) = UNION {DOMAIN zones[i] : i \in Named}
  BY <1>1, <1>2, <1>5, LastDefinition
<1>9. zone \in DOMAIN Merged(zones) <=> Attached # {}
  BY <1>4, <1>6, <1>8
<1>10. ASSUME Attached # {}
       PROVE  LET nm == top[Max(Attached)].name
                  last == Max(SameName(config, nm))
              IN /\ Merged(zones)[zone] = nm /\ nm \in DOMAIN Merged(names)
                 /\ last \in DOMAIN top /\ Merged(names)[nm] = top[last].book
  <2> DEFINE nm == top[Max(Attached)].name
             last == Max(SameName(config, nm))
             DefZ == {i \in Named : zone \in DOMAIN zones[i]}
             DefN == {i \in Named : nm \in DOMAIN names[i]}
  <2>1. Max(Attached) \in Attached
    <3>1. Attached \subseteq 0..N
      BY <1>2, <1>4
    <3> QED
      BY <1>1, <1>10, <3>1, MaxIsIn
  <2>2. DefZ = Attached
    BY <1>4, <1>6
  <2>3. Merged(zones)[zone] = zones[Max(DefZ)][zone]
    BY <1>1, <1>2, <1>5, <1>9, <1>10, LastDefinition
  <2>4. Merged(zones)[zone] = nm
    BY <1>4, <1>7, <2>1, <2>2, <2>3
  <2>5. nm \in DOMAIN Merged(names)
    BY <1>4, <1>6, <1>8, <2>1
  <2> HIDE DEF nm
  <2>6. DefN = SameName(config, nm)
    BY <1>6 DEF SameName, Named, top
  <2>7. Max(DefN) \in Named /\ nm \in DOMAIN names[Max(DefN)] /\ Merged(names)[nm] = names[Max(DefN)][nm]
    BY <1>1, <1>2, <1>5, <2>5, LastDefinition
  <2>8. last = Max(DefN)
    BY <2>6
  <2> HIDE DEF last, DefN
  <2>9. top[last].name = nm /\ last \in Named
    BY <1>6, <2>7, <2>8
  <2>10. Merged(names)[nm] = top[last].book /\ last \in DOMAIN top
    BY <1>2, <1>7, <2>7, <2>8, <2>9
  <2> QED
    BY <2>4, <2>5, <2>10 DEF last, nm
<1> QED
  BY <1>3, <1>9, <1>10 DEF top, Attached, books

\* The global book, and what a lookup without a zone's own book sees.
LEMMA GlobalBook ==
  ASSUME NEW config, IsConfig(config)
  PROVE  IsBook(parse_address_books(config).global)
<1> DEFINE top == config.top
           Common == {i \in DOMAIN top : top[i].name \in {"none", "global"}}
           commons == [i \in Common |-> top[i].book]
<1>1. Len(top) \in Nat /\ DOMAIN top = 1..Len(top)
  BY DEF IsConfig, IsList
<1>2. parse_address_books(config).global = Merged(commons)
  BY DEF parse_address_books
<1>3. DOMAIN commons \subseteq 0..Len(top) /\ \A i \in DOMAIN commons : IsBook(commons[i])
  BY <1>1 DEF IsConfig
<1> HIDE DEF commons
<1> QED
  BY <1>1, <1>2, <1>3, MergedIsABook

\* The zone's own book is a book; without a zone there is none.
LEMMA OwnIsABook ==
  ASSUME NEW config, IsConfig(config), NEW zone
  PROVE  /\ IsBook(OwnBook(config, zone))
         /\ zone = "none" => DOMAIN OwnBook(config, zone) = {}
<1> DEFINE Attached == AttachedTo(config, zone)
<1>1. CASE zone \in DOMAIN config.zones
  BY <1>1 DEF OwnBook, IsConfig
<1>2. CASE zone \notin DOMAIN config.zones /\ Attached = {}
  <2>1. OwnBook(config, zone) = [n \in {} |-> Leaf]
    BY <1>2 DEF OwnBook
  <2>2. DOMAIN [n \in {} |-> Leaf] = {}
    OBVIOUS
  <2> QED
    BY <2>1, <2>2 DEF IsBook
<1>3. CASE zone \notin DOMAIN config.zones /\ Attached # {}
  <2> DEFINE last == Max(SameName(config, config.top[Max(Attached)].name))
  <2>1. last \in DOMAIN config.top
    BY <1>3, AttachedBook
  <2>2. OwnBook(config, zone) = config.top[last].book
    BY <1>3 DEF OwnBook
  <2>3. zone # "none"
    BY <1>3 DEF AttachedTo, NamedOf, IsConfig
  <2> HIDE DEF last
  <2> QED
    BY <2>1, <2>2, <2>3 DEF IsConfig
<1> QED
  BY <1>1, <1>2, <1>3

\* The book a lookup is made in is the one it sees, or neither has the name.
LEMMA BookIsTheView ==
  ASSUME NEW config, IsConfig(config), NEW zone, NEW name
  PROVE  LET book == BookFor(parse_address_books(config), zone, name)
             view == ViewOf(config, zone, name)
         IN /\ IsBook(book) /\ IsBook(view)
            /\ book = view \/ (name \notin DOMAIN book /\ name \notin DOMAIN view)
<1> DEFINE books == parse_address_books(config)
           own == OwnBook(config, zone)
           G == books.global
           Attached == AttachedTo(config, zone)
<1>1. IsBook(G) /\ IsBook(own) /\ (zone = "none" => DOMAIN own = {})
  BY GlobalBook, OwnIsABook
<1>2. books.inline = config.zones
  BY DEF parse_address_books
<1>3. resolve_zone(books, zone) = own \/ (resolve_zone(books, zone) = G /\ DOMAIN own = {})
  <2>1. CASE zone \in DOMAIN config.zones
    BY <1>2, <2>1 DEF resolve_zone, OwnBook
  <2>2. CASE zone \notin DOMAIN config.zones /\ Attached = {}
    <3>1. zone \notin DOMAIN books.attach
      BY <2>2, AttachedBook
    <3>2. resolve_zone(books, zone) = G
      BY <1>2, <2>2, <3>1 DEF resolve_zone
    <3>3. own = [n \in {} |-> Leaf]
      BY <2>2 DEF OwnBook
    <3> HIDE DEF own
    <3>4. DOMAIN own = {}
      BY <3>3
    <3> QED
      BY <3>2, <3>4
  <2>3. CASE zone \notin DOMAIN config.zones /\ Attached # {}
    <3> DEFINE nm == config.top[Max(Attached)].name
               last == Max(SameName(config, nm))
    <3>1. /\ zone \in DOMAIN books.attach /\ books.attach[zone] = nm /\ nm \in DOMAIN books.named
          /\ books.named[nm] = config.top[last].book
      BY <2>3, AttachedBook
    <3>2. own = config.top[last].book
      BY <2>3 DEF OwnBook
    <3> HIDE DEF nm, last, books, own
    <3> QED
      BY <1>2, <2>3, <3>1, <3>2 DEF resolve_zone
  <2> QED
    BY <2>1, <2>2, <2>3
<1> DEFINE book == BookFor(books, zone, name)
           view == ViewOf(config, zone, name)
<1>4. view = IF name \in DOMAIN own THEN own ELSE G
  BY DEF ViewOf
<1>5. book = IF zone = "none" THEN G
             ELSE IF name \notin DOMAIN resolve_zone(books, zone) /\ name \in DOMAIN G THEN G
             ELSE resolve_zone(books, zone)
  BY DEF BookFor
<1> SUFFICES /\ IsBook(book) /\ IsBook(view)
             /\ book = view \/ (name \notin DOMAIN book /\ name \notin DOMAIN view)
  OBVIOUS
<1> HIDE DEF book, view, own, G, books
<1>6. CASE zone = "none"
  BY <1>1, <1>4, <1>5, <1>6
<1>7. CASE zone # "none" /\ resolve_zone(books, zone) = own
  BY <1>1, <1>4, <1>5, <1>7
<1>8. CASE zone # "none" /\ resolve_zone(books, zone) = G /\ DOMAIN own = {}
  BY <1>1, <1>4, <1>5, <1>8
<1> QED
  BY <1>3, <1>6, <1>7, <1>8

\* "Not configured" is said of a zone without a book only when there is none.
LEMMA NoBookIsNoView ==
  ASSUME NEW config, IsConfig(config), NEW zone, NEW name,
         LET books == parse_address_books(config)
         IN IF zone = "none" THEN DOMAIN books.global = {}
            ELSE /\ zone \notin DOMAIN books.inline
                 /\ zone \in DOMAIN books.attach => books.attach[zone] \notin DOMAIN books.named
                 /\ DOMAIN books.global = {}
  PROVE  DOMAIN ViewOf(config, zone, name) = {}
<1> DEFINE books == parse_address_books(config)
           own == OwnBook(config, zone)
           Attached == AttachedTo(config, zone)
<1>1. DOMAIN books.global = {}
  OBVIOUS
<1>2. DOMAIN own = {}
  <2>1. CASE zone = "none"
    BY <2>1, OwnIsABook
  <2>2. CASE zone # "none"
    <3>1. zone \notin DOMAIN config.zones
      BY <2>2 DEF parse_address_books
    <3>2. Attached = {}
      BY <2>2, AttachedBook
    <3>3. own = [n \in {} |-> Leaf]
      BY <3>1, <3>2 DEF OwnBook
    <3> HIDE DEF own
    <3> QED
      BY <3>3
  <2> QED
    BY <2>1, <2>2
<1> QED
  BY <1>1, <1>2 DEF ViewOf

\* The applications of a document are a book.
LEMMA ApplicationsAreABook ==
  ASSUME NEW containers, IsList(containers), NEW static, IsBook(static),
         \A i \in DOMAIN containers : IsBook(containers[i].book)
  PROVE  IsBook(collect_applications(containers, static))
<1> DEFINE Defaults == {i \in DOMAIN containers : containers[i].group = "junos-defaults"}
           all == [i \in DOMAIN containers |-> containers[i].book]
           defaults == [i \in Defaults |-> containers[i].book]
           three == <<static, Merged(all), Merged(defaults)>>
           N == Len(containers)
<1>1. N \in Nat /\ DOMAIN containers = 1..N
  BY DEF IsList
<1>2. DOMAIN all \subseteq 0..N /\ \A i \in DOMAIN all : IsBook(all[i])
  BY <1>1
<1>3. DOMAIN defaults \subseteq 0..N /\ \A i \in DOMAIN defaults : IsBook(defaults[i])
  BY <1>1
<1>4. collect_applications(containers, static) = Merged(three)
  BY DEF collect_applications
<1> HIDE DEF all, defaults, N
<1>5. IsBook(Merged(all)) /\ IsBook(Merged(defaults))
  BY <1>1, <1>2, <1>3, MergedIsABook
<1>6. DOMAIN three \subseteq 0..3 /\ three[1] = static /\ three[2] = Merged(all) /\ three[3] = Merged(defaults)
  OBVIOUS
<1>7. DOMAIN three = {1, 2, 3}
  OBVIOUS
<1> HIDE DEF three
<1>8. \A i \in DOMAIN three : IsBook(three[i])
  BY <1>5, <1>6, <1>7
<1>9. IsBook(Merged(three))
  BY <1>6, <1>8, MergedIsABook
<1> QED
  BY <1>4, <1>9

\* The first node that answers.
LEMMA FirstNodeTells ==
  ASSUME NEW nodes \in Seq({"rpc_error", "not_configured", "config"})
  PROVE  /\ FirstNode(nodes) \in {"rpc_error", "not_configured", "config"}
         /\ FirstNode(nodes) = "not_configured" => \A i \in DOMAIN nodes : nodes[i] = "not_configured"
<1> DEFINE Told == {i \in DOMAIN nodes : nodes[i] # "not_configured"}
<1>1. FirstNode(nodes) = IF Told = {} THEN "not_configured" ELSE nodes[Min(Told)]
  BY DEF FirstNode
<1>2. CASE Told = {}
  BY <1>1, <1>2
<1>3. CASE Told # {}
  <2>1. Told \subseteq Nat
    OBVIOUS
  <2>2. Min(Told) \in Told
    <3> HIDE DEF Told
    <3> QED BY <1>3, <2>1, MinIsIn
  <2> QED
    BY <1>1, <1>3, <2>2
<1> QED
  BY <1>2, <1>3

(***************************************************************************)
(* The lookups, step by step.                                              *)
(***************************************************************************)

\* What ResolutionIsTheClosure asks of an answer, for the book a lookup sees.
Closure(view, name, unknowns, ans) ==
  LET reached == Reached(view, name)
      leaves == {n \in reached \cap DOMAIN view : view[n].kind = "leaf"}
      cyclic == \E n \in reached \cap DOMAIN view : \E m \in ToSet(view[n].members) : n \in Reached(view, m)
      deep == HasChain(view, name, MAX_RESOLUTION_DEPTH + 2)
      undefined == ~(reached \subseteq DOMAIN view)
      unknown == unknowns \cap leaves
  IN IF ans.tag = "active"
     THEN /\ ~cyclic /\ ~deep /\ ~undefined
          /\ unknown \cap ToSet(ans.members) = {}
          /\ ToSet(ans.members) \subseteq leaves
          /\ Len(ans.members) = Cardinality(ToSet(ans.members))
          /\ ans.truncated = (Cardinality(leaves) > MEMBER_CAP)
          /\ Cardinality(ToSet(ans.members)) = IF ans.truncated THEN MEMBER_CAP ELSE Cardinality(leaves)
     ELSE /\ ans.kind = "cycle" => cyclic
          /\ ans.kind = "depth" => deep
          /\ ans.kind = "name_not_found" => undefined
          /\ ans.kind = "parse" => unknown # {}
          /\ ans.kind # "rpc"

\* A lookup in a book that lacks the name is the same in any other such book.
LEMMA UndefinedInBoth ==
  ASSUME NEW book, NEW view, NEW name, name \notin DOMAIN book, name \notin DOMAIN view,
         NEW found, Resolved(book, name, found)
  PROVE  Resolved(view, name, found)
<1>1. Reached(book, name) = {name} /\ Reached(view, name) = {name}
  BY ReachedAlone
<1>2. ~HasChain(book, name, MAX_RESOLUTION_DEPTH + 2)
  <2> DEFINE k == MAX_RESOLUTION_DEPTH + 1
  <2>1. k \in Nat /\ k > 0 /\ k + 1 = MAX_RESOLUTION_DEPTH + 2
    BY DepthAssumption
  <2> HIDE DEF k
  <2> QED
    BY <2>1, ChainToMember
<1>3. ~\E x \in Reached(book, name) : OnCycle(book, x)
  BY <1>1 DEF OnCycle
<1>4. found.err \in WalkError /\ found.err # "cycle" /\ found.err # "depth" /\ found.err # "none"
  BY <1>1, <1>2, <1>3 DEF Resolved
<1>5. found.err = "name_not_found"
  BY <1>4 DEF WalkError
<1> QED
  BY <1>1, <1>4, <1>5 DEF Resolved

\* An answer made from the walk is the closure's.
LEMMA AnswerIsTheClosure ==
  ASSUME NEW view, NEW name, NEW unknowns, NEW found, Resolved(view, name, found), NEW ans,
         \/ found.err # "none" /\ ans = Err(found.err)
         \/ found.err = "none" /\ unknowns \cap ToSet(found.out) # {} /\ ans = Err("parse")
         \/ /\ found.err = "none" /\ unknowns \cap ToSet(found.out) = {}
            /\ ans = [tag |-> "active", members |-> found.out, truncated |-> found.truncated]
  PROVE  Closure(view, name, unknowns, ans)
<1> DEFINE reached == Reached(view, name)
           leaves == {n \in reached \cap DOMAIN view : view[n].kind = "leaf"}
           cyclic == \E n \in reached \cap DOMAIN view : \E m \in ToSet(view[n].members) : n \in Reached(view, m)
           deep == HasChain(view, name, MAX_RESOLUTION_DEPTH + 2)
           undefined == ~(reached \subseteq DOMAIN view)
<1>1. leaves = LeavesOf(view, name) /\ (cyclic <=> \E x \in Reached(view, name) : OnCycle(view, x))
  BY DEF LeavesOf, OnCycle
<1>2. found.err \in WalkError /\ (found.err = "cycle" => cyclic) /\ (found.err = "depth" => deep)
      /\ (found.err = "name_not_found" => undefined)
  BY <1>1 DEF Resolved
<1>3. found.err = "none" =>
        /\ ~cyclic /\ ~deep /\ ~undefined
        /\ ToSet(found.out) \subseteq leaves
        /\ Len(found.out) = Cardinality(ToSet(found.out))
        /\ found.truncated = (Cardinality(leaves) > MEMBER_CAP)
        /\ Cardinality(ToSet(found.out)) = IF found.truncated THEN MEMBER_CAP ELSE Cardinality(leaves)
  BY <1>1 DEF Resolved
<1> HIDE DEF reached, leaves, cyclic, deep, undefined
<1>4. CASE found.err # "none" /\ ans = Err(found.err)
  <2>1. ans.tag = "error" /\ ans.kind = found.err /\ ans.kind # "parse" /\ ans.kind # "rpc"
    BY <1>2, <1>4 DEF Err, WalkError
  <2> QED
    BY <1>2, <2>1 DEF Closure, reached, cyclic, deep, undefined
<1>5. CASE found.err = "none" /\ unknowns \cap ToSet(found.out) # {} /\ ans = Err("parse")
  <2>1. ans.tag = "error" /\ ans.kind = "parse"
    BY <1>5 DEF Err
  <2>2. unknowns \cap leaves # {}
    BY <1>3, <1>5
  <2> QED
    BY <2>1, <2>2 DEF Closure, leaves, reached
<1>6. CASE /\ found.err = "none" /\ unknowns \cap ToSet(found.out) = {}
           /\ ans = [tag |-> "active", members |-> found.out, truncated |-> found.truncated]
  <2>1. ans.tag = "active" /\ ans.members = found.out /\ ans.truncated = found.truncated
    BY <1>6
  <2>2. (unknowns \cap leaves) \cap ToSet(found.out) = {}
    BY <1>6
  <2>3. /\ ~cyclic /\ ~deep /\ ~undefined
        /\ (unknowns \cap leaves) \cap ToSet(ans.members) = {}
        /\ ToSet(ans.members) \subseteq leaves
        /\ Len(ans.members) = Cardinality(ToSet(ans.members))
        /\ ans.truncated = (Cardinality(leaves) > MEMBER_CAP)
        /\ Cardinality(ToSet(ans.members)) = IF ans.truncated THEN MEMBER_CAP ELSE Cardinality(leaves)
    BY <1>3, <1>6, <2>1, <2>2
  <2> QED
    BY <2>1, <2>3 DEF Closure, leaves, reached, cyclic, deep, undefined
<1> QED
  BY <1>4, <1>5, <1>6

\* What srx_resolve_address answers.
LEMMA AddressIsTold ==
  ASSUME NEW nodes \in Seq({"rpc_error", "not_configured", "config"}), NEW config, IsConfig(config), NEW zone,
         NEW name \in STRING, ~BooksAreUnreadable(config)
  PROVE  LET ans == ParseAddress(nodes, config, zone, name)
             view == ViewOf(config, zone, name)
         IN \/ ans = NotConfigured /\ ((\A i \in DOMAIN nodes : nodes[i] = "not_configured") \/ DOMAIN view = {})
            \/ ans = Err("rpc") /\ FirstNode(nodes) # "config"
            \/ ans.tag \in {"active", "error"} /\ Closure(view, name, {}, ans)
<1> DEFINE books == parse_address_books(config)
           book == BookFor(books, zone, name)
           found == resolve(book, name)
           view == ViewOf(config, zone, name)
           ans == ParseAddress(nodes, config, zone, name)
           noBook == IF zone = "none" THEN DOMAIN books.global = {}
                     ELSE /\ zone \notin DOMAIN books.inline
                          /\ zone \in DOMAIN books.attach => books.attach[zone] \notin DOMAIN books.named
                          /\ DOMAIN books.global = {}
<1>1. FirstNode(nodes) \in {"rpc_error", "not_configured", "config"}
  BY FirstNodeTells
<1>2. CASE FirstNode(nodes) = "not_configured"
  <2>1. ans = NotConfigured
    BY <1>2 DEF ParseAddress
  <2> QED
    BY <1>2, <2>1, FirstNodeTells
<1>3. CASE FirstNode(nodes) = "rpc_error"
  <2>1. ans = Err("rpc")
    BY <1>3 DEF ParseAddress
  <2> QED
    BY <1>3, <2>1
<1>4. CASE FirstNode(nodes) = "config" /\ noBook
  <2>1. ans = NotConfigured
    <3> HIDE DEF noBook
    <3> QED BY <1>4 DEF ParseAddress, noBook
  <2>2. DOMAIN view = {}
    BY <1>4, NoBookIsNoView
  <2> QED
    BY <2>1, <2>2
<1>5. CASE FirstNode(nodes) = "config" /\ ~noBook
  <2>1. ans = IF found.err # "none" THEN Err(found.err)
              ELSE [tag |-> "active", members |-> found.out, truncated |-> found.truncated]
    BY <1>5 DEF ParseAddress
  <2>2. /\ IsBook(book) /\ IsBook(view)
        /\ book = view \/ (name \notin DOMAIN book /\ name \notin DOMAIN view)
    BY BookIsTheView
  <2> SUFFICES ans.tag \in {"active", "error"} /\ Closure(view, name, {}, ans)
    OBVIOUS
  <2>3. Resolved(book, name, found)
    BY <2>2, ResolveIsTold
  <2> HIDE DEF found, book, view, ans
  <2>4. Resolved(view, name, found)
    BY <2>2, <2>3, UndefinedInBoth
  <2>5. {} \cap ToSet(found.out) = {}
    OBVIOUS
  <2>6. Closure(view, name, {}, ans)
    <3>1. \/ found.err # "none" /\ ans = Err(found.err)
          \/ /\ found.err = "none" /\ {} \cap ToSet(found.out) = {}
             /\ ans = [tag |-> "active", members |-> found.out, truncated |-> found.truncated]
      BY <2>1, <2>5
    <3> QED
      BY <2>4, <3>1, AnswerIsTheClosure
  <2>7. ans.tag \in {"active", "error"}
    BY <2>1 DEF Err
  <2> QED
    BY <2>6, <2>7
<1> QED
  BY <1>1, <1>2, <1>3, <1>4, <1>5

\* What srx_resolve_application answers.
LEMMA ApplicationIsTold ==
  ASSUME NEW nodes \in Seq({"rpc_error", "not_configured", "config"}), NEW d, NEW name \in STRING,
         IsList(d.containers), IsBook(d.static), \A i \in DOMAIN d.containers : IsBook(d.containers[i].book)
  PROVE  LET ans == ParseApplication(nodes, d, name)
             view == collect_applications(d.containers, d.static)
         IN \/ ans = NotConfigured /\ \A i \in DOMAIN nodes : nodes[i] = "not_configured"
            \/ ans = Err("rpc") /\ FirstNode(nodes) # "config"
            \/ ans.tag \in {"active", "error"} /\ Closure(view, name, d.unknown, ans)
<1> DEFINE view == collect_applications(d.containers, d.static)
           found == resolve(view, name)
           ans == ParseApplication(nodes, d, name)
<1>1. FirstNode(nodes) \in {"rpc_error", "not_configured", "config"}
  BY FirstNodeTells
<1>2. CASE FirstNode(nodes) = "not_configured"
  <2>1. ans = NotConfigured
    BY <1>2 DEF ParseApplication
  <2> QED
    BY <1>2, <2>1, FirstNodeTells
<1>3. CASE FirstNode(nodes) = "rpc_error"
  <2>1. ans = Err("rpc")
    BY <1>3 DEF ParseApplication
  <2> QED
    BY <1>3, <2>1
<1>4. CASE FirstNode(nodes) = "config"
  <2>1. ans = IF found.err # "none" THEN Err(found.err)
              ELSE IF d.unknown \cap ToSet(found.out) # {} THEN Err("parse")
              ELSE [tag |-> "active", members |-> found.out, truncated |-> found.truncated]
    BY <1>4 DEF ParseApplication, ParseReached
  <2>2. IsBook(view)
    BY ApplicationsAreABook
  <2> SUFFICES ans.tag \in {"active", "error"} /\ Closure(view, name, d.unknown, ans)
    OBVIOUS
  <2>3. Resolved(view, name, found)
    BY <2>2, ResolveIsTold
  <2> HIDE DEF found, view, ans
  <2>4. \/ found.err # "none" /\ ans = Err(found.err)
        \/ found.err = "none" /\ d.unknown \cap ToSet(found.out) # {} /\ ans = Err("parse")
        \/ /\ found.err = "none" /\ d.unknown \cap ToSet(found.out) = {}
           /\ ans = [tag |-> "active", members |-> found.out, truncated |-> found.truncated]
    BY <2>1
  <2>5. Closure(view, name, d.unknown, ans)
    BY <2>3, <2>4, AnswerIsTheClosure
  <2>6. ans.tag \in {"active", "error"}
    BY <2>1 DEF Err
  <2> QED
    BY <2>5, <2>6
<1> QED
  BY <1>1, <1>2, <1>3, <1>4

\* The invariant of a lookup: its device does not change, and the answer comes once.
LookupInv == query.tool \in {"resolve_address", "resolve_application"} =>
  /\ device = query.device
  /\ step # "done" => answer = NoAnswer
  /\ NoBookMeansNoBook
  /\ ResolutionIsTheClosure

UnknownTo == IF query.tool = "resolve_application" THEN device.unknown ELSE {}

\* What the lookup sees is what its arguments say.
LEMMA ViewIsOfTheQuery ==
  /\ query.tool = "resolve_address" => View = ViewOf(device.config, query.zone, query.name)
  /\ query.tool = "resolve_application" => View = collect_applications(device.containers, device.static)
BY DEF View, ViewOf, OwnBook, AttachedTo, NamedOf, SameName

\* An answer that is the closure's makes both properties true.
LEMMA AnswerTells ==
  ASSUME query' = query, device' = device, query.tool \in {"resolve_address", "resolve_application"},
         \/ /\ answer' = NotConfigured
            /\ \/ \A i \in DOMAIN device.nodes : device.nodes[i] = "not_configured"
               \/ query.tool = "resolve_address" /\ DOMAIN View = {}
         \/ answer' = Err("rpc") /\ FirstNode(device.nodes) # "config"
         \/ /\ query.tool = "resolve_address" /\ answer' = Err("parse")
            /\ UnreadableEntries(device.config) # {}
         \/ /\ answer'.tag \in {"active", "error"} /\ Closure(View, query.name, UnknownTo, answer')
            /\ query.tool = "resolve_address" => UnreadableEntries(device.config) = {}
  PROVE  NoBookMeansNoBook' /\ ResolutionIsTheClosure'
<1>1. View' = View
  BY DEF View
<1>2. CASE /\ answer' = NotConfigured
           /\ \/ \A i \in DOMAIN device.nodes : device.nodes[i] = "not_configured"
              \/ query.tool = "resolve_address" /\ DOMAIN View = {}
  <2>1. answer'.tag = "not_configured"
    BY <1>2 DEF NotConfigured
  <2>2. NoBookMeansNoBook'
    BY <1>1, <1>2 DEF NoBookMeansNoBook
  <2>3. ResolutionIsTheClosure'
    BY <2>1 DEF ResolutionIsTheClosure
  <2> QED BY <2>2, <2>3
<1>3. CASE answer' = Err("rpc") /\ FirstNode(device.nodes) # "config"
  <2>1. answer'.tag = "error"
    BY <1>3 DEF Err
  <2>2. NoBookMeansNoBook'
    BY <2>1 DEF NoBookMeansNoBook
  <2>3. FirstNode(device.nodes)' = FirstNode(device.nodes)
    BY DEF FirstNode
  <2>4. ResolutionIsTheClosure'
    BY <1>3, <2>3 DEF ResolutionIsTheClosure
  <2> QED BY <2>2, <2>4
<1>5. CASE /\ query.tool = "resolve_address" /\ answer' = Err("parse")
           /\ UnreadableEntries(device.config) # {}
  <2>1. answer'.tag = "error" /\ answer'.kind = "parse"
    BY <1>5 DEF Err
  <2>2. NoBookMeansNoBook'
    BY <2>1 DEF NoBookMeansNoBook
  <2>3. ResolutionIsTheClosure'
    BY <1>5, <2>1 DEF ResolutionIsTheClosure
  <2> QED BY <2>2, <2>3
<1>4. CASE /\ answer'.tag \in {"active", "error"} /\ Closure(View, query.name, UnknownTo, answer')
           /\ query.tool = "resolve_address" => UnreadableEntries(device.config) = {}
  <2>1. NoBookMeansNoBook'
    BY <1>4 DEF NoBookMeansNoBook
  <2> DEFINE reached == Reached(View, query.name)
             leaves == {n \in reached \cap DOMAIN View : View[n].kind = "leaf"}
             unknown == IF query.tool = "resolve_application" THEN device.unknown \cap leaves
                        ELSE UnreadableEntries(device.config)
  <2>2. UnknownTo \cap leaves = unknown /\ (query.tool = "resolve_address" => unknown = {})
    BY <1>4 DEF UnknownTo
  <2>3. LET cyclic == \E n \in reached \cap DOMAIN View : \E m \in ToSet(View[n].members) : n \in Reached(View, m)
            deep == HasChain(View, query.name, MAX_RESOLUTION_DEPTH + 2)
            undefined == ~(reached \subseteq DOMAIN View)
        IN IF answer'.tag = "active"
           THEN /\ ~cyclic /\ ~deep /\ ~undefined
                /\ unknown \cap ToSet(answer'.members) = {}
                /\ query.tool = "resolve_address" => unknown = {}
                /\ ToSet(answer'.members) \subseteq leaves
                /\ Len(answer'.members) = Cardinality(ToSet(answer'.members))
                /\ answer'.truncated = (Cardinality(leaves) > MEMBER_CAP)
                /\ Cardinality(ToSet(answer'.members)) = IF answer'.truncated THEN MEMBER_CAP ELSE Cardinality(leaves)
           ELSE /\ answer'.kind = "cycle" => cyclic
                /\ answer'.kind = "depth" => deep
                /\ answer'.kind = "name_not_found" => undefined
                /\ answer'.kind = "parse" => unknown # {}
                /\ answer'.kind # "rpc"
    <3> HIDE DEF unknown
    <3> QED
      BY <1>4, <2>2 DEF Closure
  <2>4. ResolutionIsTheClosure'
    BY <1>1, <2>3 DEF ResolutionIsTheClosure
  <2> QED BY <2>1, <2>4
<1> QED
  BY <1>2, <1>3, <1>4, <1>5

\* Every step of a lookup keeps its invariant.
LEMMA LookupInvKept ==
  ASSUME query \in Queries, LookupInv, [QueryNext \/ ReportNext]_queryVars
  PROVE  LookupInv'
<1>1. query' = query
  BY QueryIsFixed
<1> SUFFICES ASSUME query.tool \in {"resolve_address", "resolve_application"} PROVE LookupInv'
  BY <1>1 DEF LookupInv
<1>2. device = query.device /\ (step # "done" => answer = NoAnswer) /\ NoBookMeansNoBook /\ ResolutionIsTheClosure
  BY DEF LookupInv
<1>3. CASE UNCHANGED queryVars
  <2>1. device' = device /\ step' = step /\ answer' = answer
    BY <1>3 DEF queryVars
  <2>2. View' = View
    BY <1>1, <2>1 DEF View
  <2>3. NoBookMeansNoBook'
    BY <1>1, <1>2, <2>1, <2>2 DEF NoBookMeansNoBook
  <2>4. ResolutionIsTheClosure'
    BY <1>1, <1>2, <2>1, <2>2 DEF ResolutionIsTheClosure
  <2> QED
    BY <1>1, <1>2, <2>1, <2>3, <2>4 DEF LookupInv
<1>4. CASE QueryNext \/ ReportNext
  <2>1. RefuseQuery \/ ResolveAddress \/ ResolveApplication
    BY <1>4 DEF QueryNext, ReportNext, MatchZonePolicies, MatchGlobalPolicies, CommitPolicies, ListPolicies, CommitBetweenPages,
                ClusterHealth, FlowSummary, FlowWalk, SessionsChange, ServicesStatus
  <2>2. device' = device /\ step' = "done"
    BY <2>1 DEF RefuseQuery, ResolveAddress, ResolveApplication
  <2>3. query.name \in STRING /\ device.nodes \in Seq({"rpc_error", "not_configured", "config"})
    BY <1>2, QueriesAssumption
  <2>4. CASE RefuseQuery
    <3>1. answer' = Err("invalid_input")
      BY <2>4 DEF RefuseQuery
    <3>2. answer'.tag = "error" /\ answer'.kind = "invalid_input"
      BY <3>1 DEF Err
    <3>3. NoBookMeansNoBook'
      BY <3>2 DEF NoBookMeansNoBook
    <3>4. ResolutionIsTheClosure'
      BY <3>2 DEF ResolutionIsTheClosure
    <3> QED
      BY <1>1, <1>2, <2>2, <3>3, <3>4 DEF LookupInv
  <2>5. CASE ResolveAddress
    <3>1. query.tool = "resolve_address" /\ answer' = ParseAddress(device.nodes, device.config, query.zone, query.name)
      BY <2>5 DEF ResolveAddress
    <3> DEFINE config == device.config
    <3>2. /\ BooksAreUnreadable(config) => UnreadableEntries(config) # {}
          /\ ~BooksAreUnreadable(config) => IsConfig(config) /\ UnreadableEntries(config) = {}
      <4>1. /\ IsList(config.top) /\ config.unnamed \in BOOLEAN
            /\ \A i \in DOMAIN config.top :
                   IsAddressBook(config.top[i].book) /\ "none" \notin config.top[i].attach
            /\ \A z \in DOMAIN config.zones : z # "none" /\ IsAddressBook(config.zones[z])
        BY <1>2, <3>1, QueriesAssumption
      <4> HIDE DEF config
      <4> QED BY <4>1, ConfigIsReadOrNot
    <3> DEFINE view == ViewOf(device.config, query.zone, query.name)
    <3>3. View = view /\ UnknownTo = {}
      BY <3>1, ViewIsOfTheQuery DEF UnknownTo
    <3>4. \/ answer' = NotConfigured
             /\ ((\A i \in DOMAIN device.nodes : device.nodes[i] = "not_configured") \/ DOMAIN view = {})
          \/ answer' = Err("rpc") /\ FirstNode(device.nodes) # "config"
          \/ answer' = Err("parse") /\ UnreadableEntries(config) # {}
          \/ /\ answer'.tag \in {"active", "error"} /\ Closure(view, query.name, {}, answer')
             /\ UnreadableEntries(config) = {}
      <4>1. CASE BooksAreUnreadable(config)
        <5>1. FirstNode(device.nodes) \in {"rpc_error", "not_configured", "config"}
          BY <2>3, FirstNodeTells
        <5>2. CASE FirstNode(device.nodes) = "not_configured"
          <6>1. answer' = NotConfigured
            BY <3>1, <5>2 DEF ParseAddress
          <6> QED BY <2>3, <5>2, <6>1, FirstNodeTells
        <5>3. CASE FirstNode(device.nodes) = "rpc_error"
          <6>1. answer' = Err("rpc")
            BY <3>1, <5>3 DEF ParseAddress
          <6> QED BY <5>3, <6>1
        <5>4. CASE FirstNode(device.nodes) = "config"
          <6>1. answer' = Err("parse")
            BY <3>1, <4>1, <5>4 DEF ParseAddress
          <6> QED BY <3>2, <4>1, <6>1
        <5> QED BY <5>1, <5>2, <5>3, <5>4
      <4>2. CASE ~BooksAreUnreadable(config)
        BY <2>3, <3>1, <3>2, <4>2, AddressIsTold
      <4> QED BY <4>1, <4>2
    <3> HIDE DEF view
    <3>5. NoBookMeansNoBook' /\ ResolutionIsTheClosure'
      BY <1>1, <2>2, <3>1, <3>3, <3>4, AnswerTells
    <3> QED
      BY <1>1, <1>2, <2>2, <3>5 DEF LookupInv
  <2>6. CASE ResolveApplication
    <3>1. query.tool = "resolve_application" /\ answer' = ParseApplication(device.nodes, device, query.name)
      BY <2>6 DEF ResolveApplication
    <3>2. IsList(device.containers) /\ IsBook(device.static)
          /\ \A i \in DOMAIN device.containers : IsBook(device.containers[i].book)
      BY <1>2, <3>1, QueriesAssumption
    <3> DEFINE view == collect_applications(device.containers, device.static)
    <3>3. View = view /\ UnknownTo = device.unknown
      BY <3>1, ViewIsOfTheQuery DEF UnknownTo
    <3>4. \/ answer' = NotConfigured /\ \A i \in DOMAIN device.nodes : device.nodes[i] = "not_configured"
          \/ answer' = Err("rpc") /\ FirstNode(device.nodes) # "config"
          \/ answer'.tag \in {"active", "error"} /\ Closure(view, query.name, device.unknown, answer')
      BY <2>3, <3>1, <3>2, ApplicationIsTold
    <3> HIDE DEF view
    <3>5. NoBookMeansNoBook' /\ ResolutionIsTheClosure'
      BY <1>1, <2>2, <3>1, <3>3, <3>4, AnswerTells
    <3> QED
      BY <1>1, <1>2, <2>2, <3>5 DEF LookupInv
  <2> QED
    BY <2>1, <2>4, <2>5, <2>6
<1> QED
  BY <1>3, <1>4

(***************************************************************************)
(* The theorems.                                                           *)
(***************************************************************************)

ReadInv == query \in Queries /\ VerdictInv /\ PagesInv /\ LookupInv /\ FlowInv /\ ServiceInv

\* The invariant holds of a call that has not begun.
LEMMA ReadInvInitially ==
  ASSUME QueryInit PROVE ReadInv
<1>1. query \in Queries /\ device = query.device /\ step = "start" /\ partial = <<>> /\ answer = NoAnswer
  BY DEF QueryInit
<1>2. answer.tag = "none"
  BY <1>1 DEF NoAnswer
<1>3. VerdictInv
  BY <1>1, <1>2, QueriesAssumption DEF VerdictInv, VerdictIsTheDevices
<1>4. PagesInv
  <2> SUFFICES ASSUME query.tool = "list_policies" PROVE PagesInv
    BY DEF PagesInv
  <2>1. partial \in Seq(Shown) /\ Len(partial) = 0 /\ 1..Len(partial) = {}
    BY <1>1
  <2>2. device \in Seq(PolicyReply)
    BY <1>1, QueriesAssumption DEF PolicyReply
  <2>3. Len(AllPolicies(device)) \in Nat
    BY <2>2, ListOfDevice DEF OncePerKey
  <2> QED
    BY <1>1, <2>1, <2>3 DEF PagesInv
<1>5. LookupInv
  BY <1>1, <1>2 DEF LookupInv, NoBookMeansNoBook, ResolutionIsTheClosure
<1>6. FlowInv
  BY <1>1, <1>2, FlowAssumption DEF FlowInv, FlowAnswerIsBounded
<1>7. ServiceInv
  BY <1>1, <1>2 DEF ServiceInv, AbsentMeansAbsent
<1> QED
  BY <1>1, <1>3, <1>4, <1>5, <1>6, <1>7 DEF ReadInv

\* Every step of every tool keeps it.
LEMMA ReadInvKept ==
  ASSUME ReadInv, [QueryNext \/ ReportNext]_queryVars PROVE ReadInv'
<1>1. query' \in Queries
  BY QueryIsFixed DEF ReadInv
<1> QED
  BY <1>1, VerdictInvKept, PagesInvKept, LookupInvKept, FlowInvKept, ServiceInvKept DEF ReadInv

\* The inductive invariant of the read-only tools.
THEOREM ReadsAreConsistent == ReadSpec => []ReadInv
BY ReadInvInitially, ReadInvKept, PTL DEF ReadSpec

\* srx_policy_match gives the verdict of the device's three tiers (resolve, parse_reply).
THEOREM VerdictsAreTheDevices == ReadSpec => []VerdictIsTheDevices
<1>1. ReadInv => VerdictIsTheDevices
  BY DEF ReadInv, VerdictInv, VerdictIsTheDevices
<1> QED
  BY <1>1, ReadsAreConsistent, PTL

\* srx_resolve_address and srx_resolve_application answer with the closure of
\* their name, or with what is wrong with it (the walk of resolve.rs).
THEOREM LookupsAreTheClosure == ReadSpec => []ResolutionIsTheClosure
<1>1. ReadInv => ResolutionIsTheClosure
  BY DEF ReadInv, LookupInv, ResolutionIsTheClosure
<1> QED
  BY <1>1, ReadsAreConsistent, PTL

\* srx_flow_sessions never answers with more than its cap, and says so when it cut (run, parse_walk).
THEOREM FlowAnswersAreBounded == ReadSpec => []FlowAnswerIsBounded
<1>1. ReadInv => FlowAnswerIsBounded
  BY DEF ReadInv, FlowInv, FlowAnswerIsBounded
<1> QED
  BY <1>1, ReadsAreConsistent, PTL

\* A failed RPC or node never reads as "not configured", and pages of policies
\* leave none out and repeat none (per_node, the parsers, Page).
THEOREM FailuresAreNotAbsence == ReadSpec => []FailureIsNotAbsence
<1>1. ReadInv => FailureIsNotAbsence
  <2> SUFFICES ASSUME ReadInv PROVE FailureIsNotAbsence
    OBVIOUS
  <2>1. AbsentMeansAbsent
    BY DEF ReadInv, ServiceInv, AbsentMeansAbsent
  <2>2. NoBookMeansNoBook
    BY DEF ReadInv, LookupInv, NoBookMeansNoBook
  <2>3. PagesTile
    BY PagesAreTheList DEF ReadInv
  <2> QED
    BY <2>1, <2>2, <2>3 DEF FailureIsNotAbsence
<1> QED
  BY <1>1, ReadsAreConsistent, PTL
=============================================================================
