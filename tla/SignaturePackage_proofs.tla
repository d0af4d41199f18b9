----------------------- MODULE SignaturePackage_proofs -----------------------
(***************************************************************************)
(* Theorems about SignaturePackage: every destructive run spends a token   *)
(* that a preview issued for it and no token is spent twice; only the call *)
(* that holds the device lease has work in hand; the verdict a call gives  *)
(* is about the plan its caller was shown.                                 *)
(***************************************************************************)
EXTENDS SignaturePackage, FiniteSetTheorems, WellFoundedInduction, TLAPS

JobKinds == {"download", "install", "rollback", "uninstall"}
Audits == {"-", "preflight_passed", "download_complete", "install_complete"}
CallRecord ==
  [pc : {"idle", "open", "preflight", "start", "poll", "verify"},
   req : scenario.asks \cup {NoRequest}, ident : Nat, token : Nat,
   plan : {None} \cup {i.plan : i \in issued}, kind : JobKinds \cup {"-"}, audit : Audits]

\* Tokens are numbered as they are issued.
TokensInv ==
  /\ IsFiniteSet(issued)
  /\ \A i \in issued : i.token \in 1..Cardinality(issued)
  /\ \A i, j \in issued : i.token = j.token => i = j

\* An entry of the store is what its preview put there.
Entry(i) == [caller : {i.caller}, ident : {i.ident}, plan : {i.plan}, expired : BOOLEAN]
StoreInv ==
  \A t \in DOMAIN pending : \E i \in issued : i.token = t /\ pending[t] \in Entry(i)

\* A destructive call works on a plan that was shown under its token, for its own
\* service, and that names a version unless it removes the package.
PlanOk(r) ==
  /\ \E i \in issued : i.token = r.token /\ i.plan = r.plan
  /\ r.plan.verb = "uninstall" => r.req.svc = "appid"
  /\ r.plan.verb # "uninstall" => r.plan.target.lead # 0
Destructive == {"start", "poll", "verify"}
CallOk(r) ==
  /\ r \in CallRecord
  /\ r.pc # "idle" => r.req \in scenario.asks
  /\ r.pc \in Destructive => PlanOk(r)

\* Whoever is past the first look at its token holds the lease.
HolderInv == \A c \in Calls : Running(c) => lease = c

Text == [lead : Nat, tail : BOOLEAN]
Package == [pkg : [Nodes -> Text], back : [Nodes -> Text], staged : Nat,
            status : [JobKinds -> SUBSET {"done", "failed"}]]

\* IDP texts carry the suffix, so that a number of zero is the text of an absent package.
DeviceInv ==
  /\ latest \in Nat \ {0}
  /\ dev \in [Services -> Package]
  /\ \A n \in Nodes : dev["idp"].pkg[n].tail = TRUE /\ dev["idp"].back[n].tail = TRUE
  /\ jobs \subseteq [svc : Services, kind : JobKinds, token : Nat, version : Nat]
  /\ \A j \in jobs : j.kind = "uninstall" => j.svc = "appid"

Books == TokensInv /\ StoreInv /\ RunsWerePreviewed
CallsInv == /\ scenario \in Scenarios /\ ident \in Nat
            /\ DOMAIN call = Calls /\ (\A c \in Calls : CallOk(call[c])) /\ HolderInv
Inv == Books /\ CallsInv /\ DeviceInv

-----------------------------------------------------------------------------
(* The store *)

\* Nothing of the store, the previews and the runs moves.
LEMMA BooksKept ==
  ASSUME Books, UNCHANGED <<pending, issued, runs>>
  PROVE  Books'
BY DEF Books, TokensInv, StoreInv, Entry, RunsWerePreviewed

\* An entry is removed, or none.
LEMMA BooksShrink ==
  ASSUME Books, UNCHANGED <<issued, runs>>, NEW token, pending' \in {pending, Without(token)}
  PROVE  Books'
<1>1. /\ DOMAIN pending' \subseteq DOMAIN pending
      /\ \A t \in DOMAIN pending' : pending'[t] = pending[t]
  BY DEF Without
<1>2. TokensInv'
  BY DEF Books, TokensInv
<1>3. StoreInv'
  BY <1>1 DEF Books, StoreInv, Entry
<1>4. RunsWerePreviewed'
  BY <1>1 DEF Books, RunsWerePreviewed
<1> QED
  BY <1>2, <1>3, <1>4 DEF Books

\* A token expires: its entry stays until somebody asks for it.
LEMMA BooksExpire ==
  ASSUME Books, NEW t \in Live, ExpireToken(t)
  PROVE  Books'
<1>1. t \in DOMAIN pending /\ DOMAIN pending' = DOMAIN pending
  BY DEF Live, ExpireToken
<1>2. ASSUME NEW u \in DOMAIN pending'
      PROVE  \E i \in issued : i.token = u /\ pending'[u] \in Entry(i)
  <2>1. PICK i \in issued : i.token = u /\ pending[u] \in Entry(i)
    BY <1>1, <1>2 DEF Books, StoreInv
  <2>2. pending'[u] \in Entry(i)
    <3>1. pending' = [pending EXCEPT ![t].expired = TRUE]
      BY DEF ExpireToken
    <3>2. CASE u = t
      <4>1. pending'[u] = [pending[u] EXCEPT !.expired = TRUE]
        BY <1>1, <3>1, <3>2
      <4> QED
        BY <2>1, <4>1 DEF Entry
    <3>3. CASE u # t
      BY <1>1, <1>2, <2>1, <3>1, <3>3
    <3> QED
      BY <3>2, <3>3
  <2> QED
    BY <2>1, <2>2
<1>3. issued' = issued /\ runs' = runs
  BY DEF ExpireToken
<1> QED
  BY <1>1, <1>2, <1>3 DEF Books, StoreInv, Entry, TokensInv, RunsWerePreviewed

\* A preview puts its plan into the store under a number not used before.
LEMMA BooksPreview ==
  ASSUME Books, NEW c \in Calls, NEW said, Preview(c, said)
  PROVE  Books' /\ issued \subseteq issued'
<1> DEFINE plan == PlanFor(call[c].req, said)
           new == [token |-> NewToken, caller |-> call[c].req.caller, ident |-> call[c].ident,
                   plan |-> plan]
           kept == [t \in Live |-> pending[t]]
           entry == [caller |-> call[c].req.caller, ident |-> call[c].ident, plan |-> plan,
                     expired |-> FALSE]
<1>0. /\ IsFiniteSet(issued) /\ \A i \in issued : i.token \in 1..Cardinality(issued)
      /\ \A i, j \in issued : i.token = j.token => i = j
  BY DEF Books, TokensInv
<1>1. CASE pending' \in {pending, kept} /\ UNCHANGED <<issued, runs>>
  <2>1. /\ DOMAIN pending' \subseteq DOMAIN pending
        /\ \A t \in DOMAIN pending' : pending'[t] = pending[t]
    BY <1>1 DEF Live
  <2>2. TokensInv' /\ StoreInv' /\ RunsWerePreviewed'
    BY <1>1, <2>1 DEF Books, TokensInv, StoreInv, Entry, RunsWerePreviewed
  <2> QED
    BY <1>1, <2>2 DEF Books
<1>2. CASE /\ issued' = issued \cup {new} /\ runs' = runs
           /\ pending' = [t \in Live \cup {NewToken} |->
                            IF t = NewToken THEN entry ELSE kept[t]]
  <2>1. /\ Cardinality(issued) \in Nat /\ NewToken = Cardinality(issued) + 1
        /\ new.token = NewToken
    BY <1>0, FS_CardinalityType DEF NewToken
  <2>2. new \notin issued
    BY <1>0, <2>1
  <2>0. entry \in Entry(new)
    BY DEF Entry
  <2> HIDE DEF new, entry
  <2>3. IsFiniteSet(issued') /\ Cardinality(issued') = NewToken
    BY <1>0, <1>2, <2>1, <2>2, FS_AddElement
  <2>4. TokensInv'
    <3>1. \A i \in issued' : i \in issued \/ i = new
      BY <1>2
    <3>2. \A i \in issued' : i.token \in 1..Cardinality(issued')
      BY <1>0, <2>1, <2>3, <3>1
    <3>3. \A i \in issued : i.token # new.token
      BY <1>0, <2>1
    <3>4. \A i, j \in issued' : i.token = j.token => i = j
      BY <1>0, <3>1, <3>3, Zenon
    <3> QED
      BY <2>3, <3>2, <3>4 DEF TokensInv
  <2>5. StoreInv'
    <3> SUFFICES ASSUME NEW t \in DOMAIN pending'
                 PROVE  \E i \in issued' : i.token = t /\ pending'[t] \in Entry(i)
      BY DEF StoreInv, Entry
    <3>1. CASE t = NewToken
      <4>1. new \in issued' /\ pending'[t] \in Entry(new)
        BY <1>2, <2>0, <3>1
      <4> QED
        BY <2>1, <3>1, <4>1
    <3>2. CASE t # NewToken
      <4>1. t \in DOMAIN pending /\ pending'[t] = pending[t]
        BY <1>2, <3>2 DEF Live
      <4> QED
        BY <1>2, <4>1 DEF Books, StoreInv
    <3> QED
      BY <3>1, <3>2
  <2>6. RunsWerePreviewed'
    <3>1. \A r \in runs : r.token # NewToken
      BY <1>0, <2>1 DEF Books, RunsWerePreviewed
    <3>2. \A t \in DOMAIN pending' : t \in DOMAIN pending \/ t = NewToken
      BY <1>2 DEF Live
    <3> QED
      BY <1>2, <3>1, <3>2 DEF Books, RunsWerePreviewed
  <2> QED
    BY <1>2, <2>4, <2>5, <2>6 DEF Books
<1> QED
  BY <1>1, <1>2 DEF Preview, issue

\* The only run of a token: a call that spends it finds the plan of its preview, and
\* takes the token out of the store.
LEMMA BooksConfirm ==
  ASSUME Books, NEW c \in Calls, NEW said, Confirm(c, said),
         call[c].req.verb \in {"install", "rollback", "uninstall"}
  PROVE  /\ Books' /\ issued' = issued
         /\ \/ call' = [call EXCEPT ![c] = Idle] /\ Free(c)
            \/ /\ PlanFor(call[c].req, said).kind = "plan" /\ lease' = lease
               /\ call' = [Goto(c, "start") EXCEPT ![c].plan = PlanFor(call[c].req, said),
                             ![c].kind = FirstKind(PlanFor(call[c].req, said).verb),
                             ![c].audit = "preflight_passed"]
               /\ \E i \in issued : i.token = call[c].token /\ i.plan = PlanFor(call[c].req, said)
<1> DEFINE plan == PlanFor(call[c].req, said)
           token == call[c].token
           answer == IF plan.kind = "plan" THEN consume(token, Binding(c), plan) ELSE plan.kind
           run == [call |-> c, token |-> token, caller |-> call[c].req.caller,
                   ident |-> call[c].ident, plan |-> plan]
<1>1. /\ pending' = AfterConsume(token, answer) /\ issued' = issued
      /\ \/ answer # "ok" /\ Finish(c, "refused") /\ Free(c) /\ UNCHANGED runs
         \/ /\ answer = "ok"
            /\ call' = [Goto(c, "start") EXCEPT ![c].plan = plan,
                          ![c].kind = FirstKind(plan.verb), ![c].audit = "preflight_passed"]
            /\ runs' = runs \cup {run} /\ lease' = lease
  BY DEF Confirm
<1>2. CASE answer # "ok"
  <2>1. runs' = runs /\ call' = [call EXCEPT ![c] = Idle] /\ Free(c)
    BY <1>1, <1>2 DEF Finish, Respond
  <2>2. pending' \in {pending, Without(token)}
    BY <1>1 DEF AfterConsume
  <2>3. Books'
    BY <1>1, <2>1, <2>2, BooksShrink
  <2> QED
    BY <1>1, <2>1, <2>3
<1>3. CASE answer = "ok"
  <2>1. (plan.kind = "plan" /\ consume(token, Binding(c), plan) = "ok") \/ plan.kind = "ok"
    BY <1>3
  <2>2. plan.kind # "ok"
    <3>1. CASE call[c].req.verb = "install"
      BY <3>1 DEF PlanFor, build_plan, AtTarget
    <3>2. CASE call[c].req.verb = "rollback"
      BY <3>2 DEF PlanFor, build_rollback_plan, NoPlan
    <3>3. CASE call[c].req.verb = "uninstall"
      BY <3>3 DEF PlanFor, build_uninstall_plan, NoPlan
    <3> QED
      BY <3>1, <3>2, <3>3
  <2>3. validate_binding(token, Binding(c)) = "ok" /\ pending[token].plan = plan
    BY <2>1, <2>2 DEF consume
  <2>4. token \in DOMAIN pending /\ BoundTo(pending[token], Binding(c))
    BY <2>3 DEF validate_binding
  <2>5. PICK i \in issued : i.token = token /\ pending[token] \in Entry(i)
    BY <2>4 DEF Books, StoreInv
  <2>6. i.plan = plan /\ i.caller = call[c].req.caller /\ i.ident = call[c].ident
    BY <2>3, <2>4, <2>5 DEF BoundTo, Binding, Entry
  <2>7. pending' = Without(token)
    BY <1>1, <1>3 DEF AfterConsume
  <2>8. /\ DOMAIN pending' = DOMAIN pending \ {token}
        /\ \A t \in DOMAIN pending' : pending'[t] = pending[t]
    BY <2>7 DEF Without
  <2>9. runs' = runs \cup {run} /\ lease' = lease
    BY <1>1, <1>3
  <2>10. \A r \in runs : r.token # token
    BY <2>4 DEF Books, RunsWerePreviewed
  <2>11. TokensInv' /\ StoreInv'
    BY <1>1, <2>8 DEF Books, TokensInv, StoreInv, Entry
  <2>12. RunsWerePreviewed'
    BY <1>1, <2>5, <2>6, <2>8, <2>9, <2>10 DEF Books, RunsWerePreviewed
  <2> QED
    BY <1>1, <1>3, <2>1, <2>2, <2>5, <2>6, <2>9, <2>11, <2>12 DEF Books
<1> QED
  BY <1>2, <1>3

-----------------------------------------------------------------------------
(* Plans and the device *)

\* The order of the naturals as a well-founded relation.
LEMMA NaturalOrder ==
  \E R : IsWellFoundedOn(R, Nat) /\ \A a, b \in Nat : a < b => <<a, b>> \in R
<1> DEFINE R == OpToRel(<, Nat)
<1>1. IsWellFoundedOn(R, Nat)
  BY NatLessThanWellFounded
<1>2. \A a, b \in Nat : a < b => <<a, b>> \in R
  BY DEF OpToRel
<1> HIDE DEF R
<1> QED
  BY <1>1, <1>2, Zenon

\* A set of naturals that is not empty has a least member.
LEMMA Least ==
  ASSUME NEW S, S \subseteq Nat, S # {}
  PROVE  \E n \in S : \A m \in S : n <= m
<1>1. PICK R : IsWellFoundedOn(R, Nat) /\ \A a, b \in Nat : a < b => <<a, b>> \in R
  BY NaturalOrder
<1>2. PICK n \in S : \A m \in S : ~ (<<m, n>> \in R)
  BY <1>1, WFMin
<1>3. n \in Nat /\ \A m \in S : m \in Nat /\ ~ (m < n)
  BY <1>1, <1>2, Zenon
<1>4. \A m \in S : n <= m
  BY <1>3
<1> QED
  BY <1>4, Zenon

\* A version reply lists nodes of the device, and at least one.
LEMMA SaidFacts ==
  ASSUME scenario \in Scenarios, NEW said \in scenario.replies
  PROVE  said.told \subseteq Nodes /\ said.told # {} /\ said.unsaid \subseteq said.told
BY SignatureAssumption DEF Nodes

\* FirstOf finds a text when some node reports one.
LEMMA FirstOfFacts ==
  ASSUME NEW texts, DOMAIN texts \subseteq Nodes
  PROVE  /\ FirstOf(texts) # None => \E n \in DOMAIN texts : FirstOf(texts) = texts[n]
         /\ FirstOf(texts) = None => \A n \in DOMAIN texts : texts[n] = None
<1> DEFINE has == {n \in DOMAIN texts : texts[n] # None}
           first == CHOOSE n \in has : \A m \in has : n <= m
<1>1. CASE has = {}
  BY <1>1 DEF FirstOf
<1>2. CASE has # {}
  <2>1. has \subseteq Nat
    BY SignatureAssumption DEF Nodes
  <2>2. \E n \in has : \A m \in has : n <= m
    BY <1>2, <2>1, Least
  <2>3. first \in has
    BY <2>2, Zenon
  <2>4. FirstOf(texts) = texts[first]
    BY <1>2 DEF FirstOf
  <2> QED
    BY <2>3, <2>4
<1> QED
  BY <1>1, <1>2

\* What a plan is for: the verb that was asked for, and a version that exists unless
\* the package goes.
LEMMA PlanFacts ==
  ASSUME DeviceInv, scenario \in Scenarios, NEW said \in scenario.replies,
         NEW req \in scenario.asks, req.verb # "check",
         PlanFor(req, said).kind = "plan"
  PROVE  /\ PlanFor(req, said).verb = req.verb
         /\ req.verb \in {"install", "rollback", "uninstall"}
         /\ req.verb = "uninstall" => req.svc = "appid"
         /\ req.verb # "uninstall" => PlanFor(req, said).target.lead # 0
<1>1. req \in ([svc : {"idp"}, verb : {"check", "install", "rollback"}, pin : 0..MaxVersion, caller : Callers]
               \cup [svc : {"appid"}, verb : {"check", "install", "uninstall"}, pin : 0..MaxVersion, caller : Callers])
  BY SignatureAssumption
<1>2. CASE req.verb = "install"
  <2>1. PlanFor(req, said) = build_plan(req.svc, check_server(req.svc, said), req.pin)
    BY <1>2 DEF PlanFor
  <2>2. PlanFor(req, said).verb = "install"
        /\ PlanFor(req, said).target = Target(check_server(req.svc, said), req.pin)
    BY <2>1 DEF build_plan, AtTarget
  <2>3. Target(check_server(req.svc, said), req.pin).lead # 0
    BY DEF Target, check_server, DeviceInv
  <2> QED
    BY <1>1, <1>2, <2>2, <2>3
<1>3. CASE req.verb = "rollback"
  <2> DEFINE nodes == NodesOf("idp", said)
             texts == [m \in DOMAIN nodes |-> nodes[m].back]
  <2>1. PlanFor(req, said) = build_rollback_plan([nodes |-> nodes])
    BY <1>3 DEF PlanFor
  <2>2. /\ PlanFor(req, said).verb = "rollback" /\ PlanFor(req, said).target = Preserved(nodes)
        /\ Preserved(nodes) # None
    BY <2>1 DEF build_rollback_plan, NoPlan
  <2>3. /\ DOMAIN texts = said.told /\ said.told \subseteq Nodes
        /\ \A m \in said.told :
             texts[m] = normalize_version_text(Element(said, m, dev["idp"].back))
    BY SaidFacts DEF NodesOf, parse_package_information, Normalize
  <2>4. PICK n \in Nodes : Preserved(nodes) = normalize_version_text(Element(said, n, dev["idp"].back))
    <3> HIDE DEF nodes
    <3>1. Preserved(nodes) = FirstOf(texts)
      BY DEF Preserved
    <3> HIDE DEF texts
    <3>2. PICK n \in DOMAIN texts : FirstOf(texts) = texts[n]
      BY <2>2, <2>3, <3>1, FirstOfFacts
    <3> QED
      BY <2>3, <3>1, <3>2
  <2>5. dev["idp"].back[n] \in Text /\ dev["idp"].back[n].tail = TRUE
    BY DEF DeviceInv, Package, Services
  <2>6. /\ Preserved(nodes) = dev["idp"].back[n] /\ dev["idp"].back[n] # NotAvailable
    BY <2>2, <2>4 DEF normalize_version_text, Element
  <2>7. dev["idp"].back[n].lead # 0
    BY <2>5, <2>6 DEF NotAvailable, Text
  <2> QED
    BY <1>1, <1>3, <2>2, <2>6, <2>7
<1>4. CASE req.verb = "uninstall"
  <2>1. PlanFor(req, said) = build_uninstall_plan([nodes |-> NodesOf("appid", said)])
    BY <1>4 DEF PlanFor
  <2>2. PlanFor(req, said).verb = "uninstall"
    BY <2>1 DEF build_uninstall_plan, NoPlan
  <2> QED
    BY <1>1, <1>4, <2>2
<1> QED
  BY <1>1, <1>2, <1>3, <1>4

\* Nothing of the device moves.
LEMMA DeviceKept ==
  ASSUME DeviceInv, UNCHANGED <<dev, jobs, latest>>
  PROVE  DeviceInv'
BY DEF DeviceInv

\* Setting a status text.
LEMMA StatusSet ==
  ASSUME DeviceInv, NEW svc \in Services, NEW kind \in JobKinds,
         NEW text \in SUBSET {"done", "failed"}
  PROVE  /\ SetStatus(svc, kind, text) \in [Services -> Package]
         /\ \A s \in Services : /\ SetStatus(svc, kind, text)[s].pkg = dev[s].pkg
                                /\ SetStatus(svc, kind, text)[s].back = dev[s].back
                                /\ SetStatus(svc, kind, text)[s].staged = dev[s].staged
<1> DEFINE d == dev[svc]
           new == [d EXCEPT !.status[kind] = text]
<1>1. dev \in [Services -> Package] /\ d \in Package
  BY DEF DeviceInv
<1>2. new \in Package /\ new.pkg = d.pkg /\ new.back = d.back /\ new.staged = d.staged
  BY <1>1 DEF Package
<1>3. SetStatus(svc, kind, text) = [dev EXCEPT ![svc] = new]
  BY DEF SetStatus
<1> HIDE DEF new
<1> QED
  BY <1>1, <1>2, <1>3

\* The device takes a request on.
LEMMA DeviceTakes ==
  ASSUME DeviceInv, NEW c \in Calls, call[c].token \in Nat, NEW svc \in Services,
         NEW kind \in JobKinds, kind = "uninstall" => svc = "appid",
         DeviceAccepts(c, svc, kind), latest' = latest
  PROVE  DeviceInv'
<1> DEFINE job == [svc |-> svc, kind |-> kind, token |-> call[c].token, version |-> latest]
<1>1. dev' = SetStatus(svc, kind, {}) /\ jobs' = jobs \cup {job}
  BY DEF DeviceAccepts
<1>2. dev' \in [Services -> Package] /\ \A s \in Services : dev'[s].pkg = dev[s].pkg /\ dev'[s].back = dev[s].back
  BY <1>1, StatusSet
<1>3. /\ job \in [svc : Services, kind : JobKinds, token : Nat, version : Nat]
      /\ job.kind = "uninstall" => job.svc = "appid"
  BY DEF DeviceInv
<1> HIDE DEF job
<1> QED
  BY <1>1, <1>2, <1>3 DEF DeviceInv, Services

\* What a job that succeeds leaves on the nodes it reached.
LEMMA InstalledFacts ==
  ASSUME NEW d \in Package, NEW nodes, NEW texts \in [Nodes -> Text]
  PROVE  /\ Installed(d, nodes, texts) \in Package
         /\ \A n \in Nodes : /\ Installed(d, nodes, texts).pkg[n] \in {texts[n], d.pkg[n]}
                             /\ Installed(d, nodes, texts).back[n] \in {d.pkg[n], d.back[n]}
<1> DEFINE pkg == [n \in Nodes |-> IF n \in nodes THEN texts[n] ELSE d.pkg[n]]
           back == [n \in Nodes |-> IF n \in nodes THEN d.pkg[n] ELSE d.back[n]]
<1>1. d.pkg \in [Nodes -> Text] /\ d.back \in [Nodes -> Text]
  BY DEF Package
<1>2. pkg \in [Nodes -> Text] /\ back \in [Nodes -> Text]
  BY <1>1
<1>3. Installed(d, nodes, texts) = [d EXCEPT !.pkg = pkg, !.back = back]
  BY DEF Installed
<1>4. \A n \in Nodes : pkg[n] \in {texts[n], d.pkg[n]} /\ back[n] \in {d.pkg[n], d.back[n]}
  OBVIOUS
<1> HIDE DEF pkg, back
<1> QED
  BY <1>2, <1>3, <1>4 DEF Package

\* A job ends, well or badly: IDP texts keep their suffix.
LEMMA DeviceFinishes ==
  ASSUME DeviceInv, NEW j \in jobs, DeviceEnds(j)
  PROVE  DeviceInv'
<1>0. /\ j \in [svc : Services, kind : JobKinds, token : Nat, version : Nat]
      /\ j.kind = "uninstall" => j.svc = "appid" /\ j.svc # "idp"
      /\ dev \in [Services -> Package] /\ "idp" \in Services
  BY DEF DeviceInv, Services
<1>1. j.svc \in Services /\ j.kind \in JobKinds /\ j.version \in Nat
  BY <1>0
<1>2. jobs' = jobs \ {j} /\ latest' = latest
  BY DEF DeviceEnds
<1>3. /\ dev' \in [Services -> Package]
      /\ \A n \in Nodes : dev'["idp"].pkg[n].tail = TRUE /\ dev'["idp"].back[n].tail = TRUE
  <2>1. CASE dev' = SetStatus(j.svc, j.kind, IF j.svc = "idp" THEN {"done", "failed"} ELSE {"failed"})
    <3> DEFINE text == IF j.svc = "idp" THEN {"done", "failed"} ELSE {"failed"}
    <3>1. text \in SUBSET {"done", "failed"} /\ dev' = SetStatus(j.svc, j.kind, text)
      BY <2>1
    <3> HIDE DEF text
    <3>2. /\ dev' \in [Services -> Package]
          /\ \A s \in Services : dev'[s].pkg = dev[s].pkg /\ dev'[s].back = dev[s].back
      BY <1>1, <3>1, StatusSet
    <3> QED
      BY <1>0, <3>2 DEF DeviceInv
  <2>2. ASSUME NEW nodes \in {Nodes, {1}},
               dev' = [SetStatus(j.svc, j.kind, {"done"}) EXCEPT ![j.svc] =
                         DoneBy(j, SetStatus(j.svc, j.kind, {"done"})[j.svc], nodes)]
        PROVE  /\ dev' \in [Services -> Package]
               /\ \A n \in Nodes : dev'["idp"].pkg[n].tail = TRUE /\ dev'["idp"].back[n].tail = TRUE
    <3> DEFINE set == SetStatus(j.svc, j.kind, {"done"})
               d == set[j.svc]
               new == DoneBy(j, d, nodes)
               idpSet == [n \in Nodes |-> [lead |-> d.staged, tail |-> j.svc = "idp"]]
               zeros == [n \in Nodes |-> Zero]
    <3>1. /\ set \in [Services -> Package]
          /\ \A s \in Services : set[s].pkg = dev[s].pkg /\ set[s].back = dev[s].back
      BY <1>1, StatusSet
    <3>2. dev' = [set EXCEPT ![j.svc] = new]
      BY <2>2
    <3> HIDE DEF set
    <3>3. d \in Package
      BY <1>1, <3>1
    <3>4. \A n \in Nodes : j.svc = "idp" => d.pkg[n].tail = TRUE /\ d.back[n].tail = TRUE
      BY <1>1, <3>1 DEF DeviceInv
    <3> HIDE DEF d
    <3>5. /\ new \in Package
          /\ j.svc = "idp" => \A n \in Nodes : new.pkg[n].tail = TRUE /\ new.back[n].tail = TRUE
      <4>1. CASE j.kind = "download"
        <5>1. new = [d EXCEPT !.staged = j.version]
          BY <4>1 DEF DoneBy
        <5> QED
          BY <1>1, <3>3, <3>4, <5>1 DEF Package
      <4>2. CASE j.kind = "install"
        <5>1. new = Installed(d, nodes, idpSet)
          BY <4>2 DEF DoneBy
        <5>2. idpSet \in [Nodes -> Text] /\ \A n \in Nodes : j.svc = "idp" => idpSet[n].tail = TRUE
          BY <3>3 DEF Text, Package
        <5> HIDE DEF idpSet
        <5> QED
          BY <3>3, <3>4, <5>1, <5>2, InstalledFacts
      <4>3. CASE j.kind = "rollback"
        <5>1. new = Installed(d, nodes, d.back) /\ d.back \in [Nodes -> Text]
          BY <3>3, <4>3 DEF DoneBy, Package
        <5> QED
          BY <3>3, <3>4, <5>1, InstalledFacts
      <4>4. CASE j.kind = "uninstall"
        <5>1. new = Installed(d, nodes, zeros) /\ zeros \in [Nodes -> Text]
          BY <4>4 DEF DoneBy, Zero, Text
        <5> HIDE DEF zeros
        <5> QED
          BY <1>0, <3>3, <4>4, <5>1, InstalledFacts
      <4> QED
        BY <1>1, <4>1, <4>2, <4>3, <4>4 DEF JobKinds
    <3> HIDE DEF new
    <3> QED
      BY <1>0, <1>1, <3>1, <3>2, <3>5 DEF DeviceInv
  <2> QED
    BY <2>1, <2>2 DEF DeviceEnds
<1> QED
  BY <1>2, <1>3 DEF DeviceInv

-----------------------------------------------------------------------------
(* The calls *)

\* What the calls are told about grows: previews are only added.
LEMMA CallOkGrows ==
  ASSUME NEW r, CallOk(r), issued \subseteq issued', scenario' = scenario
  PROVE  CallOk(r)'
<1>1. r \in CallRecord'
  BY DEF CallOk, CallRecord
<1>2. r.pc # "idle" => r.req \in scenario'.asks
  BY DEF CallOk
<1>3. r.pc \in Destructive => PlanOk(r)'
  BY DEF CallOk, PlanOk
<1> QED
  BY <1>1, <1>2, <1>3 DEF CallOk

\* A free slot.
LEMMA IdleOk == CallOk(Idle) /\ Idle.pc = "idle"
<1>1. Idle \in CallRecord
  BY DEF Idle, CallRecord, NoToken, JobKinds, Audits, NoRequest
<1>2. Idle.pc = "idle"
  BY DEF Idle
<1> QED
  BY <1>1, <1>2 DEF CallOk, Destructive

\* One call goes on; the others, and the lease where it does not have it, stay.
LEMMA CallMoves ==
  ASSUME CallsInv, NEW c \in Calls, NEW r, CallOk(r), call' = [call EXCEPT ![c] = r],
         issued \subseteq issued', scenario' = scenario, ident' \in Nat,
         \A d \in Calls : d # c /\ lease = d => lease' = d,
         r.pc \in Destructive \/ (r.pc = "preflight" /\ r.token # NoToken) => lease' = c
  PROVE  CallsInv'
<1>1. DOMAIN call' = Calls /\ call'[c] = r /\ \A d \in Calls : d # c => call'[d] = call[d]
  BY DEF CallsInv
<1>2. ASSUME NEW d \in Calls PROVE CallOk(call[d])'
  <2>1. CASE d = c
    <3>1. CallOk(r)'
      BY CallOkGrows
    <3> QED
      BY <1>1, <2>1, <3>1
  <2>2. CASE d # c
    <3>1. CallOk(call[d]) /\ call'[d] = call[d]
      BY <1>1, <2>2 DEF CallsInv
    <3>2. \A q : CallOk(q) => CallOk(q)'
      BY CallOkGrows
    <3> QED
      BY <3>1, <3>2
  <2> QED
    BY <2>1, <2>2
<1>3. ASSUME NEW d \in Calls, Running(d)' PROVE lease' = d
  <2>1. CASE d = c
    BY <1>1, <1>3, <2>1 DEF Running, Destructive
  <2>2. CASE d # c
    BY <1>1, <1>3, <2>2 DEF Running, CallsInv, HolderInv
  <2> QED
    BY <2>1, <2>2
<1> QED
  BY <1>1, <1>2, <1>3 DEF CallsInv, HolderInv

\* One call returns, with or without a lease.
LEMMA CallReturns ==
  ASSUME CallsInv, NEW c \in Calls, call' = [call EXCEPT ![c] = Idle],
         issued \subseteq issued', scenario' = scenario, ident' \in Nat, lease' = lease \/ Free(c)
  PROVE  CallsInv'
<1>1. PICK r : r = Idle
  OBVIOUS
<1>2. CallOk(r) /\ r.pc = "idle"
  BY <1>1, IdleOk
<1>3. \A d \in Calls : d # c /\ lease = d => lease' = d
  BY DEF Free
<1> QED
  BY <1>1, <1>2, <1>3, CallMoves DEF Destructive

\* A call goes to another position, with another audit line or kind of request.
LEMMA CallGoesOn ==
  ASSUME Inv, NEW c \in Calls, call[c].pc \in Destructive, NEW pc \in Destructive,
         NEW kind \in JobKinds, NEW audit \in Audits,
         call' = [call EXCEPT ![c].pc = pc, ![c].kind = kind, ![c].audit = audit],
         UNCHANGED <<issued, scenario, ident, lease>>
  PROVE  CallsInv'
<1>1. PICK r : r = [call[c] EXCEPT !.pc = pc, !.kind = kind, !.audit = audit]
  OBVIOUS
<1>2. CallOk(call[c]) /\ call[c] \in CallRecord
  BY DEF Inv, CallsInv, CallOk
<1>3. /\ r \in CallRecord /\ r.pc = pc /\ r.req = call[c].req /\ r.token = call[c].token
      /\ r.plan = call[c].plan
  BY <1>1, <1>2 DEF CallRecord, Destructive
<1>4. CallOk(r)
  <2>1. r.req \in scenario.asks
    BY <1>2, <1>3 DEF CallOk, Destructive
  <2>2. PlanOk(r)
    BY <1>2, <1>3 DEF CallOk, PlanOk
  <2> QED
    BY <1>3, <2>1, <2>2 DEF CallOk
<1>5. call' = [call EXCEPT ![c] = r]
  BY <1>1
<1>6. lease = c
  BY DEF Inv, CallsInv, HolderInv, Running, Destructive
<1>7. CallsInv /\ ident' \in Nat
  BY DEF Inv, CallsInv
<1> QED
  BY <1>4, <1>5, <1>6, <1>7, CallMoves

-----------------------------------------------------------------------------
(* The steps *)

\* A request is refused, or takes a slot.
LEMMA RequestInv ==
  ASSUME Inv, NEW c \in Calls, NEW svc, Request(c, svc), scenario' = scenario
  PROVE  Inv'
<1>0. UNCHANGED <<lease, dev, jobs, latest, ident, issued, runs>>
  BY DEF Request
<1>1. PICK q \in scenario.asks, confirm \in BOOLEAN, token \in {NoToken} \cup {i.token : i \in issued} :
        LET answer == validate_confirmation_request(confirm, token, [caller |-> q.caller, ident |-> ident])
        IN  IF q.verb = "check"
            THEN /\ call' = [call EXCEPT ![c] = [Idle EXCEPT !.pc = "open", !.req = q]]
                 /\ UNCHANGED <<pending, reply>>
            ELSE /\ IF answer = "ok"
                    THEN /\ call' = [call EXCEPT ![c] = [Idle EXCEPT !.pc = "open", !.req = q,
                                       !.ident = ident, !.token = token]]
                         /\ UNCHANGED reply
                    ELSE Finish(c, "refused")
                 /\ pending' = AfterCheck(token, answer)
  BY DEF Request
<1>2. pending' \in {pending, Without(token)}
  BY <1>1 DEF AfterCheck
<1>3. Books'
  BY <1>0, <1>2, BooksShrink DEF Inv
<1>4. DeviceInv'
  BY <1>0, DeviceKept DEF Inv
<1>5. token \in Nat /\ ident \in Nat /\ CallsInv
  BY DEF Inv, Books, TokensInv, CallsInv, NoToken
<1>6. CASE call' = [call EXCEPT ![c] = Idle]
  BY <1>0, <1>3, <1>4, <1>5, <1>6, CallReturns DEF Inv
<1>7. ASSUME NEW r, r \in {[Idle EXCEPT !.pc = "open", !.req = q],
                          [Idle EXCEPT !.pc = "open", !.req = q, !.ident = ident, !.token = token]},
             call' = [call EXCEPT ![c] = r]
      PROVE  CallsInv'
  <2>1. Idle \in CallRecord
    BY IdleOk DEF CallOk
  <2>2. r \in CallRecord /\ r.pc = "open" /\ r.req = q
    BY <1>5, <1>7, <2>1 DEF CallRecord
  <2>3. CallOk(r)
    BY <2>2 DEF CallOk, Destructive
  <2> QED
    BY <1>0, <1>5, <1>7, <2>2, <2>3, CallMoves DEF Destructive
<1> QED
  BY <1>1, <1>3, <1>4, <1>6, <1>7 DEF Inv, Finish, Respond

\* The session is open: a confirmed call looks at its token again and takes the lease.
LEMMA OpenInv ==
  ASSUME Inv, NEW c \in Calls, OpenDevice(c), scenario' = scenario
  PROVE  Inv'
<1>0. call[c].pc = "open" /\ UNCHANGED <<dev, jobs, latest, ident, issued, runs>>
  BY DEF OpenDevice
<1>1. pending' \in {pending, Without(call[c].token)}
  BY DEF OpenDevice, acquire_lease, AfterCheck
<1>2. Books' /\ DeviceInv'
  BY <1>0, <1>1, BooksShrink, DeviceKept DEF Inv
<1>3. CallsInv /\ ident' \in Nat /\ CallOk(call[c])
  BY <1>0 DEF Inv, CallsInv
<1>4. CASE call' = [call EXCEPT ![c] = Idle] /\ lease' = lease
  BY <1>0, <1>2, <1>3, <1>4, CallReturns DEF Inv
<1>5. CASE /\ call' = [call EXCEPT ![c].pc = "preflight"]
           /\ \/ call[c].token = NoToken /\ lease' = lease
              \/ lease = NoCall /\ lease' = c
  <2>1. PICK r : r = [call[c] EXCEPT !.pc = "preflight"]
    OBVIOUS
  <2>2. r \in CallRecord /\ r.pc = "preflight" /\ r.req = call[c].req /\ r.token = call[c].token
    BY <1>3, <2>1 DEF CallOk, CallRecord
  <2>3. CallOk(r)
    BY <1>0, <1>3, <2>2 DEF CallOk, Destructive
  <2>4. call' = [call EXCEPT ![c] = r]
    BY <1>5, <2>1
  <2>5. \A d \in Calls : d # c /\ lease = d => lease' = d
    BY <1>5, SignatureAssumption
  <2>6. r.pc \in Destructive \/ (r.pc = "preflight" /\ r.token # NoToken) => lease' = c
    BY <1>5, <2>2 DEF Destructive
  <2>7. CallsInv'
    BY <1>0, <1>3, <2>3, <2>4, <2>5, <2>6, CallMoves
  <2> QED
    BY <1>2, <2>7 DEF Inv
<1> QED
  BY <1>4, <1>5 DEF OpenDevice, acquire_lease, Finish, Respond, Goto

\* The end of the pre-flight: a check answers, call 1 shows its plan, call 2 spends its
\* token on the plan it finds.
LEMMA PreflightInv ==
  ASSUME Inv, NEW c \in Calls, NEW svc, NEW verbs, Preflight(c, svc, verbs), scenario' = scenario
  PROVE  Inv'
<1>0. call[c].pc = "preflight" /\ UNCHANGED <<dev, jobs, latest, ident>>
  BY DEF Preflight
<1>1. CallsInv /\ Books /\ DeviceInv /\ ident' \in Nat /\ CallOk(call[c]) /\ call[c].req \in scenario.asks
  BY <1>0 DEF Inv, CallsInv, CallOk
<1>2. DeviceInv'
  BY <1>0, <1>1, DeviceKept
<1>3. ASSUME PreflightFails(c) \/ \E said : CheckServer(c, said)
      PROVE  Inv'
  <2>1. /\ UNCHANGED <<pending, issued, runs>> /\ call' = [call EXCEPT ![c] = Idle]
        /\ lease' = lease \/ Free(c)
    BY <1>3 DEF PreflightFails, CheckServer, Finish, Respond
  <2>2. Books' /\ CallsInv'
    BY <1>1, <2>1, BooksKept, CallReturns
  <2> QED
    BY <1>2, <2>2 DEF Inv
<1>4. ASSUME NEW said, Preview(c, said)
      PROVE  Inv'
  <2>1. Books' /\ issued \subseteq issued'
    BY <1>1, <1>4, BooksPreview
  <2>2. call' = [call EXCEPT ![c] = Idle] /\ lease' = lease
    BY <1>4 DEF Preview, Finish, Respond
  <2>3. CallsInv'
    BY <1>1, <2>1, <2>2, CallReturns
  <2> QED
    BY <1>2, <2>1, <2>3 DEF Inv
<1>5. ASSUME NEW said \in scenario.replies,
             call[c].req.verb # "check" /\ call[c].token # NoToken /\ Confirm(c, said)
      PROVE  Inv'
  <2> DEFINE req == call[c].req
             plan == PlanFor(req, said)
  <2>0. req.verb \in {"install", "rollback", "uninstall"}
    BY <1>1, <1>5, SignatureAssumption DEF CallsInv
  <2>1. /\ Books' /\ issued' = issued
        /\ \/ call' = [call EXCEPT ![c] = Idle] /\ Free(c)
           \/ /\ plan.kind = "plan" /\ lease' = lease
              /\ call' = [Goto(c, "start") EXCEPT ![c].plan = plan, ![c].kind = FirstKind(plan.verb),
                            ![c].audit = "preflight_passed"]
              /\ \E i \in issued : i.token = call[c].token /\ i.plan = plan
    BY <1>1, <1>5, <2>0, BooksConfirm
  <2>2. CASE call' = [call EXCEPT ![c] = Idle] /\ Free(c)
    BY <1>1, <1>2, <2>1, <2>2, CallReturns DEF Inv
  <2>3. CASE /\ plan.kind = "plan" /\ lease' = lease
             /\ call' = [Goto(c, "start") EXCEPT ![c].plan = plan, ![c].kind = FirstKind(plan.verb),
                           ![c].audit = "preflight_passed"]
             /\ \E i \in issued : i.token = call[c].token /\ i.plan = plan
    <3>1. /\ plan.verb = req.verb
          /\ req.verb = "uninstall" => req.svc = "appid"
          /\ req.verb # "uninstall" => plan.target.lead # 0
      BY <1>1, <1>5, <2>3, PlanFacts DEF CallsInv
    <3>2. FirstKind(plan.verb) \in JobKinds
      BY <2>0, <3>1 DEF FirstKind, JobKinds
    <3>3. PICK r : r = [call[c] EXCEPT !.pc = "start", !.plan = plan, !.kind = FirstKind(plan.verb),
                                       !.audit = "preflight_passed"]
      OBVIOUS
    <3> HIDE DEF plan
    <3>4. /\ r \in CallRecord /\ r.pc = "start" /\ r.req = req /\ r.token = call[c].token /\ r.plan = plan
      BY <1>1, <2>3, <3>2, <3>3 DEF CallOk, CallRecord, Audits
    <3>5. PlanOk(r)
      BY <2>3, <3>1, <3>4 DEF PlanOk
    <3>6. CallOk(r)
      BY <1>1, <3>4, <3>5 DEF CallOk
    <3>7. call' = [call EXCEPT ![c] = r]
      BY <2>3, <3>3, <1>1 DEF Goto, CallsInv
    <3>8. lease' = c
      BY <1>0, <1>1, <1>5, <2>3 DEF CallsInv, HolderInv, Running
    <3>9. CallsInv'
      BY <1>0, <1>1, <2>1, <2>3, <3>6, <3>7, <3>8, CallMoves
    <3> QED
      BY <1>2, <2>1, <3>9 DEF Inv
  <2> QED
    BY <2>1, <2>2, <2>3
<1> QED
  BY <1>3, <1>4, <1>5 DEF Preflight

\* One RPC of a pipeline is sent.
LEMMA FireInv ==
  ASSUME Inv, NEW c \in Calls, NEW svc \in Services, NEW kind \in JobKinds,
         kind = "uninstall" => svc = "appid",
         call[c].pc = "start", scenario' = scenario,
         UNCHANGED <<pending, latest, ident, issued, runs>>,
         UNCHANGED <<dev, jobs>> \/ DeviceAccepts(c, svc, kind),
         \/ call' = [call EXCEPT ![c] = Idle] /\ Free(c)
         \/ call' = Goto(c, "poll") /\ lease' = lease
         \/ call' = [audit_phase(c, "install_complete") EXCEPT ![c].pc = "verify"] /\ lease' = lease
  PROVE  Inv'
<1>1. CallsInv /\ Books /\ DeviceInv /\ ident' \in Nat /\ call[c] \in CallRecord /\ CallOk(call[c])
  BY DEF Inv, CallsInv, CallOk
<1>2. Books'
  BY <1>1, BooksKept
<1>3. call[c].token \in Nat /\ DOMAIN call = Calls
  BY <1>1 DEF CallRecord, CallsInv
<1>4. DeviceInv'
  BY <1>1, <1>3, DeviceTakes, DeviceKept
<1>5. CASE call' = [call EXCEPT ![c] = Idle] /\ Free(c)
  BY <1>1, <1>2, <1>4, <1>5, CallReturns DEF Inv
<1>6. ASSUME NEW r, r.pc \in {"poll", "verify"}, r.req = call[c].req, r.token = call[c].token,
             r.plan = call[c].plan, r \in CallRecord, call' = [call EXCEPT ![c] = r], lease' = lease
      PROVE  CallsInv'
  <2>1. PlanOk(call[c]) /\ call[c].req \in scenario.asks
    BY <1>1 DEF CallOk, Destructive
  <2>2. CallOk(r)
    BY <1>6, <2>1 DEF CallOk, PlanOk
  <2>3. lease = c
    BY <1>1 DEF CallsInv, HolderInv, Running
  <2> QED
    BY <1>1, <1>6, <2>2, <2>3, CallMoves
<1>7. CASE call' = Goto(c, "poll") /\ lease' = lease
  <2>1. PICK r : r = [call[c] EXCEPT !.pc = "poll"]
    OBVIOUS
  <2>2. /\ r \in CallRecord /\ r.pc = "poll" /\ r.req = call[c].req /\ r.token = call[c].token
        /\ r.plan = call[c].plan
    BY <1>1, <2>1 DEF CallRecord
  <2>3. call' = [call EXCEPT ![c] = r]
    BY <1>7, <2>1 DEF Goto
  <2> QED
    BY <1>2, <1>4, <1>6, <1>7, <2>2, <2>3 DEF Inv
<1>8. CASE call' = [audit_phase(c, "install_complete") EXCEPT ![c].pc = "verify"] /\ lease' = lease
  <2>1. PICK r : r = [call[c] EXCEPT !.audit = "install_complete", !.pc = "verify"]
    OBVIOUS
  <2>2. /\ r \in CallRecord /\ r.pc = "verify" /\ r.req = call[c].req /\ r.token = call[c].token
        /\ r.plan = call[c].plan
    BY <1>1, <2>1 DEF CallRecord, Audits
  <2>3. call' = [call EXCEPT ![c] = r]
    BY <1>3, <1>8, <2>1 DEF audit_phase
  <2> QED
    BY <1>2, <1>4, <1>6, <1>8, <2>2, <2>3 DEF Inv
<1> QED
  BY <1>5, <1>7, <1>8

\* The five RPCs that are polled, and the rollback.
LEMMA RpcInv ==
  ASSUME Inv, NEW c \in Calls, scenario' = scenario,
         \/ download_and_poll(c) \/ install_and_poll(c) \/ appid_download_and_poll(c)
         \/ appid_install_and_poll(c) \/ uninstall_rpc(c) \/ rollback_rpc(c)
  PROVE  Inv'
<1>0. "idp" \in Services /\ "appid" \in Services /\ \A k \in {"download", "install", "rollback", "uninstall"} : k \in JobKinds
  BY DEF Services, JobKinds
<1>1. CASE download_and_poll(c)
  <2>1. /\ call[c].pc = "start" /\ UNCHANGED <<pending, latest, ident, issued, runs>>
        /\ UNCHANGED <<dev, jobs>> \/ DeviceAccepts(c, "idp", "download")
        /\ \/ call' = [call EXCEPT ![c] = Idle] /\ Free(c)
           \/ call' = Goto(c, "poll") /\ lease' = lease
    BY <1>1 DEF download_and_poll, Fire, FailAudited, Finish, Respond
  <2> QED
    BY <1>0, <2>1, FireInv
<1>2. CASE install_and_poll(c)
  <2>1. /\ call[c].pc = "start" /\ UNCHANGED <<pending, latest, ident, issued, runs>>
        /\ UNCHANGED <<dev, jobs>> \/ DeviceAccepts(c, "idp", "install")
        /\ \/ call' = [call EXCEPT ![c] = Idle] /\ Free(c)
           \/ call' = Goto(c, "poll") /\ lease' = lease
    BY <1>2 DEF install_and_poll, Fire, FailAudited, Finish, Respond
  <2> QED
    BY <1>0, <2>1, FireInv
<1>3. CASE appid_download_and_poll(c)
  <2>1. /\ call[c].pc = "start" /\ UNCHANGED <<pending, latest, ident, issued, runs>>
        /\ UNCHANGED <<dev, jobs>> \/ DeviceAccepts(c, "appid", "download")
        /\ \/ call' = [call EXCEPT ![c] = Idle] /\ Free(c)
           \/ call' = Goto(c, "poll") /\ lease' = lease
    BY <1>3 DEF appid_download_and_poll, Fire, FailAudited, Finish, Respond
  <2> QED
    BY <1>0, <2>1, FireInv
<1>4. CASE appid_install_and_poll(c)
  <2>1. /\ call[c].pc = "start" /\ UNCHANGED <<pending, latest, ident, issued, runs>>
        /\ UNCHANGED <<dev, jobs>> \/ DeviceAccepts(c, "appid", "install")
        /\ \/ call' = [call EXCEPT ![c] = Idle] /\ Free(c)
           \/ call' = Goto(c, "poll") /\ lease' = lease
    BY <1>4 DEF appid_install_and_poll, Fire, FailAudited, Finish, Respond
  <2> QED
    BY <1>0, <2>1, FireInv
<1>5. CASE uninstall_rpc(c)
  <2>1. /\ call[c].pc = "start" /\ UNCHANGED <<pending, latest, ident, issued, runs>>
        /\ UNCHANGED <<dev, jobs>> \/ DeviceAccepts(c, "appid", "uninstall")
        /\ \/ call' = [call EXCEPT ![c] = Idle] /\ Free(c)
           \/ call' = Goto(c, "poll") /\ lease' = lease
    BY <1>5 DEF uninstall_rpc, Fire, FailAudited, Finish, Respond
  <2> QED
    BY <1>0, <2>1, FireInv
<1>6. CASE rollback_rpc(c)
  <2>1. /\ call[c].pc = "start" /\ UNCHANGED <<pending, latest, ident, issued, runs>>
        /\ UNCHANGED <<dev, jobs>> \/ DeviceAccepts(c, "idp", "rollback")
        /\ \/ call' = [call EXCEPT ![c] = Idle] /\ Free(c)
           \/ call' = [audit_phase(c, "install_complete") EXCEPT ![c].pc = "verify"] /\ lease' = lease
    BY <1>6 DEF rollback_rpc, FailAudited, Finish, Respond
  <2> QED
    BY <1>0, <2>1, FireInv
<1> QED
  BY <1>1, <1>2, <1>3, <1>4, <1>5, <1>6

\* A probe says done and the pipeline goes on, or the polling is given up; the verdict.
LEMMA PollInv ==
  ASSUME Inv, NEW c \in Calls, NEW svc, PollStatus(c, svc) \/ Verify(c), scenario' = scenario
  PROVE  Inv'
<1>1. /\ CallsInv /\ Books /\ DeviceInv /\ ident' \in Nat
      /\ call[c].pc \in {"poll", "verify"} /\ UNCHANGED <<pending, dev, jobs, latest, ident, issued, runs>>
  BY DEF Inv, CallsInv, PollStatus, Verify
<1>2. Books' /\ DeviceInv'
  BY <1>1, BooksKept, DeviceKept
<1>3. CASE call' = [call EXCEPT ![c] = Idle] /\ Free(c)
  BY <1>1, <1>2, <1>3, CallReturns DEF Inv
<1>4. CASE call' = AfterPoll(c) /\ lease' = lease /\ call[c].pc = "poll"
  <2>1. /\ DOMAIN call = Calls /\ call[c] \in CallRecord /\ call[c].kind \in JobKinds \cup {"-"}
    BY <1>1 DEF CallsInv, CallOk, CallRecord
  <2>2. \/ call' = [call EXCEPT ![c].audit = "download_complete", ![c].pc = "start", ![c].kind = "install"]
        \/ call' = [call EXCEPT ![c].audit = "install_complete", ![c].pc = "verify"]
    BY <1>4, <2>1 DEF AfterPoll, run_uninstall_destructive, run_destructive, run_install_destructive,
                      audit_phase
  <2>3. PICK r : \/ r = [call[c] EXCEPT !.audit = "download_complete", !.pc = "start", !.kind = "install"]
                    /\ call' = [call EXCEPT ![c] = r]
                 \/ r = [call[c] EXCEPT !.audit = "install_complete", !.pc = "verify"]
                    /\ call' = [call EXCEPT ![c] = r]
    BY <2>1, <2>2
  <2>4. /\ r \in CallRecord /\ r.pc \in {"start", "verify"} /\ r.req = call[c].req
        /\ r.token = call[c].token /\ r.plan = call[c].plan
    BY <2>1, <2>3 DEF CallRecord, Audits, JobKinds
  <2>5. CallOk(call[c]) /\ PlanOk(call[c]) /\ call[c].req \in scenario.asks
    BY <1>1, <1>4 DEF CallsInv, CallOk, Destructive
  <2>6. CallOk(r)
    BY <2>4, <2>5 DEF CallOk, PlanOk
  <2>7. lease = c
    BY <1>1, <1>4 DEF CallsInv, HolderInv, Running
  <2>8. call' = [call EXCEPT ![c] = r]
    BY <2>3
  <2>9. CallsInv'
    BY <1>1, <1>4, <2>6, <2>7, <2>8, CallMoves
  <2> QED
    BY <1>2, <2>9 DEF Inv
<1> QED
  BY <1>3, <1>4 DEF PollStatus, PollFailed, convert_poll_failure, appid_convert_poll_failure, Verify,
                    FailAudited, Finish, Respond

\* The crash: tokens, calls and the lease are gone, what was shown and run is history.
LEMMA CrashInv ==
  ASSUME Inv, Crash, scenario' = scenario
  PROVE  Inv'
<1>1. /\ pending' = [t \in {} |-> None] /\ call' = [c \in Calls |-> Idle]
      /\ UNCHANGED <<dev, jobs, latest, ident, issued, runs>>
  BY DEF Crash
<1>2. Books'
  BY <1>1 DEF Inv, Books, TokensInv, StoreInv, RunsWerePreviewed
<1>3. DeviceInv'
  BY <1>1, DeviceKept DEF Inv
<1>4. PICK r : r = Idle
  OBVIOUS
<1>5. CallOk(r) /\ r.pc = "idle"
  BY <1>4, IdleOk
<1>6. CallOk(r)'
  BY <1>1, <1>5, CallOkGrows
<1>7. \A c \in Calls : call'[c] = r
  BY <1>1, <1>4
<1>8. CallsInv'
  BY <1>1, <1>5, <1>6, <1>7 DEF CallsInv, Inv, HolderInv, Running
<1> QED
  BY <1>2, <1>3, <1>8 DEF Inv

\* The device, the clock, the signature server and the inventory.
LEMMA WorldInv ==
  ASSUME Inv, scenario' = scenario,
         \/ \E j \in jobs : DeviceEnds(j)
         \/ \E t \in Live : ExpireToken(t)
         \/ Publish \/ ReIdentify \/ UNCHANGED sigVars
  PROVE  Inv'
<1>1. UNCHANGED <<call, lease, issued, runs>> /\ ident' \in Nat
  <2>1. ident \in Nat
    BY DEF Inv, CallsInv
  <2> QED
    BY <2>1 DEF DeviceEnds, ExpireToken, Publish, ReIdentify, sigVars
<1>2. CallsInv'
  <2>1. \A q : CallOk(q) => CallOk(q)'
    BY <1>1, CallOkGrows
  <2>2. \A c \in Calls : CallOk(call[c]) /\ call'[c] = call[c]
    BY <1>1 DEF Inv, CallsInv
  <2>3. \A c \in Calls : CallOk(call[c])'
    BY <2>1, <2>2
  <2> QED
    BY <1>1, <2>3 DEF Inv, CallsInv, HolderInv, Running
<1>3. Books'
  <2>1. ASSUME NEW t \in Live, ExpireToken(t) PROVE Books'
    BY <2>1, BooksExpire DEF Inv
  <2>2. CASE pending' = pending
    BY <1>1, <2>2, BooksKept DEF Inv
  <2> QED
    BY <2>1, <2>2 DEF DeviceEnds, Publish, ReIdentify, sigVars
<1>4. DeviceInv'
  <2>1. ASSUME NEW j \in jobs, DeviceEnds(j) PROVE DeviceInv'
    BY <2>1, DeviceFinishes DEF Inv
  <2>2. CASE Publish
    BY <2>2 DEF Publish, Inv, DeviceInv
  <2>3. CASE UNCHANGED <<dev, jobs, latest>>
    BY <2>3, DeviceKept DEF Inv
  <2> QED
    BY <2>1, <2>2, <2>3 DEF ExpireToken, ReIdentify, sigVars
<1> QED
  BY <1>2, <1>3, <1>4 DEF Inv

-----------------------------------------------------------------------------
(* Theorems *)

\* Every state the workflows reach keeps the store and its history in step, gives the
\* lease to whoever works on the device, and has every destructive call on a plan that
\* was shown.  (The inductive invariant behind the next three.)
THEOREM SignaturesAreConsistent == Spec => []Inv
<1>1. Init => Inv
  <2> SUFFICES ASSUME Init PROVE Inv
    OBVIOUS
  <2>1. /\ pending = [t \in {} |-> None] /\ issued = {} /\ runs = {} /\ jobs = {}
        /\ call = [c \in Calls |-> Idle] /\ scenario \in Scenarios /\ latest = scenario.latest
        /\ ident = 0
    BY DEF Init
  <2>2. Books
    BY <2>1, FS_EmptySet DEF Books, TokensInv, StoreInv, RunsWerePreviewed
  <2>3. CallsInv
    <3>1. \A c \in Calls : call[c] = Idle
      BY <2>1
    <3>2. \A c \in Calls : CallOk(call[c]) /\ call[c].pc = "idle"
      BY <3>1, IdleOk
    <3> QED
      BY <2>1, <3>2 DEF CallsInv, HolderInv, Running
  <2>4. DeviceInv
    <3>1. latest \in Nat \ {0}
      BY <2>1, SignatureAssumption
    <3>2. PICK back \in {NotAvailable, [lead |-> MaxVersion, tail |-> TRUE]} :
            dev = [svc \in Services |->
                     IF svc = "idp" THEN InitialDevice([lead |-> 1, tail |-> TRUE], back)
                     ELSE InitialDevice([lead |-> 1, tail |-> FALSE], NotAvailable)]
      BY DEF Init
    <3>3. back \in Text /\ back.tail = TRUE /\ NotAvailable \in Text
      <4>1. NotAvailable \in Text /\ NotAvailable.tail = TRUE
        BY DEF Text, NotAvailable
      <4>2. CASE back = NotAvailable
        BY <4>1, <4>2
      <4>3. CASE back = [lead |-> MaxVersion, tail |-> TRUE]
        BY <4>1, <4>3, SignatureAssumption DEF Text
      <4> QED
        BY <4>2, <4>3
    <3>4. ASSUME NEW pkg \in Text, NEW bak \in Text
          PROVE  /\ InitialDevice(pkg, bak) \in Package
                 /\ \A n \in Nodes : InitialDevice(pkg, bak).pkg[n] = pkg /\ InitialDevice(pkg, bak).back[n] = bak
      BY DEF InitialDevice, Package, JobKinds
    <3> DEFINE one == [lead |-> 1, tail |-> TRUE]
               plain == [lead |-> 1, tail |-> FALSE]
    <3>5. one \in Text /\ plain \in Text /\ one.tail = TRUE
      BY DEF Text
    <3> HIDE DEF one, plain
    <3>6. dev = [svc \in Services |-> IF svc = "idp" THEN InitialDevice(one, back)
                                      ELSE InitialDevice(plain, NotAvailable)]
      BY <3>2 DEF one, plain
    <3>7. dev \in [Services -> Package] /\ dev["idp"] = InitialDevice(one, back)
      BY <3>3, <3>4, <3>5, <3>6 DEF Services
    <3>8. \A n \in Nodes : dev["idp"].pkg[n].tail = TRUE /\ dev["idp"].back[n].tail = TRUE
      BY <3>3, <3>4, <3>5, <3>7
    <3> QED
      BY <2>1, <3>1, <3>7, <3>8 DEF DeviceInv
  <2> QED
    BY <2>2, <2>3, <2>4 DEF Inv
<1>2. Inv /\ [Next /\ UNCHANGED scenario]_sigVars => Inv'
  <2> SUFFICES ASSUME Inv, [Next /\ UNCHANGED scenario]_sigVars PROVE Inv'
    OBVIOUS
  <2>0. scenario' = scenario
    BY DEF sigVars
  <2>1. ASSUME NEW c \in Calls,
               manage_idp_security_package(c) \/ manage_appid_signature_package(c) \/ CallStep(c)
        PROVE  Inv'
    <3>1. CASE manage_idp_security_package(c) \/ manage_appid_signature_package(c)
      BY <2>0, <3>1, RequestInv DEF manage_idp_security_package, manage_appid_signature_package
    <3>2. CASE OpenDevice(c)
      BY <2>0, <3>2, OpenInv
    <3>3. CASE preflight(c) \/ appid_preflight(c) \/ preflight_rollback(c) \/ preflight_uninstall(c)
      BY <2>0, <3>3, PreflightInv DEF preflight, appid_preflight, preflight_rollback, preflight_uninstall
    <3>4. CASE \/ download_and_poll(c) \/ install_and_poll(c) \/ appid_download_and_poll(c)
               \/ appid_install_and_poll(c) \/ uninstall_rpc(c) \/ rollback_rpc(c)
      BY <2>0, <3>4, RpcInv
    <3>5. CASE poll_status(c) \/ appid_poll_status(c) \/ Verify(c)
      BY <2>0, <3>5, PollInv DEF poll_status, appid_poll_status
    <3> QED
      BY <2>1, <3>1, <3>2, <3>3, <3>4, <3>5 DEF CallStep
  <2>2. CASE Crash
    BY <2>0, <2>2, CrashInv
  <2>3. CASE \/ \E j \in jobs : DeviceEnds(j)
             \/ \E t \in Live : ExpireToken(t)
             \/ Publish \/ ReIdentify \/ UNCHANGED sigVars
    BY <2>0, <2>3, WorldInv
  <2> QED
    BY <2>1, <2>2, <2>3 DEF Next
<1> QED
  BY <1>1, <1>2, PTL DEF Spec

\* For any number of callers, calls, tokens and reloads, a destructive run of
\* run_destructive and its AppID counterpart was previewed to its caller, and its token
\* is spent for good.
THEOREM RunsArePreviewed == Spec => []RunsWerePreviewed
<1>1. Inv => RunsWerePreviewed
  BY DEF Inv, Books
<1> QED
  BY <1>1, SignaturesAreConsistent, PTL

\* The device lease keeps all but one call from working on the device.
THEOREM HoldersInstall == Spec => OnlyTheHolderInstalls
<1>1. Inv => \A c, d \in Calls : Running(c) /\ d # c => ~Running(d)
  BY DEF Inv, CallsInv, HolderInv
<1>2. Inv /\ [Next /\ UNCHANGED scenario]_sigVars =>
        [\A j \in jobs \ jobs', c, d \in Calls :
           (Running(c) /\ d # c /\ call[d].token = j.token) => ~Running(d)]_sigVars
  BY <1>1
<1> QED
  BY <1>2, SignaturesAreConsistent, PTL DEF Spec, OnlyTheHolderInstalls

-----------------------------------------------------------------------------
(* The verdict *)

\* A text the device keeps is a version, or the text of an absent package when its
\* number is zero.
LEMMA TextRead ==
  ASSUME DeviceInv, NEW svc \in Services, NEW said, said.told \subseteq Nodes,
         NEW n \in said.told, n \notin said.unsaid
  PROVE  LET cur == NodesOf(svc, said)[n].cur
         IN  /\ cur = None <=> dev[svc].pkg[n].lead = 0
             /\ cur # None => cur = dev[svc].pkg[n]
             /\ svc = "appid" => (cur = None <=> dev[svc].pkg[n] \in {NotAvailable, Zero})
<1> DEFINE raw == dev[svc].pkg[n]
<1>0. n \in Nodes
  OBVIOUS
<1>1. raw \in Text /\ (svc = "idp" => raw.tail = TRUE)
  BY <1>0 DEF DeviceInv, Package
<1>2. DOMAIN raw = {"lead", "tail"} /\ DOMAIN None = {"absent"}
  BY <1>1 DEF Text, None
<1>3. raw # None
  BY <1>2
<1>4. NodesOf(svc, said)[n].cur = Normalize(svc, raw)
  BY DEF NodesOf, parse_package_information, parse_package_version, Element, Services
<1>5. CASE svc = "idp"
  <2>1. raw = NotAvailable <=> raw.lead = 0
    <3>1. raw = [lead |-> raw.lead, tail |-> raw.tail] /\ raw.tail = TRUE
      BY <1>1, <1>5 DEF Text
    <3>2. raw.lead = 0 => raw = NotAvailable
      BY <3>1, Zenon DEF NotAvailable
    <3> QED
      BY <3>2 DEF NotAvailable
  <2> QED
    BY <1>3, <1>4, <1>5, <2>1 DEF Normalize, normalize_version_text
<1>6. CASE svc = "appid"
  <2>1. raw \in {NotAvailable, Zero} <=> raw.lead = 0
    BY <1>1 DEF Text, NotAvailable, Zero
  <2> QED
    BY <1>3, <1>4, <1>6, <2>1 DEF Normalize, appid_normalize_version_text
<1> QED
  BY <1>5, <1>6 DEF Services

\* A node listed without a version has none.
LEMMA TextUnsaid ==
  ASSUME NEW svc \in Services, NEW said, NEW n \in said.told, n \in said.unsaid
  PROVE  NodesOf(svc, said)[n].cur = None
BY DEF NodesOf, parse_package_information, parse_package_version, Element, Services, Normalize,
       normalize_version_text, appid_normalize_version_text

\* What the code reads back is what the device runs: the check succeeds exactly when
\* every node the reply tells of is where the plan said it would be.
LEMMA VerifiedIsAtPlan ==
  ASSUME Inv, NEW c \in Calls, call[c].pc = "verify", NEW said \in scenario.replies
  PROVE  Verified(c, said) <=> AtPlan(call[c].plan, dev[call[c].req.svc], said)
<1> DEFINE svc == call[c].req.svc
           plan == call[c].plan
           nodes == NodesOf(svc, said)
<1>1. DeviceInv /\ PlanOk(call[c]) /\ call[c].req \in scenario.asks /\ scenario \in Scenarios
  BY DEF Inv, CallsInv, CallOk, Destructive
<1>2. svc \in Services
  BY <1>1, SignatureAssumption DEF Services
<1>5. DOMAIN nodes = said.told /\ said.told \subseteq Nodes /\ said.unsaid \subseteq said.told
  BY <1>1, <1>2, SaidFacts DEF NodesOf, parse_package_information, parse_package_version, Services
<1>6. \A n \in said.unsaid : nodes[n].cur = None
  BY <1>2, <1>5, TextUnsaid
<1>7. \A n \in said.told \ said.unsaid :
        /\ nodes[n].cur = None <=> dev[svc].pkg[n].lead = 0
        /\ nodes[n].cur # None => nodes[n].cur = dev[svc].pkg[n]
        /\ svc = "appid" => (nodes[n].cur = None <=> dev[svc].pkg[n] \in {NotAvailable, Zero})
  BY <1>1, <1>2, <1>5, TextRead
<1>3. CASE plan.verb = "uninstall"
  <2>1. svc = "appid"
    BY <1>1, <1>3 DEF PlanOk
  <2> DEFINE texts == [n \in DOMAIN nodes |-> nodes[n].cur]
  <2>2. Verified(c, said) <=> FirstOf(texts) = None
    BY <1>3, <2>1 DEF Verified, verify_uninstalled, Current
  <2> HIDE DEF nodes
  <2>3. DOMAIN texts = said.told /\ \A n \in said.told : texts[n] = nodes[n].cur
    BY <1>5
  <2> HIDE DEF texts
  <2>4. FirstOf(texts) = None <=> \A n \in said.told : texts[n] = None
    <3>1. CASE FirstOf(texts) = None
      BY <1>5, <2>3, <3>1, FirstOfFacts
    <3>2. CASE FirstOf(texts) # None
      BY <1>5, <2>3, <3>2, FirstOfFacts
    <3> QED
      BY <3>1, <3>2
  <2>5. (\A n \in said.told : texts[n] = None)
          <=> \A n \in said.told \ said.unsaid : dev[svc].pkg[n] \in {NotAvailable, Zero}
    BY <1>5, <1>6, <1>7, <2>1, <2>3
  <2> QED
    BY <1>3, <2>2, <2>4, <2>5 DEF AtPlan
<1>4. CASE plan.verb # "uninstall"
  <2>1. plan.target.lead # 0
    BY <1>1, <1>4 DEF PlanOk
  <2>2. Verified(c, said) <=> \A n \in DOMAIN nodes : /\ nodes[n].cur # None
                                                      /\ nodes[n].cur.lead = plan.target.lead
    BY <1>2, <1>4 DEF Verified, verify_installed_version, appid_verify_installed_version,
                      leading_version_number, Services
  <2> HIDE DEF nodes
  <2>3. \A n \in said.told \ said.unsaid :
          (nodes[n].cur # None /\ nodes[n].cur.lead = plan.target.lead)
             <=> dev[svc].pkg[n].lead = plan.target.lead
    BY <1>7, <2>1
  <2> QED
    BY <1>4, <1>5, <1>6, <2>2, <2>3 DEF AtPlan
<1> QED
  BY <1>3, <1>4

\* A step of one call leaves the record of every other call alone.
LEMMA OthersKeepTheirCall ==
  ASSUME DOMAIN call = Calls, NEW c \in Calls, NEW d \in Calls, d # c,
         manage_idp_security_package(d) \/ manage_appid_signature_package(d) \/ CallStep(d)
  PROVE  call'[c] = call[c]
<1>2. CASE manage_idp_security_package(d) \/ manage_appid_signature_package(d)
  BY <1>2 DEF manage_idp_security_package, manage_appid_signature_package, Request, Finish, Respond
<1>3. CASE OpenDevice(d)
  BY <1>3 DEF OpenDevice, acquire_lease, Finish, Respond, Goto
<1>4. CASE preflight(d) \/ appid_preflight(d) \/ preflight_rollback(d) \/ preflight_uninstall(d)
  <2>1. \/ PreflightFails(d)
        \/ \E said \in scenario.replies : CheckServer(d, said) \/ Preview(d, said) \/ Confirm(d, said)
    BY <1>4 DEF preflight, appid_preflight, preflight_rollback, preflight_uninstall, Preflight
  <2>2. CASE PreflightFails(d) \/ \E said : CheckServer(d, said) \/ Preview(d, said)
    <3>1. call' = [call EXCEPT ![d] = Idle]
      BY <2>2 DEF PreflightFails, CheckServer, Preview, Finish, Respond
    <3> QED
      BY <3>1
  <2>3. CASE \E said : Confirm(d, said)
    BY <2>3 DEF Confirm, Finish, Respond, Goto
  <2> QED
    BY <2>1, <2>2, <2>3
<1>5. CASE \/ download_and_poll(d) \/ install_and_poll(d) \/ appid_download_and_poll(d)
           \/ appid_install_and_poll(d) \/ uninstall_rpc(d) \/ rollback_rpc(d)
  <2>1. \/ call' = [call EXCEPT ![d] = Idle]
        \/ call' = [call EXCEPT ![d].pc = "poll"]
        \/ call' = [audit_phase(d, "install_complete") EXCEPT ![d].pc = "verify"]
    BY <1>5 DEF download_and_poll, install_and_poll, appid_download_and_poll, appid_install_and_poll,
                uninstall_rpc, rollback_rpc, Fire, FailAudited, Finish, Respond, Goto
  <2> QED
    BY <2>1 DEF audit_phase
<1>6. CASE poll_status(d) \/ appid_poll_status(d)
  <2>1. \/ call' = [call EXCEPT ![d] = Idle]
        \/ call' = AfterPoll(d)
    BY <1>6 DEF poll_status, appid_poll_status, PollStatus, PollFailed, convert_poll_failure,
                appid_convert_poll_failure, FailAudited, Respond
  <2> QED
    BY <2>1 DEF AfterPoll, run_uninstall_destructive, run_destructive, run_install_destructive, audit_phase
<1>7. CASE Verify(d)
  <2>1. call' = [call EXCEPT ![d] = Idle]
    BY <1>7 DEF Verify, FailAudited, Finish, Respond
  <2> QED
    BY <2>1
<1> QED
  BY <1>2, <1>3, <1>4, <1>5, <1>6, <1>7 DEF CallStep

\* A call that is reading the versions back ends by giving its verdict, or with the
\* process.
LEMMA VerdictStep ==
  ASSUME Inv, NEW c \in Calls, call[c].pc = "verify", Next, call'[c].pc = "idle"
  PROVE  Verify(c) \/ reply' = NoReply
<1>1. CASE Crash
  BY <1>1 DEF Crash
<1>2. CASE \/ \E j \in jobs : DeviceEnds(j)
           \/ \E t \in Live : ExpireToken(t)
           \/ Publish \/ ReIdentify
  BY <1>2 DEF DeviceEnds, ExpireToken, Publish, ReIdentify
<1>3. ASSUME NEW d \in Calls,
             manage_idp_security_package(d) \/ manage_appid_signature_package(d) \/ CallStep(d)
      PROVE  Verify(c)
  <2>1. d = c
    BY <1>3, OthersKeepTheirCall DEF Inv, CallsInv
  <2> QED
    BY <1>3, <2>1 DEF manage_idp_security_package, manage_appid_signature_package, Request, CallStep,
         OpenDevice, preflight, appid_preflight, preflight_rollback, preflight_uninstall, Preflight,
         download_and_poll, install_and_poll, appid_download_and_poll, appid_install_and_poll,
         uninstall_rpc, rollback_rpc, Fire, poll_status, appid_poll_status, PollStatus
<1> QED
  BY <1>1, <1>2, <1>3 DEF Next

\* The verdict Verify gives agrees with the reply it rests on.
LEMMA VerdictIsTrue ==
  ASSUME Inv, NEW c \in Calls, Verify(c)
  PROVE  /\ reply'.res = "completed" => reply'.said \in scenario.replies /\ Verified(c, reply'.said)
         /\ reply'.res = "verification_failed" =>
              reply'.said \in scenario.replies /\ ~Verified(c, reply'.said)
<1>1. CASE \E said \in scenario.replies : Verified(c, said) /\ Respond(c, "completed", "verified", said)
  BY <1>1 DEF Respond
<1>2. CASE \E said \in scenario.replies :
             ~Verified(c, said) /\ Respond(c, "verification_failed", "failed", said)
  BY <1>2 DEF Respond
<1>3. CASE reply'.res = "failed"
  BY <1>3
<1> QED
  BY <1>1, <1>2, <1>3 DEF Verify, FailAudited, Finish, Respond

\* For any number of nodes, calls and versions, and whichever nodes a version reply lists,
\* "completed" and "verification_failed" are true of what the nodes run that the device
\* reported on when the verdict was given, measured against the plan of the preview whose
\* token the call spent (Verify, build_plan, ConfirmationStore::consume).
THEOREM VerdictsMatch == Spec => VerdictMatchesPreview
<1>1. ASSUME Inv, [Next /\ UNCHANGED scenario]_sigVars, NEW c \in Calls, NEW i \in issued,
             call[c].pc = "verify", i.token = call[c].token, call'[c].pc = "idle"
      PROVE  /\ reply'.res = "completed" =>
                  reply'.said.told # {} /\ AtPlan(i.plan, dev[call[c].req.svc], reply'.said)
             /\ reply'.res = "verification_failed" =>
                  ~AtPlan(i.plan, dev[call[c].req.svc], reply'.said)
  <2>1. Next
    BY <1>1 DEF sigVars
  <2>2. Verify(c) \/ reply' = NoReply
    BY <1>1, <2>1, VerdictStep
  <2>3. i.plan = call[c].plan /\ scenario \in Scenarios
    BY <1>1 DEF Inv, Books, TokensInv, CallsInv, CallOk, Destructive, PlanOk
  <2>4. \A said \in scenario.replies :
          said.told # {} /\ (Verified(c, said) <=> AtPlan(i.plan, dev[call[c].req.svc], said))
    BY <1>1, <2>3, VerifiedIsAtPlan, SaidFacts
  <2>5. CASE Verify(c)
    BY <1>1, <2>4, <2>5, VerdictIsTrue
  <2>6. CASE reply' = NoReply
    BY <2>6 DEF NoReply
  <2> QED
    BY <2>2, <2>5, <2>6
<1>2. Inv /\ [Next /\ UNCHANGED scenario]_sigVars =>
        [\A c \in Calls : \A i \in issued :
           (/\ call[c].pc = "verify" /\ i.token = call[c].token
            /\ call'[c].pc = "idle") =>
              /\ reply'.res = "completed" =>
                   reply'.said.told # {} /\ AtPlan(i.plan, dev[call[c].req.svc], reply'.said)
              /\ reply'.res = "verification_failed" =>
                   ~AtPlan(i.plan, dev[call[c].req.svc], reply'.said)]_sigVars
  BY <1>1
<1> QED
  BY <1>2, SignaturesAreConsistent, PTL DEF Spec, VerdictMatchesPreview
=============================================================================
