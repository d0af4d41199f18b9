------------------------ MODULE SupportBundle_proofs ------------------------
(***************************************************************************)
(* Theorems about SupportBundle, for any number of collections, routers    *)
(* and requests: a bundle made with redact holds no readable credential,   *)
(* its manifest is exact, and a collection leaves nothing behind.          *)
(***************************************************************************)
EXTENDS SupportBundle, FiniteSetTheorems, TLAPS

Rpcs == UNION {all_rpcs(q.types) : q \in Requests}
Logs == UNION {all_logs(q.types) : q \in Requests}
GenericPath == <<"", "request-support-information", "">>

Payloads == {"plain", "secret", "broken", "redacted", "fragment"}
Safe == {"plain", "redacted"}

\* What a file may hold with redact; only the size cap, which only logs have, cuts.
SafeAt(p) == IF p[1] = "logs" THEN Safe \cup {"fragment"} ELSE Safe
SafeFiles(q, files) == q.redact => \A p \in DOMAIN files : files[p] \in SafeAt(p)
SafeWords(manifest) ==
  \A a \in manifest : a.words = "secret" => a.path[1] = "logs" /\ a.error = "device"

Paths == {sanitize_rpc_filename(r) : r \in Rpcs} \cup {device_log_tarball_path(l) : l \in Logs}
            \cup {GenericPath}
FileMaps == UNION {[P -> Payloads] : P \in SUBSET Paths}
Artefacts ==
  [source : Rpcs \cup {<<l, "">> : l \in Logs} \cup {GenericPath}, path : Paths, bytes : BOOLEAN,
   sha256 : Payloads \cup {""}, error : {"", "skipped", "unsafe", "device", "truncated"},
   words : {"plain", "secret"}]
CollRecords ==
  [pc : {"new", "generic", "rpc", "finalize", "over"}, request : Requests \cup {NoOne},
   rpcs : SUBSET Rpcs, logs : SUBSET Logs, artefacts : SUBSET Artefacts, captured : Nat,
   redacted : BOOLEAN,
   result : {"", "ok", "failed", "cancelled", "invalid_input", "contention", "unprepared"},
   stuck : SUBSET {"scratch", "tarball"}]
ScratchRecords == [made : BOOLEAN, files : FileMaps]
Tarballs == [present : BOOLEAN, files : FileMaps, manifest : SUBSET Artefacts]

Written(manifest) == {a \in manifest : a.bytes}
LogEntries(manifest) == {a \in manifest : a.path[1] = "logs"}
WrittenLogs(manifest) == {a \in Written(manifest) : a.path[1] = "logs"}

\* A manifest and the files it speaks of; taken are the logs it has an entry for.
Books(q, manifest, files, taken) ==
  /\ DOMAIN files = {a.path : a \in Written(manifest)}
  /\ \A a, b \in manifest : a.path = b.path => a = b
  /\ \A a \in Written(manifest) : a.sha256 = files[a.path]
  /\ {a.source[1] : a \in LogEntries(manifest)} = taken
  /\ IsFiniteSet(WrittenLogs(manifest))
  /\ Cardinality(WrittenLogs(manifest)) <= q.max_log_files
  /\ SafeFiles(q, files) /\ SafeWords(manifest)

\* Some file was redacted.
AnyRedacted(files) == \E p \in DOMAIN files : files[p] = "redacted"

\* A collection under way: what is left to ask for has no entry yet.
Progress(k, files) ==
  /\ k.request \in Requests
  /\ k.logs \subseteq LogsOf(k.request)
  /\ Books(k.request, k.artefacts, files, LogsOf(k.request) \ k.logs)
  /\ k.redacted <=> AnyRedacted(files)
  /\ k.captured = Cardinality(WrittenLogs(k.artefacts))
  /\ \A a \in k.artefacts : \A r \in k.rpcs : a.path # sanitize_rpc_filename(r)
  /\ \A a \in k.artefacts : \A l \in k.logs : a.path # device_log_tarball_path(l)
  /\ k.pc = "generic" => k.artefacts = {} /\ files = NoFiles
  /\ k.pc # "rpc" => k.logs = {}

UnderWay == {"generic", "rpc", "finalize"}
Clean == [made |-> FALSE, files |-> NoFiles]

\* One collection: its record, its scratch directory and its tarball.
CollOk(k, s, t) ==
  /\ k.pc = "new" => s = Clean /\ k.stuck = {}
  /\ k.pc # "over" => t = NoTarball /\ k.result # "ok"
  /\ k.pc \in UnderWay => Progress(k, s.files)
  /\ k.pc = "over" =>
       /\ "scratch" \notin k.stuck => s = Clean
       /\ SafeFiles(k.request, s.files) /\ SafeFiles(k.request, t.files) /\ SafeWords(t.manifest)
       /\ t.present <=> (k.result = "ok" \/ "tarball" \in k.stuck)
       /\ k.result = "ok" => /\ k.request \in Requests
                             /\ Books(k.request, t.manifest, t.files, LogsOf(k.request))
                             /\ k.redacted <=> AnyRedacted(t.files)

TypeInv ==
  /\ coll \in [Collections -> CollRecords]
  /\ scratch \in [Collections -> ScratchRecords]
  /\ staged \in [Collections -> Tarballs]
  /\ permit \in [Routers -> Collections \cup {NoOne}]

\* A permit is held by the collection under way on its router, and by no other.
PermitInv ==
  /\ \A c \in Collections : coll[c].pc \in UnderWay => permit[coll[c].request.router] = c
  /\ \A r \in Routers : permit[r] # NoOne =>
       coll[permit[r]].pc \in UnderWay /\ coll[permit[r]].request.router = r

Inv == TypeInv /\ PermitInv /\ \A c \in Collections : CollOk(coll[c], scratch[c], staged[c])

-----------------------------------------------------------------------------
(* Files and manifests *)

\* A pair is made of its two parts.
LEMMA PairIsPair ==
  ASSUME NEW S, NEW T, NEW v \in S \X T
  PROVE  v = <<v[1], v[2]>>
OBVIOUS

\* An RPC is a name and an argument.
LEMMA RpcsArePairs ==
  ASSUME NEW r \in Rpcs, NEW u \in Rpcs, r[1] = u[1], r[2] = u[2]
  PROVE  r = u
<1>1. ASSUME NEW v \in Rpcs PROVE v = <<v[1], v[2]>>
  <2>1. PICK q \in Requests : v \in all_rpcs(q.types)
    BY <1>1 DEF Rpcs
  <2> DEFINE names == BASELINE_RPCS \cup UNION {additional_rpcs(pt) : pt \in q.types}
  <2>2. CASE v \in names \X {""}
    <3> HIDE DEF names
    <3> QED
      BY <2>2, PairIsPair
  <2>3. CASE v \in UNION {additional_rpcs_with_args(pt) : pt \in q.types}
    <3>1. PICK pt \in q.types : v \in additional_rpcs_with_args(pt)
      BY <2>3
    <3>2. v = <<"get-flow-session-information", "<summary/>">>
      BY <3>1 DEF additional_rpcs_with_args
    <3> QED
      BY <3>2
  <2> QED
    BY <2>1, <2>2, <2>3 DEF all_rpcs
<1> QED
  BY <1>1

Put(files, path, payload) ==
  [p \in DOMAIN files \cup {path} |-> IF p = path THEN payload ELSE files[p]]

\* The other files stay as they are.
LEMMA PutValues ==
  \A files, path, payload :
    /\ DOMAIN Put(files, path, payload) = DOMAIN files \cup {path}
    /\ Put(files, path, payload)[path] = payload
    /\ \A p \in DOMAIN files : p # path => Put(files, path, payload)[p] = files[p]
BY DEF Put

\* One more file.
LEMMA PutFacts ==
  ASSUME NEW files \in FileMaps, NEW path \in Paths, NEW payload \in Payloads
  PROVE  Put(files, path, payload) \in FileMaps
<1>1. PICK P \in SUBSET Paths : files \in [P -> Payloads]
  BY DEF FileMaps
<1>2. Put(files, path, payload) \in [P \cup {path} -> Payloads]
  BY <1>1 DEF Put
<1>3. P \cup {path} \in SUBSET Paths
  BY <1>1
<1> QED
  BY <1>2, <1>3 DEF FileMaps

\* An artefact that was written joins the manifest and the files.
LEMMA BooksWritten ==
  ASSUME NEW q, NEW manifest \in SUBSET Artefacts, NEW files \in FileMaps,
         NEW taken, Books(q, manifest, files, taken),
         NEW a \in Artefacts, a.bytes, a.sha256 \in Payloads,
         \A b \in manifest : b.path # a.path,
         q.redact => a.sha256 \in SafeAt(a.path), a.words = "plain", q.max_log_files \in Nat,
         a.path[1] = "logs" => Cardinality(WrittenLogs(manifest)) < q.max_log_files,
         NEW now, now = IF a.path[1] = "logs" THEN taken \cup {a.source[1]} ELSE taken
  PROVE  /\ Books(q, manifest \cup {a}, Put(files, a.path, a.sha256), now)
         /\ AnyRedacted(Put(files, a.path, a.sha256)) <=> (AnyRedacted(files) \/ a.sha256 = "redacted")
         /\ Cardinality(WrittenLogs(manifest \cup {a})) =
              IF a.path[1] = "logs" THEN Cardinality(WrittenLogs(manifest)) + 1
              ELSE Cardinality(WrittenLogs(manifest))
<1> DEFINE new == Put(files, a.path, a.sha256)
           more == manifest \cup {a}
<1>1. a.path \in Paths /\ a.sha256 \in Payloads
  BY DEF Artefacts
<1>2. /\ DOMAIN new = DOMAIN files \cup {a.path} /\ new[a.path] = a.sha256
      /\ \A p \in DOMAIN files : p # a.path => new[p] = files[p]
  <2>1. DOMAIN Put(files, a.path, a.sha256) = DOMAIN files \cup {a.path}
    BY PutValues
  <2>2. Put(files, a.path, a.sha256)[a.path] = a.sha256
    BY PutValues
  <2>3. \A p \in DOMAIN files : p # a.path => Put(files, a.path, a.sha256)[p] = files[p]
    BY PutValues
  <2> QED
    BY <2>1, <2>2, <2>3
<1>3. /\ DOMAIN files = {b.path : b \in Written(manifest)}
      /\ \A b \in Written(manifest) : b \in manifest /\ b.sha256 = files[b.path]
  BY DEF Books, Written
<1>4. Written(more) = Written(manifest) \cup {a} /\ a \notin manifest
  BY DEF Written
<1>5. a.path \notin DOMAIN files
  BY <1>3
<1> HIDE DEF new
<1>6. DOMAIN new = {b.path : b \in Written(more)}
  <2>1. {b.path : b \in Written(more)} = {b.path : b \in Written(manifest)} \cup {a.path}
    BY <1>4
  <2> QED
    BY <1>2, <1>3, <2>1
<1>7. \A b, d \in more : b.path = d.path => b = d
  BY DEF Books
<1>8. \A b \in Written(more) : b.sha256 = new[b.path]
  BY <1>2, <1>3, <1>4, <1>5
<1>9. AnyRedacted(new) <=> (AnyRedacted(files) \/ a.sha256 = "redacted")
  BY <1>2, <1>5 DEF AnyRedacted
<1>10. {b.source[1] : b \in LogEntries(more)} = now
  <2>1. {b.source[1] : b \in LogEntries(manifest)} = taken
    BY DEF Books
  <2>2. LogEntries(more) = IF a.path[1] = "logs" THEN LogEntries(manifest) \cup {a} ELSE LogEntries(manifest)
    BY DEF LogEntries
  <2> QED
    BY <2>1, <2>2
<1>11. /\ IsFiniteSet(WrittenLogs(manifest)) /\ Cardinality(WrittenLogs(manifest)) \in Nat
       /\ Cardinality(WrittenLogs(manifest)) <= q.max_log_files
  BY FS_CardinalityType DEF Books
<1>12. a \notin WrittenLogs(manifest)
  BY <1>4 DEF WrittenLogs, Written
<1>13. WrittenLogs(more) = IF a.path[1] = "logs" THEN WrittenLogs(manifest) \cup {a}
                           ELSE WrittenLogs(manifest)
  BY <1>4 DEF WrittenLogs
<1>14. /\ IsFiniteSet(WrittenLogs(more)) /\ Cardinality(WrittenLogs(more)) <= q.max_log_files
       /\ Cardinality(WrittenLogs(more)) =
            IF a.path[1] = "logs" THEN Cardinality(WrittenLogs(manifest)) + 1
            ELSE Cardinality(WrittenLogs(manifest))
  <2>1. CASE a.path[1] = "logs"
    <3>1. WrittenLogs(more) = WrittenLogs(manifest) \cup {a}
      BY <1>13, <2>1
    <3>2. /\ IsFiniteSet(WrittenLogs(more))
          /\ Cardinality(WrittenLogs(more)) = Cardinality(WrittenLogs(manifest)) + 1
      <4>1. PICK S : S = WrittenLogs(manifest)
        OBVIOUS
      <4>2. IsFiniteSet(S) /\ a \notin S
        BY <1>11, <1>12, <4>1
      <4>3. IsFiniteSet(S \cup {a}) /\ Cardinality(S \cup {a}) = Cardinality(S) + 1
        BY <4>2, FS_AddElement
      <4> QED
        BY <3>1, <4>1, <4>3
    <3> QED
      BY <1>11, <2>1, <3>2
  <2>2. CASE a.path[1] # "logs"
    BY <1>11, <1>13, <2>2
  <2> QED
    BY <2>1, <2>2
<1>15. SafeFiles(q, new)
  BY <1>2, <1>5 DEF Books, SafeFiles
<1>16. SafeWords(more)
  BY DEF Books, SafeWords
<1> QED
  BY <1>6, <1>7, <1>8, <1>9, <1>10, <1>14, <1>15, <1>16 DEF Books, new

\* A log that was not written joins the manifest only.
LEMMA BooksRefused ==
  ASSUME NEW q, NEW manifest \in SUBSET Artefacts, NEW files, NEW taken,
         Books(q, manifest, files, taken),
         NEW a \in Artefacts, a.bytes = FALSE, a.path[1] = "logs",
         a.words = "secret" => a.error = "device",
         \A b \in manifest : b.path # a.path
  PROVE  /\ Books(q, manifest \cup {a}, files, taken \cup {a.source[1]})
         /\ WrittenLogs(manifest \cup {a}) = WrittenLogs(manifest)
<1> DEFINE more == manifest \cup {a}
<1>1. Written(more) = Written(manifest)
  BY DEF Written
<1>2. WrittenLogs(more) = WrittenLogs(manifest)
  BY <1>1 DEF WrittenLogs
<1>3. LogEntries(more) = LogEntries(manifest) \cup {a}
  BY DEF LogEntries
<1>4. {b.source[1] : b \in LogEntries(more)} = taken \cup {a.source[1]}
  BY <1>3 DEF Books
<1>5. \A b, d \in more : b.path = d.path => b = d
  BY DEF Books
<1>6. SafeWords(more)
  BY DEF Books, SafeWords
<1> QED
  BY <1>1, <1>2, <1>4, <1>5, <1>6 DEF Books

-----------------------------------------------------------------------------
(* One collection moves *)

\* What a step of one collection may do to its router's permit.
PermitMoves(c, k) ==
  \/ /\ coll[c].pc \notin UnderWay /\ k.pc \in UnderWay
     /\ k.request.router \in Routers /\ permit[k.request.router] = NoOne
     /\ permit' = [permit EXCEPT ![k.request.router] = c]
  \/ coll[c].pc \in UnderWay /\ k.pc \in UnderWay /\ k.request = coll[c].request /\ permit' = permit
  \/ /\ coll[c].pc \in UnderWay /\ k.pc \notin UnderWay
     /\ permit' = [permit EXCEPT ![coll[c].request.router] = NoOne]
  \/ coll[c].pc \notin UnderWay /\ k.pc \notin UnderWay /\ permit' = permit

\* A step that takes one collection to a consistent record, and its permit with it, keeps
\* the invariant.
LEMMA CollectionMoves ==
  ASSUME Inv, NEW c \in Collections, NEW k \in CollRecords, NEW s \in ScratchRecords,
         NEW t \in Tarballs, CollOk(k, s, t), PermitMoves(c, k),
         coll' = [coll EXCEPT ![c] = k], scratch' = [scratch EXCEPT ![c] = s],
         staged' = [staged EXCEPT ![c] = t]
  PROVE  Inv'
<1>1. TypeInv /\ PermitInv
  BY DEF Inv
<1>2. /\ coll'[c] = k /\ scratch'[c] = s /\ staged'[c] = t
      /\ \A d \in Collections \ {c} : coll'[d] = coll[d] /\ scratch'[d] = scratch[d] /\ staged'[d] = staged[d]
  BY <1>1 DEF TypeInv
<1>3. \A d \in Collections : CollOk(coll[d], scratch[d], staged[d])'
  <2> SUFFICES ASSUME NEW d \in Collections PROVE CollOk(coll'[d], scratch'[d], staged'[d])
    BY DEF CollOk, Progress, Books, SafeFiles, SafeAt, SafeWords
  <2>1. CASE d = c
    BY <1>2, <2>1
  <2>2. CASE d # c
    BY <1>2, <2>2 DEF Inv
  <2> QED
    BY <2>1, <2>2
<1>4. coll[c].pc \in UnderWay => coll[c].request.router \in Routers /\ permit[coll[c].request.router] = c
  <2> SUFFICES ASSUME coll[c].pc \in UnderWay PROVE coll[c].request.router \in Routers
    BY <1>1 DEF PermitInv
  <2>1. coll[c].request \in Requests
    BY DEF Inv, CollOk, Progress
  <2> QED
    BY <2>1, BundleAssumption
<1>5. TypeInv'
  <2>1. permit' \in [Routers -> Collections \cup {NoOne}]
    BY <1>1, <1>4 DEF TypeInv, PermitMoves
  <2>2. coll' \in [Collections -> CollRecords]
    BY <1>1 DEF TypeInv
  <2>3. scratch' \in [Collections -> ScratchRecords]
    BY <1>1 DEF TypeInv
  <2>4. staged' \in [Collections -> Tarballs]
    BY <1>1 DEF TypeInv
  <2> QED
    BY <2>1, <2>2, <2>3, <2>4 DEF TypeInv
<1>6. PermitInv'
  <2>1. NoOne \notin Collections /\ permit \in [Routers -> Collections \cup {NoOne}]
    BY <1>1, BundleAssumption DEF TypeInv
  <2>2. \A d \in Collections : coll[d].pc \in UnderWay =>
          permit[coll[d].request.router] = d /\ coll[d].request.router \in Routers
    <3> SUFFICES ASSUME NEW d \in Collections, coll[d].pc \in UnderWay
                 PROVE  coll[d].request.router \in Routers
      BY <1>1 DEF PermitInv
    <3>1. coll[d].request \in Requests
      BY DEF Inv, CollOk, Progress
    <3> QED
      BY <3>1, BundleAssumption
  <2>3. \A r \in Routers : permit[r] # NoOne =>
          /\ permit[r] \in Collections
          /\ coll[permit[r]].pc \in UnderWay /\ coll[permit[r]].request.router = r
    BY <1>1, <2>1 DEF PermitInv
  <2>4. CASE /\ coll[c].pc \notin UnderWay /\ k.pc \in UnderWay
             /\ k.request.router \in Routers /\ permit[k.request.router] = NoOne
             /\ permit' = [permit EXCEPT ![k.request.router] = c]
    BY <1>2, <2>1, <2>2, <2>3, <2>4 DEF PermitInv
  <2>5. CASE coll[c].pc \in UnderWay /\ k.pc \in UnderWay /\ k.request = coll[c].request /\ permit' = permit
    BY <1>2, <2>1, <2>2, <2>3, <2>5 DEF PermitInv
  <2>6. CASE /\ coll[c].pc \in UnderWay /\ k.pc \notin UnderWay
             /\ permit' = [permit EXCEPT ![coll[c].request.router] = NoOne]
    BY <1>2, <2>1, <2>2, <2>3, <2>6 DEF PermitInv
  <2>7. CASE coll[c].pc \notin UnderWay /\ k.pc \notin UnderWay /\ permit' = permit
    BY <1>2, <2>1, <2>2, <2>3, <2>7 DEF PermitInv
  <2> QED
    BY <2>4, <2>5, <2>6, <2>7 DEF PermitMoves
<1> QED
  BY <1>3, <1>5, <1>6 DEF Inv

\* The empty values have their types.
LEMMA EmptyOk ==
  /\ NoFiles \in FileMaps /\ DOMAIN NoFiles = {} /\ Clean \in ScratchRecords /\ Clean.files = NoFiles
  /\ NoTarball \in Tarballs /\ ~NoTarball.present
  /\ NoTarball.files = NoFiles /\ NoTarball.manifest = {}
  /\ \A q : SafeFiles(q, NoFiles) /\ SafeWords({})
<1>1. {} \in SUBSET Paths /\ NoFiles \in [{} -> Payloads]
  BY DEF NoFiles
<1>2. NoFiles \in FileMaps /\ DOMAIN NoFiles = {}
  BY <1>1 DEF FileMaps, NoFiles
<1>3. Clean \in ScratchRecords /\ Clean.files = NoFiles
  BY <1>2 DEF Clean, ScratchRecords
<1>4. /\ NoTarball \in Tarballs /\ ~NoTarball.present
      /\ NoTarball.files = NoFiles /\ NoTarball.manifest = {}
  BY <1>2 DEF NoTarball, Tarballs
<1>5. \A q : SafeFiles(q, NoFiles) /\ SafeWords({})
  BY <1>2 DEF SafeFiles, SafeWords
<1> QED
  BY <1>2, <1>3, <1>4, <1>5

\* The end of a collection under way: with the whole archive, or with what the file system
\* would not remove.
LEMMA DropInv ==
  ASSUME Inv, NEW c \in Collections, coll[c].pc \in UnderWay,
         NEW keep \in BOOLEAN, NEW tarball \in Tarballs, NEW result,
         Drop(c, keep, tarball, result),
         tarball.files \in {NoFiles, scratch[c].files},
         tarball.manifest \in {{}, coll[c].artefacts},
         \/ ~keep /\ result \in {"failed", "cancelled"}
         \/ /\ keep /\ result = "ok" /\ coll[c].logs = {} /\ tarball.present
            /\ tarball.files = scratch[c].files /\ tarball.manifest = coll[c].artefacts
  PROVE  Inv'
<1>0. PICK stuck \in RemovalFailures(keep, tarball) :
        /\ scratch' = [scratch EXCEPT ![c] = IF "scratch" \in stuck THEN @ ELSE Clean]
        /\ staged' = [staged EXCEPT ![c] = IF keep \/ "tarball" \in stuck THEN tarball ELSE NoTarball]
        /\ coll' = [coll EXCEPT ![c].pc = "over", ![c].result = result, ![c].stuck = stuck]
        /\ permit' = [permit EXCEPT ![coll[c].request.router] = NoOne]
  BY DEF Drop, Clean
<1>1. PICK k : k = [coll[c] EXCEPT !.pc = "over", !.result = result, !.stuck = stuck]
  OBVIOUS
<1>2. TypeInv /\ coll[c] \in CollRecords /\ scratch[c] \in ScratchRecords /\ Progress(coll[c], scratch[c].files)
  BY DEF Inv, TypeInv, CollOk
<1>3. /\ stuck \in SUBSET {"scratch", "tarball"}
      /\ "tarball" \in stuck => tarball.present /\ ~keep
  BY <1>0 DEF RemovalFailures
<1>4. /\ k \in CollRecords /\ k.pc = "over" /\ k.result = result /\ k.request = coll[c].request
      /\ k.redacted = coll[c].redacted /\ k.stuck = stuck
  BY <1>1, <1>2, <1>3 DEF CollRecords
<1>5. PICK s : s = IF "scratch" \in stuck THEN scratch[c] ELSE Clean
  OBVIOUS
<1>6. PICK t : t = IF keep \/ "tarball" \in stuck THEN tarball ELSE NoTarball
  OBVIOUS
<1>7. /\ coll' = [coll EXCEPT ![c] = k] /\ scratch' = [scratch EXCEPT ![c] = s]
      /\ staged' = [staged EXCEPT ![c] = t]
  BY <1>0, <1>1, <1>2, <1>5, <1>6 DEF TypeInv
<1>8. s \in ScratchRecords /\ t \in Tarballs
  BY <1>2, <1>5, <1>6, EmptyOk
<1>9. Books(k.request, coll[c].artefacts, scratch[c].files, LogsOf(k.request) \ coll[c].logs)
  BY <1>2, <1>4 DEF Progress
<1>10. SafeFiles(k.request, scratch[c].files) /\ SafeWords(coll[c].artefacts)
  BY <1>9 DEF Books
<1>11. SafeFiles(k.request, tarball.files) /\ SafeWords(tarball.manifest)
  BY <1>10, EmptyOk
<1>12. SafeFiles(k.request, s.files) /\ SafeFiles(k.request, t.files) /\ SafeWords(t.manifest)
  BY <1>5, <1>6, <1>10, <1>11, EmptyOk
<1>13. t.present <=> (result = "ok" \/ "tarball" \in stuck)
  BY <1>3, <1>6, EmptyOk
<1>14. result = "ok" => /\ k.request \in Requests
                        /\ Books(k.request, t.manifest, t.files, LogsOf(k.request))
                        /\ k.redacted <=> AnyRedacted(t.files)
  <2> SUFFICES ASSUME result = "ok"
               PROVE  /\ k.request \in Requests
                      /\ Books(k.request, t.manifest, t.files, LogsOf(k.request))
                      /\ k.redacted <=> AnyRedacted(t.files)
    OBVIOUS
  <2>1. t.files = scratch[c].files /\ t.manifest = coll[c].artefacts
    BY <1>6
  <2>2. LogsOf(k.request) \ coll[c].logs = LogsOf(k.request)
    OBVIOUS
  <2> QED
    BY <1>2, <1>4, <1>9, <2>1, <2>2 DEF Progress
<1>15. CollOk(k, s, t)
  BY <1>4, <1>5, <1>12, <1>13, <1>14 DEF CollOk, UnderWay
<1>16. PermitMoves(c, k)
  BY <1>0, <1>4 DEF PermitMoves, UnderWay
<1> QED
  BY <1>4, <1>7, <1>8, <1>15, <1>16, CollectionMoves

\* A failure before the archive exists.
LEMMA FailInv ==
  ASSUME Inv, NEW c \in Collections, coll[c].pc \in UnderWay,
         NEW result \in {"failed", "cancelled"}, Fail(c, result)
  PROVE  Inv'
BY DropInv, EmptyOk DEF Fail

-----------------------------------------------------------------------------
(* The actions *)

\* A scratch directory that was never made.
LEMMA CleanAgain == [Clean EXCEPT !.made = FALSE] = Clean
<1>1. \A b, f : [[made |-> b, files |-> f] EXCEPT !.made = b] = [made |-> b, files |-> f]
  OBVIOUS
<1> QED
  BY <1>1, Zenon DEF Clean

\* The start: a refusal changes nothing but the answer, prepare() starts with an empty
\* manifest and the router's permit.
LEMMA RunInv ==
  ASSUME Inv, NEW c \in Collections, run(c)
  PROVE  Inv'
<1>1. TypeInv /\ coll[c].pc = "new" /\ coll[c] \in CollRecords
  BY DEF Inv, TypeInv, run
<1>2. scratch[c] = Clean /\ staged[c] = NoTarball /\ coll[c].stuck = {}
  BY <1>1 DEF Inv, CollOk
<1>3. PICK q \in Requests :
        \/ \E result \in {"invalid_input", "contention"} : Refuse(c, q, result)
        \/ permit[q.router] = NoOne /\ prepare(c, q)
  BY DEF run
<1>4. q.router \in Routers /\ q.types \in SUBSET ProblemTypes /\ q.max_log_files \in Nat
  BY BundleAssumption
<1>5. ASSUME NEW result \in {"invalid_input", "contention", "unprepared"},
             NEW stuck \in SUBSET {"scratch"}, NEW s, s = [Clean EXCEPT !.made = ("scratch" \in stuck)],
             coll' = [coll EXCEPT ![c].pc = "over", ![c].request = q, ![c].result = result,
                                  ![c].stuck = stuck],
             scratch' = [scratch EXCEPT ![c] = s], permit' = permit, staged' = staged
      PROVE  Inv'
  <2>1. PICK k : k = [coll[c] EXCEPT !.pc = "over", !.request = q, !.result = result, !.stuck = stuck]
    OBVIOUS
  <2>2. k \in CollRecords /\ k.pc = "over" /\ k.result = result /\ k.stuck = stuck
    BY <1>1, <2>1 DEF CollRecords
  <2>3. coll' = [coll EXCEPT ![c] = k] /\ staged' = [staged EXCEPT ![c] = NoTarball]
    BY <1>1, <1>2, <1>5, <2>1 DEF TypeInv
  <2>4. /\ s \in ScratchRecords /\ s.files = NoFiles
        /\ "scratch" \notin stuck => s = Clean
    <3>1. CASE "scratch" \in stuck
      <4>1. s = [made |-> TRUE, files |-> NoFiles]
        BY <1>5, <3>1 DEF Clean
      <4> QED
        BY <3>1, <4>1, EmptyOk DEF ScratchRecords
    <3>2. CASE "scratch" \notin stuck
      <4>1. s = Clean
        <5>1. ("scratch" \in stuck) = FALSE
          BY <3>2
        <5>2. s = [Clean EXCEPT !.made = FALSE]
          BY <1>5, <5>1, Zenon
        <5> QED
          BY <5>2, CleanAgain
      <4> QED
        BY <4>1, EmptyOk DEF ScratchRecords, Clean
    <3> QED
      BY <3>1, <3>2
  <2>5. CollOk(k, s, NoTarball)
    BY <1>5, <2>2, <2>4, EmptyOk DEF CollOk, UnderWay
  <2>6. PermitMoves(c, k)
    BY <1>1, <1>5, <2>2 DEF PermitMoves, UnderWay
  <2> QED
    BY <1>5, <2>2, <2>3, <2>4, <2>5, <2>6, EmptyOk, CollectionMoves
<1>7. ASSUME NEW result \in {"invalid_input", "contention"}, Refuse(c, q, result)
      PROVE  Inv'
  <2>1. [Clean EXCEPT !.made = ("scratch" \in {})] = Clean
    <3>1. ("scratch" \in {}) = FALSE
      OBVIOUS
    <3>2. [Clean EXCEPT !.made = FALSE] = Clean
      BY CleanAgain
    <3> QED
      BY <3>1, <3>2, Zenon
  <2>2. scratch' = [scratch EXCEPT ![c] = Clean] /\ permit' = permit /\ staged' = staged
    BY <1>1, <1>2, <1>7 DEF Refuse, TypeInv
  <2>3. coll' = [coll EXCEPT ![c].pc = "over", ![c].request = q, ![c].result = result,
                             ![c].stuck = {}]
    <3>1. coll \in [Collections -> CollRecords]
      BY <1>1 DEF TypeInv
    <3>2. [coll[c] EXCEPT !.pc = "over", !.request = q, !.result = result] =
          [coll[c] EXCEPT !.pc = "over", !.request = q, !.result = result, !.stuck = {}]
      BY <1>1, <1>2 DEF CollRecords
    <3> QED
      BY <1>7, <3>1, <3>2 DEF Refuse
  <2> QED
    BY <1>5, <2>1, <2>2, <2>3
<1>8. ASSUME NEW stuck \in RemovalFailures(FALSE, NoTarball),
             scratch' = [scratch EXCEPT ![c].made = ("scratch" \in stuck)],
             coll' = [coll EXCEPT ![c].pc = "over", ![c].request = q,
                                  ![c].result = "unprepared", ![c].stuck = stuck],
             UNCHANGED <<permit, staged>>
      PROVE  Inv'
  <2>1. stuck \in SUBSET {"scratch"}
    BY EmptyOk DEF RemovalFailures
  <2>2. scratch' = [scratch EXCEPT ![c] = [Clean EXCEPT !.made = ("scratch" \in stuck)]]
    BY <1>1, <1>2, <1>8 DEF TypeInv
  <2> QED
    BY <1>5, <1>8, <2>1, <2>2
<1>6. CASE /\ permit[q.router] = NoOne
           /\ scratch' = [scratch EXCEPT ![c].made = TRUE]
           /\ permit' = [permit EXCEPT ![q.router] = c]
           /\ coll' = [coll EXCEPT ![c] = [Idle EXCEPT !.request = q,
                !.pc = IF "generic" \in q.types THEN "generic" ELSE "rpc",
                !.rpcs = IF "generic" \in q.types THEN {} ELSE all_rpcs(q.types),
                !.logs = LogsOf(q)]]
           /\ UNCHANGED staged
  <2> DEFINE generic == "generic" \in q.types
  <2>1. PICK k : k = [Idle EXCEPT !.request = q,
            !.pc = IF "generic" \in q.types THEN "generic" ELSE "rpc",
            !.rpcs = IF "generic" \in q.types THEN {} ELSE all_rpcs(q.types),
            !.logs = LogsOf(q)]
    OBVIOUS
  <2>2. PICK s : s = [Clean EXCEPT !.made = TRUE]
    OBVIOUS
  <2>3. /\ coll' = [coll EXCEPT ![c] = k] /\ scratch' = [scratch EXCEPT ![c] = s]
        /\ staged' = [staged EXCEPT ![c] = NoTarball] /\ permit' = [permit EXCEPT ![q.router] = c]
    BY <1>1, <1>2, <1>6, <2>1, <2>2 DEF TypeInv
  <2>4. s \in ScratchRecords /\ s.files = NoFiles
    BY <2>2, EmptyOk DEF ScratchRecords
  <2>5. /\ k.pc = (IF "generic" \in q.types THEN "generic" ELSE "rpc") /\ k.request = q
        /\ k.rpcs = (IF "generic" \in q.types THEN {} ELSE all_rpcs(q.types)) /\ k.logs = LogsOf(q)
        /\ k.artefacts = {} /\ k.captured = 0 /\ k.redacted = FALSE /\ k.result = ""
    BY <2>1 DEF Idle
  <2>6. all_rpcs(q.types) \subseteq Rpcs /\ LogsOf(q) \subseteq Logs
    BY DEF Rpcs, Logs, LogsOf
  <2>7. k \in CollRecords
    <3>1. Idle \in CollRecords
      BY DEF Idle, CollRecords
    <3> QED
      BY <2>1, <2>6, <3>1 DEF CollRecords
  <2>8. Progress(k, s.files)
    <3>1. LogsOf(q) \ LogsOf(q) = {} /\ ("generic" \in q.types => LogsOf(q) = {})
      BY DEF LogsOf
    <3>2. Written({}) = {} /\ WrittenLogs({}) = {} /\ LogEntries({}) = {}
      BY DEF Written, WrittenLogs, LogEntries
    <3>3. IsFiniteSet({}) /\ Cardinality({}) = 0
      BY FS_EmptySet
    <3>4. Books(q, {}, NoFiles, {}) /\ ~k.redacted /\ ~AnyRedacted(NoFiles)
      <4>1. ~k.redacted /\ DOMAIN NoFiles = {}
        BY <2>5, EmptyOk
      <4>2. /\ DOMAIN NoFiles = {a.path : a \in Written({})}
            /\ {a.source[1] : a \in LogEntries({})} = {}
        BY <3>2, <4>1
      <4>3. IsFiniteSet(WrittenLogs({})) /\ Cardinality(WrittenLogs({})) <= q.max_log_files
        BY <1>4, <3>2, <3>3
      <4>4. \A a \in Written({}) : a.sha256 = NoFiles[a.path]
        BY <3>2
      <4>5. ~AnyRedacted(NoFiles)
        BY <4>1 DEF AnyRedacted
      <4>6. SafeFiles(q, NoFiles) /\ SafeWords({})
        BY EmptyOk
      <4> QED
        BY <4>1, <4>2, <4>3, <4>4, <4>5, <4>6 DEF Books
    <3> QED
      BY <2>4, <2>5, <3>1, <3>2, <3>3, <3>4 DEF Progress
  <2>9. CollOk(k, s, NoTarball)
    BY <2>5, <2>8 DEF CollOk, UnderWay
  <2>10. PermitMoves(c, k)
    BY <1>1, <1>4, <1>6, <2>3, <2>5 DEF PermitMoves, UnderWay
  <2> QED
    BY <2>3, <2>4, <2>7, <2>9, <2>10, EmptyOk, CollectionMoves
<1> QED
  BY <1>3, <1>6, <1>7, <1>8 DEF prepare

\* A collection goes on, with more files and entries.
LEMMA CollectionGoesOn ==
  ASSUME Inv, NEW c \in Collections, coll[c].pc \in UnderWay, NEW k \in CollRecords, k.pc \in UnderWay,
         k.request = coll[c].request, k.result = coll[c].result,
         NEW files \in FileMaps, Progress(k, files),
         coll' = [coll EXCEPT ![c] = k], scratch' = [scratch EXCEPT ![c].files = files],
         UNCHANGED <<permit, staged>>
  PROVE  Inv'
<1>1. TypeInv /\ scratch[c] \in ScratchRecords
  BY DEF Inv, TypeInv
<1>2. staged[c] = NoTarball /\ k.result # "ok"
  BY DEF Inv, CollOk, UnderWay
<1>3. PICK s : s = [scratch[c] EXCEPT !.files = files]
  OBVIOUS
<1>4. s \in ScratchRecords /\ s.files = files
  BY <1>1, <1>3 DEF ScratchRecords
<1>5. scratch' = [scratch EXCEPT ![c] = s] /\ staged' = [staged EXCEPT ![c] = NoTarball]
  BY <1>1, <1>2, <1>3 DEF TypeInv
<1>6. CollOk(k, s, NoTarball)
  BY <1>2, <1>4 DEF CollOk, UnderWay
<1>7. PermitMoves(c, k)
  BY DEF PermitMoves
<1> QED
  BY <1>4, <1>5, <1>6, <1>7, EmptyOk, CollectionMoves

\* What redaction lets through: a safe payload, marked as redacted exactly when it was
\* changed; without redaction, the payload as it came.
LEMMA RedactionFacts ==
  ASSUME NEW redact \in BOOLEAN, NEW a \in {"secret", "plain", "broken", "fragment"}, NEW out,
         out \in {Unless(redact, a, redact_rpc_reply(a)), Unless(redact, a, redact_log_artefact(a))},
         out.ok
  PROVE  /\ out.payload \in Payloads
         /\ redact => out.payload \in Safe \cup {"fragment"}
         /\ redact /\ a # "fragment" => out.payload \in Safe
         /\ out.payload # a <=> out.payload = "redacted"
<1>1. CASE redact
  <2>1. out = [ok |-> a # "broken", payload |-> IF a = "secret" THEN "redacted" ELSE a]
    BY <1>1 DEF Unless, redact_rpc_reply, redact_log_artefact
  <2>2. a # "broken" /\ out.payload = IF a = "secret" THEN "redacted" ELSE a
    BY <2>1
  <2> QED
    BY <2>2 DEF Payloads, Safe
<1>2. CASE ~redact
  <2>1. out.payload = a
    BY <1>2 DEF Unless
  <2> QED
    BY <1>2, <2>1 DEF Payloads
<1> QED
  BY <1>1, <1>2

\* `request support information`: one file, or the end.
LEMMA GenericInv ==
  ASSUME Inv, NEW c \in Collections, collect_generic(c)
  PROVE  Inv'
<1> DEFINE k0 == coll[c]
           path == <<"", "request-support-information", "">>
<1>1. TypeInv /\ k0.pc = "generic" /\ k0 \in CollRecords /\ Progress(k0, scratch[c].files)
  BY DEF Inv, TypeInv, CollOk, UnderWay, collect_generic
<1>2. CASE Fail(c, "failed")
  BY <1>1, <1>2, FailInv DEF UnderWay
<1>3. ASSUME NEW a \in {"secret", "plain", "broken"}, NEW red,
             red = Unless(k0.request.redact, a, redact_log_artefact(a)), red.ok,
             Write(c, path, red.payload),
             coll' = [coll EXCEPT ![c].pc = "finalize",
                        ![c].artefacts = {CapturedArtefact(path, path, red.payload, "")},
                        ![c].redacted = (red.payload # a)],
             UNCHANGED <<permit, staged>>
      PROVE  Inv'
  <2>1. /\ k0.request \in Requests /\ k0.request.redact \in BOOLEAN /\ k0.request.max_log_files \in Nat
        /\ k0.artefacts = {} /\ scratch[c].files = NoFiles /\ k0.logs = {}
    BY <1>1, BundleAssumption DEF Progress
  <2>2. /\ red.payload \in Payloads /\ (k0.request.redact => red.payload \in Safe)
        /\ red.payload # a <=> red.payload = "redacted"
    BY <1>3, <2>1, RedactionFacts
  <2>3. PICK art : art = CapturedArtefact(path, path, red.payload, "")
    OBVIOUS
  <2>4. /\ art \in Artefacts /\ art.bytes /\ art.path = GenericPath /\ art.sha256 = red.payload
        /\ art.path[1] # "logs" /\ art.words = "plain"
    <3>1. path = GenericPath /\ path \in Paths /\ path[1] = ""
      BY DEF GenericPath, Paths
    <3> QED
      BY <2>2, <2>3, <3>1 DEF CapturedArtefact, Artefacts
  <2>5. PICK k : k = [k0 EXCEPT !.pc = "finalize", !.artefacts = {art}, !.redacted = (red.payload # a)]
    OBVIOUS
  <2>6. /\ k \in CollRecords /\ k.pc = "finalize" /\ k.artefacts = {art} /\ k.request = k0.request
        /\ k.rpcs = k0.rpcs /\ k.logs = k0.logs /\ k.captured = k0.captured /\ k.result = k0.result
        /\ k.redacted \in BOOLEAN /\ (k.redacted <=> red.payload = "redacted")
    BY <1>1, <2>2, <2>4, <2>5 DEF CollRecords
  <2>7. coll' = [coll EXCEPT ![c] = k]
    BY <1>1, <1>3, <2>3, <2>5 DEF TypeInv
  <2>8. PICK files : files = Put(NoFiles, art.path, art.sha256)
    OBVIOUS
  <2>9. scratch' = [scratch EXCEPT ![c].files = files] /\ files \in FileMaps
    <3>1. scratch' = [scratch EXCEPT ![c].files = files]
      BY <1>1, <1>3, <2>1, <2>4, <2>8 DEF Write, Put, TypeInv, GenericPath
    <3>2. art.path \in Paths /\ art.sha256 \in Payloads
      BY <2>2, <2>4 DEF Artefacts
    <3> QED
      BY <2>8, <3>1, <3>2, EmptyOk, PutFacts
  <2>10. Progress(k, files)
    <3> DEFINE taken == LogsOf(k0.request) \ k0.logs
    <3>1. /\ Books(k0.request, k0.artefacts, scratch[c].files, taken)
          /\ k0.captured = Cardinality(WrittenLogs(k0.artefacts)) /\ scratch[c].files \in FileMaps
      BY <1>1, <2>1, EmptyOk DEF Progress
    <3>2. ~AnyRedacted(scratch[c].files)
      BY <2>1, EmptyOk DEF AnyRedacted
    <3>3. /\ Books(k0.request, k0.artefacts \cup {art}, Put(scratch[c].files, art.path, art.sha256), taken)
          /\ AnyRedacted(Put(scratch[c].files, art.path, art.sha256)) <=>
               (AnyRedacted(scratch[c].files) \/ art.sha256 = "redacted")
          /\ Cardinality(WrittenLogs(k0.artefacts \cup {art})) = Cardinality(WrittenLogs(k0.artefacts))
      <4>1. k0.artefacts \in SUBSET Artefacts /\ \A b \in k0.artefacts : b.path # art.path
        BY <2>1
      <4>2. taken = IF art.path[1] = "logs" THEN taken \cup {art.source[1]} ELSE taken
        BY <2>4
      <4> HIDE DEF taken, k0
      <4> QED
        BY <2>1, <2>2, <2>4, <3>1, <4>1, <4>2, BooksWritten DEF SafeAt
    <3>4. k0.artefacts \cup {art} = {art}
      BY <2>1
    <3>5. Books(k.request, k.artefacts, files, LogsOf(k.request) \ k.logs)
      BY <2>1, <2>6, <2>8, <3>3, <3>4
    <3>6. k.captured = Cardinality(WrittenLogs(k.artefacts)) /\ (k.redacted <=> AnyRedacted(files))
      BY <2>1, <2>4, <2>6, <2>8, <3>1, <3>2, <3>3, <3>4
    <3>7. \A r \in k.rpcs : art.path # sanitize_rpc_filename(r)
      <4>1. art.path[1] = ""
        <5>1. GenericPath[1] = ""
          BY DEF GenericPath
        <5> QED
          BY <2>4, <5>1
      <4>2. \A r \in k.rpcs : sanitize_rpc_filename(r)[1] = "rpc"
        BY DEF sanitize_rpc_filename
      <4> QED
        BY <4>1, <4>2
    <3> QED
      BY <2>1, <2>6, <3>5, <3>6, <3>7 DEF Progress
  <2> QED
    BY <1>1, <1>3, <2>6, <2>7, <2>9, <2>10, CollectionGoesOn DEF UnderWay
<1> QED
  BY <1>2, <1>3 DEF collect_generic

\* An artefact that was written joins a collection under way.
LEMMA ProgressWritten ==
  ASSUME NEW k0 \in CollRecords, NEW files \in FileMaps, Progress(k0, files),
         NEW art \in Artefacts, art.bytes, art.sha256 \in Payloads,
         \A b \in k0.artefacts : b.path # art.path,
         k0.request.redact => art.sha256 \in SafeAt(art.path), art.words = "plain",
         art.path[1] = "logs" => k0.captured < k0.request.max_log_files,
         NEW k \in CollRecords, k.request = k0.request, k.artefacts = k0.artefacts \cup {art},
         k.pc = "rpc", k0.pc = "rpc", k.rpcs \subseteq k0.rpcs, k.logs \subseteq k0.logs,
         \A r \in k.rpcs : art.path # sanitize_rpc_filename(r),
         \A l \in k.logs : art.path # device_log_tarball_path(l),
         k.redacted <=> (k0.redacted \/ art.sha256 = "redacted"),
         IF art.path[1] = "logs"
           THEN /\ k.captured = k0.captured + 1 /\ art.source[1] \in k0.logs
                /\ k.logs = k0.logs \ {art.source[1]}
           ELSE k.captured = k0.captured /\ k.logs = k0.logs
  PROVE  Progress(k, Put(files, art.path, art.sha256))
<1> DEFINE q == k0.request
           taken == LogsOf(q) \ k0.logs
           now == LogsOf(q) \ k.logs
<1>1. /\ q \in Requests /\ k0.logs \subseteq LogsOf(q) /\ Books(q, k0.artefacts, files, taken)
      /\ k0.redacted <=> AnyRedacted(files)
      /\ k0.captured = Cardinality(WrittenLogs(k0.artefacts))
      /\ \A a \in k0.artefacts : \A r \in k0.rpcs : a.path # sanitize_rpc_filename(r)
      /\ \A a \in k0.artefacts : \A l \in k0.logs : a.path # device_log_tarball_path(l)
  BY DEF Progress
<1>2. q.max_log_files \in Nat
  BY <1>1, BundleAssumption
<1>3. now = IF art.path[1] = "logs" THEN taken \cup {art.source[1]} ELSE taken
  BY <1>1
<1>4. k0.artefacts \in SUBSET Artefacts
  BY DEF CollRecords
<1>5. art.path[1] = "logs" => Cardinality(WrittenLogs(k0.artefacts)) < q.max_log_files
  BY <1>1
<1>6. q.redact => art.sha256 \in SafeAt(art.path)
  OBVIOUS
<1> HIDE DEF q, taken, now
<1>7. /\ Books(q, k0.artefacts \cup {art}, Put(files, art.path, art.sha256), now)
      /\ AnyRedacted(Put(files, art.path, art.sha256)) <=> (AnyRedacted(files) \/ art.sha256 = "redacted")
      /\ Cardinality(WrittenLogs(k0.artefacts \cup {art})) =
           IF art.path[1] = "logs" THEN Cardinality(WrittenLogs(k0.artefacts)) + 1
           ELSE Cardinality(WrittenLogs(k0.artefacts))
  BY <1>1, <1>2, <1>3, <1>4, <1>5, <1>6, BooksWritten
<1>8. Books(k.request, k.artefacts, Put(files, art.path, art.sha256), LogsOf(k.request) \ k.logs)
  BY <1>7 DEF q, now
<1>9. k.redacted <=> AnyRedacted(Put(files, art.path, art.sha256))
  BY <1>1, <1>7
<1>10. k.captured = Cardinality(WrittenLogs(k.artefacts))
  BY <1>1, <1>7
<1>11. k.request \in Requests /\ k.logs \subseteq LogsOf(k.request)
  BY <1>1 DEF q
<1>12. \A a \in k.artefacts : (\A r \in k.rpcs : a.path # sanitize_rpc_filename(r))
                               /\ (\A l \in k.logs : a.path # device_log_tarball_path(l))
  BY <1>1
<1> QED
  BY <1>8, <1>9, <1>10, <1>11, <1>12 DEF Progress

\* One RPC: skipped, written, or the end of the collection.
LEMMA CaptureRpcInv ==
  ASSUME Inv, NEW c \in Collections, CaptureRpc(c)
  PROVE  Inv'
<1> DEFINE k0 == coll[c]
<1>1. /\ TypeInv /\ k0.pc = "rpc" /\ k0 \in CollRecords /\ Progress(k0, scratch[c].files)
      /\ scratch[c].files \in FileMaps
  BY DEF Inv, TypeInv, CollOk, UnderWay, CaptureRpc, ScratchRecords
<1>2. CASE Fail(c, "failed")
  BY <1>1, <1>2, FailInv DEF UnderWay
<1>3. ASSUME NEW rpc \in k0.rpcs, coll' = [coll EXCEPT ![c].rpcs = @ \ {rpc}],
             UNCHANGED <<permit, scratch, staged>>
      PROVE  Inv'
  <2>1. PICK k : k = [k0 EXCEPT !.rpcs = @ \ {rpc}]
    OBVIOUS
  <2>2. /\ k \in CollRecords /\ k.pc = "rpc" /\ k.rpcs \subseteq k0.rpcs /\ k.request = k0.request
        /\ k.logs = k0.logs /\ k.artefacts = k0.artefacts /\ k.captured = k0.captured
        /\ k.redacted = k0.redacted /\ k.result = k0.result
    BY <1>1, <2>1 DEF CollRecords
  <2>3. Progress(k, scratch[c].files)
    BY <1>1, <2>2 DEF Progress
  <2>4. coll' = [coll EXCEPT ![c] = k] /\ scratch' = [scratch EXCEPT ![c].files = scratch[c].files]
    BY <1>1, <1>3, <2>1 DEF TypeInv, ScratchRecords
  <2> QED
    BY <1>1, <1>3, <2>2, <2>3, <2>4, CollectionGoesOn DEF UnderWay
<1>4. ASSUME NEW rpc \in k0.rpcs, NEW a \in {"secret", "plain", "broken"}, NEW red,
             red = Unless(k0.request.redact, a, redact_rpc_reply(a)), red.ok,
             Write(c, sanitize_rpc_filename(rpc), red.payload),
             coll' = [coll EXCEPT ![c].rpcs = @ \ {rpc},
                        ![c].artefacts = @ \cup {CapturedArtefact(rpc, sanitize_rpc_filename(rpc), red.payload, "")},
                        ![c].redacted = @ \/ red.payload # a],
             UNCHANGED <<permit, staged>>
      PROVE  Inv'
  <2>1. k0.request \in Requests /\ k0.request.redact \in BOOLEAN /\ rpc \in Rpcs /\ k0.rpcs \subseteq Rpcs
    BY <1>1, BundleAssumption DEF Progress, CollRecords
  <2>2. /\ red.payload \in Payloads /\ (k0.request.redact => red.payload \in Safe)
        /\ red.payload # a <=> red.payload = "redacted"
    BY <1>4, <2>1, RedactionFacts
  <2>3. PICK art : art = CapturedArtefact(rpc, sanitize_rpc_filename(rpc), red.payload, "")
    OBVIOUS
  <2>4. sanitize_rpc_filename(rpc) \in Paths /\ sanitize_rpc_filename(rpc)[1] = "rpc"
    BY <2>1 DEF Paths, sanitize_rpc_filename
  <2>5. /\ art \in Artefacts /\ art.bytes /\ art.path = sanitize_rpc_filename(rpc)
        /\ art.sha256 = red.payload /\ art.path[1] = "rpc" /\ art.words = "plain"
    BY <2>1, <2>2, <2>3, <2>4 DEF CapturedArtefact, Artefacts
  <2>6. PICK k : k = [k0 EXCEPT !.rpcs = @ \ {rpc}, !.artefacts = @ \cup {art},
                                !.redacted = @ \/ red.payload # a]
    OBVIOUS
  <2>7. /\ k \in CollRecords /\ k.pc = "rpc" /\ k.artefacts = k0.artefacts \cup {art}
        /\ k.request = k0.request /\ k.rpcs = k0.rpcs \ {rpc} /\ k.logs = k0.logs
        /\ k.result = k0.result
        /\ k.captured = k0.captured /\ (k.redacted <=> (k0.redacted \/ art.sha256 = "redacted"))
    BY <1>1, <2>2, <2>5, <2>6 DEF CollRecords
  <2>8. PICK files : files = Put(scratch[c].files, art.path, art.sha256)
    OBVIOUS
  <2>9. /\ coll' = [coll EXCEPT ![c] = k] /\ scratch' = [scratch EXCEPT ![c].files = files]
    <3>1. coll' = [coll EXCEPT ![c] = k]
      BY <1>1, <1>4, <2>3, <2>6 DEF TypeInv
    <3>2. scratch' = [scratch EXCEPT ![c].files = files]
      BY <1>1, <1>4, <2>5, <2>8 DEF Write, Put, TypeInv
    <3> QED
      BY <3>1, <3>2
  <2>10. files \in FileMaps
    BY <1>1, <2>2, <2>4, <2>5, <2>8, PutFacts
  <2>11. \A b \in k0.artefacts : b.path # art.path
    BY <1>1, <2>5 DEF Progress
  <2>12. \A r \in k.rpcs : art.path # sanitize_rpc_filename(r)
    <3> SUFFICES ASSUME NEW r \in k0.rpcs, r # rpc, sanitize_rpc_filename(r) = sanitize_rpc_filename(rpc)
                 PROVE  FALSE
      BY <2>5, <2>7
    <3>1. r[1] = rpc[1] /\ r[2] = rpc[2]
      BY DEF sanitize_rpc_filename
    <3> QED
      BY <2>1, <3>1, RpcsArePairs
  <2>13. \A l \in k.logs : art.path # device_log_tarball_path(l)
    <3>1. \A l \in k.logs : device_log_tarball_path(l)[1] = "logs"
      BY DEF device_log_tarball_path
    <3> QED
      BY <2>5, <3>1
  <2>14. Progress(k, files)
    <3> HIDE DEF k0
    <3> QED
      BY <1>1, <2>2, <2>5, <2>7, <2>8, <2>11, <2>12, <2>13, ProgressWritten DEF SafeAt
  <2> QED
    BY <1>1, <1>4, <2>7, <2>9, <2>10, <2>14, CollectionGoesOn DEF UnderWay
<1> QED
  BY <1>2, <1>3, <1>4 DEF CaptureRpc

\* Each log has a path of its own.
LEMMA LogPaths ==
  \A l, m : device_log_tarball_path(l) = device_log_tarball_path(m) => l = m
<1>1. \A l : device_log_tarball_path(l)[2] = l
  BY DEF device_log_tarball_path
<1> QED
  BY <1>1

\* An entry for a log that was not written.
LEMMA LogRefused ==
  ASSUME Inv, NEW c \in Collections, coll[c].pc = "rpc", NEW log \in coll[c].logs,
         NEW error \in {"skipped", "unsafe", "device"}, NEW words \in {"plain", "secret"},
         words = "secret" => error = "device",
         coll' = [coll EXCEPT ![c].logs = @ \ {log},
            ![c].artefacts = @ \cup
               {RefusedArtefact(<<log, "">>, device_log_tarball_path(log), error, words)}],
         UNCHANGED <<permit, scratch, staged>>
  PROVE  Inv'
<1> DEFINE k0 == coll[c]
           files == scratch[c].files
<1>1. TypeInv /\ k0 \in CollRecords /\ Progress(k0, files) /\ files \in FileMaps
  BY DEF Inv, TypeInv, CollOk, UnderWay, ScratchRecords
<1>2. /\ Books(k0.request, k0.artefacts, files, LogsOf(k0.request) \ k0.logs) /\ log \in Logs
      /\ k0.logs \subseteq LogsOf(k0.request) /\ k0.logs \subseteq Logs
      /\ k0.artefacts \in SUBSET Artefacts
      /\ \A b \in k0.artefacts : b.path # device_log_tarball_path(log)
  BY <1>1 DEF Progress, CollRecords
<1>3. PICK art : art = RefusedArtefact(<<log, "">>, device_log_tarball_path(log), error, words)
  OBVIOUS
<1>4. /\ device_log_tarball_path(log) \in Paths /\ device_log_tarball_path(log)[1] = "logs"
  BY <1>2 DEF Paths, device_log_tarball_path
<1>5. /\ art \in Artefacts /\ art.bytes = FALSE /\ art.path = device_log_tarball_path(log)
      /\ art.path[1] = "logs" /\ art.source[1] = log /\ (art.words = "secret" => art.error = "device")
  BY <1>2, <1>3, <1>4 DEF RefusedArtefact, Artefacts
<1>6. PICK k : k = [k0 EXCEPT !.logs = @ \ {log}, !.artefacts = @ \cup {art}]
  OBVIOUS
<1>7. /\ k \in CollRecords /\ k.pc = "rpc" /\ k.artefacts = k0.artefacts \cup {art}
      /\ k.request = k0.request /\ k.rpcs = k0.rpcs /\ k.logs = k0.logs \ {log}
      /\ k.captured = k0.captured /\ k.redacted = k0.redacted /\ k.result = k0.result
  BY <1>1, <1>5, <1>6 DEF CollRecords
<1>8. coll' = [coll EXCEPT ![c] = k] /\ scratch' = [scratch EXCEPT ![c].files = files]
  BY <1>1, <1>3, <1>6 DEF TypeInv, ScratchRecords
<1>9. Progress(k, files)
  <2> DEFINE taken == LogsOf(k0.request) \ k0.logs
  <2>1. LogsOf(k.request) \ k.logs = taken \cup {art.source[1]}
    BY <1>2, <1>5, <1>7
  <2>2. /\ Books(k0.request, k0.artefacts \cup {art}, files, taken \cup {art.source[1]})
        /\ WrittenLogs(k0.artefacts \cup {art}) = WrittenLogs(k0.artefacts)
    <3> HIDE DEF k0, files
    <3> QED
      BY <1>2, <1>5, BooksRefused
  <2>3. \A r \in k.rpcs : art.path # sanitize_rpc_filename(r)
    <3>1. \A r \in k.rpcs : sanitize_rpc_filename(r)[1] = "rpc"
      BY DEF sanitize_rpc_filename
    <3> QED
      BY <1>5, <3>1
  <2>4. ASSUME NEW l \in k.logs PROVE art.path # device_log_tarball_path(l)
    <3>1. l \in Logs /\ l # log
      BY <1>2, <1>7
    <3> QED
      BY <1>2, <1>5, <3>1, LogPaths, Zenon
  <2> QED
    BY <1>1, <1>7, <2>1, <2>2, <2>3, <2>4 DEF Progress
<1> QED
  BY <1>1, <1>7, <1>8, <1>9, CollectionGoesOn DEF UnderWay

\* Counting.
LEMMA Successor == \A m \in Nat : m + 1 \in Nat
OBVIOUS

\* One log: an entry that says why it is not there, a file, or the end.
LEMMA LogInv ==
  ASSUME Inv, NEW c \in Collections, SkipLog(c) \/ CaptureLog(c)
  PROVE  Inv'
<1> DEFINE k0 == coll[c]
<1>1. /\ TypeInv /\ k0.pc = "rpc" /\ k0 \in CollRecords /\ Progress(k0, scratch[c].files)
      /\ scratch[c].files \in FileMaps /\ k0.rpcs = {}
  BY DEF Inv, TypeInv, CollOk, UnderWay, SkipLog, CaptureLog, ScratchRecords
<1>2. CASE Fail(c, "failed")
  BY <1>1, <1>2, FailInv DEF UnderWay
<1>3. ASSUME NEW log \in k0.logs, NEW error \in {"skipped", "unsafe", "device"},
             NEW words \in {"plain", "secret"}, words = "secret" => error = "device",
             coll' = [coll EXCEPT ![c].logs = @ \ {log},
               ![c].artefacts = @ \cup
                  {RefusedArtefact(<<log, "">>, device_log_tarball_path(log), error, words)}],
             UNCHANGED <<permit, scratch, staged>>
      PROVE  Inv'
  BY <1>1, <1>3, LogRefused
<1>4. ASSUME NEW log \in k0.logs, NEW a \in {"secret", "plain", "broken", "fragment"}, NEW red,
             NEW error \in {"truncated", ""}, k0.captured < k0.request.max_log_files,
             red = Unless(k0.request.redact, a, redact_log_artefact(a)), red.ok,
             Write(c, device_log_tarball_path(log), red.payload),
             coll' = [coll EXCEPT ![c].logs = @ \ {log}, ![c].captured = @ + 1,
                        ![c].artefacts = @ \cup {CapturedArtefact(<<log, "">>, device_log_tarball_path(log),
                                                                  red.payload, error)},
                        ![c].redacted = @ \/ red.payload # a],
             UNCHANGED <<permit, staged>>
      PROVE  Inv'
  <2>1. k0.request \in Requests /\ k0.request.redact \in BOOLEAN /\ log \in Logs
    BY <1>1, BundleAssumption DEF Progress, CollRecords
  <2>2. /\ red.payload \in Payloads
        /\ k0.request.redact => red.payload \in Safe \cup {"fragment"}
        /\ red.payload # a <=> red.payload = "redacted"
    BY <1>4, <2>1, RedactionFacts
  <2>3. PICK art : art = CapturedArtefact(<<log, "">>, device_log_tarball_path(log), red.payload, error)
    OBVIOUS
  <2>4. device_log_tarball_path(log) \in Paths /\ device_log_tarball_path(log)[1] = "logs"
    BY <2>1 DEF Paths, device_log_tarball_path
  <2>5. /\ art \in Artefacts /\ art.bytes /\ art.path = device_log_tarball_path(log)
        /\ art.sha256 = red.payload /\ art.path[1] = "logs" /\ art.source[1] = log
        /\ art.words = "plain"
    BY <2>1, <2>2, <2>3, <2>4 DEF CapturedArtefact, Artefacts
  <2>6. PICK k : k = [k0 EXCEPT !.logs = @ \ {log}, !.captured = @ + 1, !.artefacts = @ \cup {art},
                                !.redacted = @ \/ red.payload # a]
    OBVIOUS
  <2>7. /\ k \in CollRecords /\ k.pc = "rpc" /\ k.artefacts = k0.artefacts \cup {art}
        /\ k.request = k0.request /\ k.rpcs = {} /\ k.logs = k0.logs \ {log} /\ k.result = k0.result
        /\ k.captured = k0.captured + 1 /\ (k.redacted <=> (k0.redacted \/ art.sha256 = "redacted"))
    <3>0. k0.captured \in Nat
      BY <1>1 DEF CollRecords
    <3>1. k0.captured + 1 \in Nat
      BY <3>0, Successor, Zenon
    <3>2. PICK n \in Nat : n = k0.captured + 1
      BY <3>1, Zenon
    <3>3. k = [k0 EXCEPT !.logs = @ \ {log}, !.captured = n, !.artefacts = @ \cup {art},
                         !.redacted = @ \/ red.payload # a]
      BY <2>6, <3>1, <3>2
    <3> QED
      BY <1>1, <2>2, <2>5, <3>1, <3>2, <3>3 DEF CollRecords
  <2>8. PICK files : files = Put(scratch[c].files, art.path, art.sha256)
    OBVIOUS
  <2>9. /\ coll' = [coll EXCEPT ![c] = k] /\ scratch' = [scratch EXCEPT ![c].files = files]
    <3>1. coll' = [coll EXCEPT ![c] = k]
      BY <1>1, <1>4, <2>3, <2>6 DEF TypeInv
    <3>2. scratch' = [scratch EXCEPT ![c].files = files]
      BY <1>1, <1>4, <2>5, <2>8 DEF Write, Put, TypeInv
    <3> QED
      BY <3>1, <3>2
  <2>10. files \in FileMaps
    BY <1>1, <2>2, <2>4, <2>5, <2>8, PutFacts
  <2>11. \A b \in k0.artefacts : b.path # art.path
    BY <1>1, <2>5 DEF Progress
  <2>12. ASSUME NEW l \in k.logs PROVE art.path # device_log_tarball_path(l)
    <3>1. l # log
      BY <2>7
    <3> QED
      BY <2>5, <3>1, LogPaths, Zenon
  <2>13. Progress(k, files)
    <3> HIDE DEF k0
    <3> QED
      BY <1>1, <1>4, <2>2, <2>5, <2>7, <2>8, <2>11, <2>12, ProgressWritten DEF SafeAt
  <2> QED
    BY <1>1, <1>4, <2>7, <2>9, <2>10, <2>13, CollectionGoesOn DEF UnderWay
<1>5. CASE SkipLog(c)
  BY <1>3, <1>5 DEF SkipLog
<1>6. CASE CaptureLog(c)
  <2> DEFINE Answers == {"secret", "plain", "broken", "error", "absent", "long", "long_xml"}
  <2>1. PICK log \in k0.logs, a \in Answers :
        \E content \in truncate_to_char_boundary(a), words \in DeviceWords(a) :
           RecordLog(c, log, a, content, words)
    BY <1>6, Zenon DEF CaptureLog
  <2> DEFINE shown == a \notin {"error", "absent"}
             path == device_log_tarball_path(log)
  <2>2. k0.captured < k0.request.max_log_files
    BY <1>6 DEF CaptureLog
  <2>a. PICK content \in truncate_to_char_boundary(a), words \in DeviceWords(a) :
           RecordLog(c, log, a, content, words)
    BY <2>1, Zenon
  <2>3. PICK red, error :
        /\ red = Unless(k0.request.redact, content, redact_log_artefact(content))
        /\ error = CASE ~shown -> "device"
                     [] shown /\ ~red.ok -> "unsafe"
                     [] OTHER -> IF a \in {"long", "long_xml"} THEN "truncated" ELSE ""
        /\ \/ /\ shown /\ red.ok /\ Fail(c, "failed")
           \/ /\ ~shown \/ ~red.ok
              /\ coll' = [coll EXCEPT ![c].logs = @ \ {log},
                     ![c].artefacts = @ \cup {RefusedArtefact(<<log, "">>, path, error, words)}]
              /\ UNCHANGED <<permit, scratch, staged>>
           \/ /\ shown /\ red.ok
              /\ Write(c, path, red.payload)
              /\ coll' = [coll EXCEPT ![c].logs = @ \ {log}, ![c].captured = @ + 1,
                     ![c].artefacts = @ \cup {CapturedArtefact(<<log, "">>, path, red.payload, error)},
                     ![c].redacted = @ \/ red.payload # content]
              /\ UNCHANGED <<permit, staged>>
    BY <2>a, Zenon DEF RecordLog
  <2>4. shown => content \in {"secret", "plain", "broken", "fragment"}
    BY <2>1, <2>a DEF truncate_to_char_boundary
  <2>5. words \in {"plain", "secret"} /\ (words = "secret" => ~shown)
    BY <2>a DEF DeviceWords
  <2>6. /\ ~shown => error = "device"
        /\ shown /\ ~red.ok => error = "unsafe"
        /\ shown /\ red.ok => error \in {"truncated", ""}
    BY <2>3
  <2> HIDE DEF shown, path
  <2>7. CASE shown /\ red.ok /\ Fail(c, "failed")
    BY <1>2, <2>7
  <2>8. CASE /\ ~shown \/ ~red.ok
             /\ coll' = [coll EXCEPT ![c].logs = @ \ {log},
                    ![c].artefacts = @ \cup {RefusedArtefact(<<log, "">>, path, error, words)}]
             /\ UNCHANGED <<permit, scratch, staged>>
    <3>1. error \in {"skipped", "unsafe", "device"} /\ (words = "secret" => error = "device")
      BY <2>5, <2>6, <2>8
    <3> QED
      BY <1>3, <2>5, <2>8, <3>1 DEF path
  <2>9. CASE /\ shown /\ red.ok
             /\ Write(c, path, red.payload)
             /\ coll' = [coll EXCEPT ![c].logs = @ \ {log}, ![c].captured = @ + 1,
                    ![c].artefacts = @ \cup {CapturedArtefact(<<log, "">>, path, red.payload, error)},
                    ![c].redacted = @ \/ red.payload # content]
             /\ UNCHANGED <<permit, staged>>
    <3>1. content \in {"secret", "plain", "broken", "fragment"} /\ error \in {"truncated", ""}
      BY <2>4, <2>6, <2>9
    <3>2. red = Unless(k0.request.redact, content, redact_log_artefact(content))
      BY <2>3
    <3> QED
      BY <1>4, <2>2, <2>9, <3>1, <3>2 DEF path
  <2> QED
    BY <2>3, <2>7, <2>8, <2>9
<1> QED
  BY <1>5, <1>6

\* The archive: all of it, or what could not be removed; and the drop at an await.
LEMMA EndInv ==
  ASSUME Inv, NEW c \in Collections, finalize_lxc_bundle(c) \/ Cancel(c)
  PROVE  Inv'
<1> DEFINE whole == [present |-> TRUE, files |-> scratch[c].files, manifest |-> coll[c].artefacts]
<1>1. CASE Cancel(c)
  BY <1>1, FailInv DEF Cancel, UnderWay
<1>2. CASE finalize_lxc_bundle(c)
  <2>1. coll[c].pc \in UnderWay
    BY <1>2 DEF finalize_lxc_bundle, UnderWay
  <2>2. coll[c].logs = {}
    BY <1>2, <2>1 DEF finalize_lxc_bundle, Inv, CollOk, Progress
  <2>3. PICK confined \in BOOLEAN, archive \in write_bundle_archive(c) :
          IF confined
          THEN Drop(c, archive.ok, archive.tarball, IF archive.ok THEN "ok" ELSE "failed")
          ELSE Fail(c, "failed")
    BY <1>2 DEF finalize_lxc_bundle, ensure_confined
  <2>4. scratch[c].files \in FileMaps /\ coll[c].artefacts \in SUBSET Artefacts
    BY DEF Inv, TypeInv, ScratchRecords, CollRecords
  <2>5. PICK partial : partial = [whole EXCEPT !.files = NoFiles]
    OBVIOUS
  <2>6. /\ whole \in Tarballs /\ whole.present /\ whole.files = scratch[c].files
        /\ whole.manifest = coll[c].artefacts
    BY <2>4 DEF Tarballs
  <2>7. /\ partial \in Tarballs /\ partial.files = NoFiles /\ partial.manifest = coll[c].artefacts
    BY <2>4, <2>5, EmptyOk DEF Tarballs
  <2> HIDE DEF whole
  <2>8. \/ archive = [ok |-> TRUE, tarball |-> whole]
        \/ \E tarball \in {NoTarball, partial, whole} : archive = [ok |-> FALSE, tarball |-> tarball]
    BY <2>3, <2>5 DEF write_bundle_archive, whole
  <2>9. CASE ~confined
    BY <2>1, <2>3, <2>9, FailInv
  <2>10. ASSUME NEW tarball \in {NoTarball, partial, whole},
                archive = [ok |-> FALSE, tarball |-> tarball], confined
         PROVE  Inv'
    <3>1. Drop(c, FALSE, tarball, "failed")
      BY <2>3, <2>10
    <3>2. /\ tarball \in Tarballs /\ tarball.files \in {NoFiles, scratch[c].files}
          /\ tarball.manifest \in {{}, coll[c].artefacts}
      BY <2>6, <2>7, <2>10, EmptyOk
    <3> QED
      BY <2>1, <3>1, <3>2, DropInv
  <2>11. CASE confined /\ archive = [ok |-> TRUE, tarball |-> whole]
    <3>1. Drop(c, TRUE, whole, "ok")
      BY <2>3, <2>11
    <3> QED
      BY <2>1, <2>2, <2>6, <3>1, DropInv
  <2> QED
    BY <2>3, <2>8, <2>9, <2>10, <2>11
<1> QED
  BY <1>1, <1>2

-----------------------------------------------------------------------------
(* Theorems *)

\* Every state of any number of collections keeps each manifest in step with its files,
\* and each router's permit with the one collection under way on it.  (The inductive
\* invariant behind the next three.)
THEOREM BundlesAreConsistent == BundleSpec => []Inv
<1>1. BundleInit => Inv
  <2> SUFFICES ASSUME BundleInit PROVE Inv
    OBVIOUS
  <2>1. /\ permit = [r \in Routers |-> NoOne] /\ coll = [c \in Collections |-> Idle]
        /\ scratch = [c \in Collections |-> Clean] /\ staged = [c \in Collections |-> NoTarball]
    BY DEF BundleInit, Clean
  <2>2. Idle \in CollRecords /\ Idle.pc = "new" /\ Idle.stuck = {} /\ Idle.result = ""
    BY DEF Idle, CollRecords
  <2>3. TypeInv
    BY <2>1, <2>2, EmptyOk DEF TypeInv
  <2>4. PermitInv
    BY <2>1, <2>2 DEF PermitInv, UnderWay
  <2>5. CollOk(Idle, Clean, NoTarball)
    BY <2>2 DEF CollOk, UnderWay
  <2> QED
    BY <2>1, <2>3, <2>4, <2>5 DEF Inv
<1>2. Inv /\ [BundleNext]_bundleVars => Inv'
  <2> SUFFICES ASSUME Inv, [BundleNext]_bundleVars PROVE Inv'
    OBVIOUS
  <2>1. ASSUME NEW c \in Collections, BundleStep(c) PROVE Inv'
    BY <2>1, RunInv, GenericInv, CaptureRpcInv, LogInv, EndInv DEF BundleStep
  <2>2. CASE UNCHANGED bundleVars
    <3>1. UNCHANGED <<permit, coll, scratch, staged>>
      BY <2>2 DEF bundleVars
    <3>2. \A c \in Collections : CollOk(coll[c], scratch[c], staged[c])'
      <4> SUFFICES ASSUME NEW c \in Collections PROVE CollOk(coll'[c], scratch'[c], staged'[c])
        BY DEF CollOk, Progress, Books, SafeFiles, SafeAt, SafeWords
      <4> QED
        BY <3>1 DEF Inv
    <3> QED
      BY <3>1, <3>2 DEF Inv, TypeInv, PermitInv
  <2> QED
    BY <2>1, <2>2 DEF BundleNext
<1> QED
  BY <1>1, <1>2, PTL DEF BundleSpec

\* The bundles of a state that the invariant holds in.
LEMMA KeptFacts ==
  ASSUME Inv, NEW c \in Kept
  PROVE  /\ coll[c].request \in Requests /\ coll[c].redacted \in BOOLEAN
         /\ Books(coll[c].request, staged[c].manifest, staged[c].files, LogsOf(coll[c].request))
         /\ coll[c].redacted <=> AnyRedacted(staged[c].files)
<1>1. c \in Collections /\ coll[c].result = "ok" /\ CollOk(coll[c], scratch[c], staged[c])
  BY DEF Kept, Inv
<1>2. coll[c] \in CollRecords /\ coll[c].redacted \in BOOLEAN
  BY <1>1 DEF Inv, TypeInv, CollRecords
<1>3. coll[c].pc = "over"
  BY <1>1 DEF CollOk
<1> QED
  BY <1>1, <1>2, <1>3 DEF CollOk

\* For any requests, devices and interleavings, no file that a collection with redact writes
\* holds a readable credential (redact_rpc_reply and redact_log_artefact fail closed), apart
\* from what the size cap cut in a log; the manifest adds the words of a device that would not
\* show a log, and nothing else.
THEOREM BundlesAreRedacted == BundleSpec => []NoSecretShips
<1>1. ASSUME Inv PROVE NoSecretShips
  <2> SUFFICES ASSUME NEW c \in Collections, coll[c].pc # "new", coll[c].request.redact
               PROVE  /\ \A files \in {scratch[c].files, staged[c].files} : \A p \in DOMAIN files :
                           files[p] \in {"plain", "redacted"} \/ (files[p] = "fragment" /\ p[1] = "logs")
                      /\ \A a \in staged[c].manifest :
                           a.words = "secret" => a.path[1] = "logs" /\ a.error = "device"
    BY DEF NoSecretShips
  <2>1. CollOk(coll[c], scratch[c], staged[c]) /\ coll[c] \in CollRecords
    BY <1>1 DEF Inv, TypeInv
  <2>2. /\ SafeFiles(coll[c].request, scratch[c].files)
        /\ SafeFiles(coll[c].request, staged[c].files) /\ SafeWords(staged[c].manifest)
    <3>1. CASE coll[c].pc \in UnderWay
      <4>1. SafeFiles(coll[c].request, scratch[c].files)
        BY <2>1, <3>1 DEF CollOk, Progress, Books
      <4>2. staged[c] = NoTarball
        BY <2>1, <3>1 DEF CollOk, UnderWay
      <4> QED
        BY <4>1, <4>2, EmptyOk
    <3>2. CASE coll[c].pc = "over"
      BY <2>1, <3>2 DEF CollOk
    <3> QED
      BY <2>1, <3>1, <3>2 DEF CollRecords, UnderWay
  <2> QED
    BY <2>2 DEF SafeFiles, SafeAt, SafeWords, Safe
<1> QED
  BY <1>1, BundlesAreConsistent, PTL

\* For any requests, devices and interleavings, a manifest tells exactly what its archive
\* holds (CapturedArtefact, sanitize_rpc_filename, device_log_tarball_path).
THEOREM ManifestsAreExact == BundleSpec => []ManifestIsExact
<1>1. ASSUME Inv PROVE ManifestIsExact
  <2> SUFFICES ASSUME NEW c \in Kept
               PROVE  LET files == staged[c].files
                          written == {a \in staged[c].manifest : a.bytes}
                      IN /\ DOMAIN files = {a.path : a \in written}
                         /\ \A a, b \in staged[c].manifest : a.path = b.path => a = b
                         /\ \A a \in written : a.sha256 = files[a.path]
                         /\ coll[c].redacted = (\E p \in DOMAIN files : files[p] = "redacted")
                         /\ {a.source[1] : a \in {b \in staged[c].manifest : b.path[1] = "logs"}}
                              = LogsOf(coll[c].request)
                         /\ Cardinality({a \in written : a.path[1] = "logs"}) <= coll[c].request.max_log_files
    BY DEF ManifestIsExact
  <2>1. /\ coll[c].redacted \in BOOLEAN
        /\ Books(coll[c].request, staged[c].manifest, staged[c].files, LogsOf(coll[c].request))
        /\ coll[c].redacted <=> AnyRedacted(staged[c].files)
    BY <1>1, KeptFacts
  <2>2. coll[c].redacted = (\E p \in DOMAIN staged[c].files : staged[c].files[p] = "redacted")
    BY <2>1 DEF AnyRedacted
  <2> QED
    BY <2>1, <2>2 DEF Books, Written, LogEntries, WrittenLogs
<1> QED
  BY <1>1, BundlesAreConsistent, PTL

\* For any number of collections, one that is over has given its permit back and, as far as
\* the file system let it, dropped its scratch directory and left a tarball exactly when it
\* answered ok (PreparedBundlePaths::drop).
THEOREM CollectionsCleanUp == BundleSpec => []NothingLeftBehind
<1>1. ASSUME Inv PROVE NothingLeftBehind
  <2> SUFFICES ASSUME NEW c \in Collections
               PROVE  /\ coll[c].pc = "over" =>
                           /\ "scratch" \notin coll[c].stuck =>
                                ~scratch[c].made /\ scratch[c].files = NoFiles
                           /\ staged[c].present = (coll[c].result = "ok" \/ "tarball" \in coll[c].stuck)
                           /\ c \notin {permit[r] : r \in Routers}
                      /\ coll[c].pc \notin {"new", "over"} => permit[coll[c].request.router] = c
    BY DEF NothingLeftBehind
  <2>1. CollOk(coll[c], scratch[c], staged[c]) /\ PermitInv /\ coll[c] \in CollRecords
        /\ staged[c].present \in BOOLEAN
    BY <1>1 DEF Inv, TypeInv, Tarballs
  <2>2. CASE coll[c].pc = "over"
    <3>1. /\ "scratch" \notin coll[c].stuck => scratch[c] = Clean
          /\ staged[c].present <=> (coll[c].result = "ok" \/ "tarball" \in coll[c].stuck)
      BY <2>1, <2>2 DEF CollOk
    <3>2. "scratch" \notin coll[c].stuck => ~scratch[c].made /\ scratch[c].files = NoFiles
      BY <3>1 DEF Clean
    <3>3. ASSUME NEW r \in Routers, permit[r] = c PROVE FALSE
      <4>1. c # NoOne
        BY BundleAssumption
      <4> QED
        BY <2>1, <2>2, <3>3, <4>1 DEF PermitInv, UnderWay
    <3>4. staged[c].present = (coll[c].result = "ok" \/ "tarball" \in coll[c].stuck)
      BY <2>1, <3>1
    <3> QED
      BY <2>2, <3>2, <3>3, <3>4
  <2>3. CASE coll[c].pc # "over"
    <3>1. coll[c].pc \in {"new", "generic", "rpc", "finalize", "over"}
      BY <2>1 DEF CollRecords
    <3> QED
      BY <2>1, <2>3, <3>1 DEF PermitInv, UnderWay
  <2> QED
    BY <2>2, <2>3
<1> QED
  BY <1>1, BundlesAreConsistent, PTL
=============================================================================
