------------------------------ MODULE MCFiles ------------------------------
(* Two calls at a time, in mixes that share a router, a lease or a file.   *)
EXTENDS UpgradeJunos

CONSTANTS x, y, r1, r2, r3, c1, c2, v1, v2

img  == <<"a">>
log  == <<"b">>
dots == <<"a", ".", ".", "b">>

\* c2 is the image to install: staged, not on r1 yet; r2 holds the old one.
MCInitStaged == [n \in {img, log} |-> IF n = img THEN c2 ELSE NoFile]
MCInitRemote ==
    [f \in {r1, r2, r3} \X {img, log} |->
        CASE f = <<r1, img>> -> NoFile
          [] f = <<r1, log>> -> c1
          [] f = <<r2, img>> -> c1
          [] f = <<r2, log>> -> c2
          [] OTHER -> NoFile]
MCStorage ==
    [r \in {r1, r2, r3} |->
        CASE r = r1 -> <<[mount |-> "/.mount", avail |-> 1], [mount |-> "/.mount/var", avail |-> 9]>>
          [] r = r2 -> <<[mount |-> "/.mount", avail |-> 4]>>
          [] OTHER -> <<[mount |-> "/packages", avail |-> 9]>>]
MCSize == [c \in {c1, c2, Cut} |-> 2]
MCCarries == [c \in {c1, c2} |-> IF c = c1 THEN v1 ELSE v2]
MCInitVersion == [r \in {r1, r2, r3} |-> v1]
MCAuthority == [r \in {r1, r2, r3} |-> IF r = r3 THEN "mist" ELSE "unknown"]
MCNameRank == [n \in {img, log} |-> IF n = img THEN 1 ELSE 2]

Ask(tool, r, name, local, force, verify, confirm) ==
    [tool |-> tool, router |-> r, name |-> name, local |-> local, force |-> force,
     verify |-> verify, target |-> v2, confirm |-> confirm]
Transfer(r, n, force, verify) == Ask("transfer_file", r, n, n, force, verify, TRUE)
Fetch(r, n, l, force, verify) == Ask("fetch_file", r, n, l, force, verify, TRUE)
Upgrade(r, confirm) == Ask("upgrade_junos", r, img, img, FALSE, TRUE, confirm)
List == Ask("list_staged_files", r1, img, img, FALSE, FALSE, TRUE)
Two(p, q) == [c \in {x, y} |-> IF c = x THEN p ELSE q]

MCScenarios ==
    {Two(Upgrade(r1, TRUE), Upgrade(r1, TRUE)),
     Two(Upgrade(r1, TRUE), Transfer(r1, img, TRUE, TRUE)),
     Two(Upgrade(r1, TRUE), Fetch(r2, img, img, TRUE, TRUE)),
     Two(Upgrade(r1, FALSE), Upgrade(r2, TRUE)),
     Two(Upgrade(r3, TRUE), Transfer(r3, img, FALSE, TRUE)),
     Two(Fetch(r1, log, log, TRUE, TRUE), Fetch(r1, log, log, FALSE, FALSE)),
     Two(Fetch(r1, log, log, TRUE, FALSE), Fetch(r2, img, img, FALSE, TRUE)),
     Two(Transfer(r2, img, TRUE, FALSE), Fetch(r2, img, log, TRUE, TRUE)),
     Two(Transfer(r2, img, TRUE, TRUE), Transfer(r2, img, FALSE, TRUE)),
     Two(List, Fetch(r1, log, log, TRUE, TRUE)),
     Two(Transfer(r1, dots, TRUE, TRUE), Fetch(r1, img, dots, TRUE, TRUE))}

\* Two routers' files fetched under one local name.
SharedNameScenarios ==
    {Two(Fetch(r1, log, log, TRUE, TRUE), Fetch(r2, log, log, TRUE, TRUE))}
=============================================================================
