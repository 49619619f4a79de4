------------------------------ MODULE Transfer ------------------------------
(***************************************************************************)
(* One submission's bytes: pulled from the private bucket onto the serving *)
(* host and verified (store.fetch_submission, HostTrees.fetch), and after  *)
(* a coronation published from there (promote_submission, HostTrees.upload).*)
(*                                                                         *)
(* The controller decides; a script on the serving host moves the bytes    *)
(* and reports.  When the controller dies or its runner fails the script   *)
(* does not: it goes on until it notices, so a script of an earlier        *)
(* attempt writes to the tree, or to a multipart upload, that a later one  *)
(* is using.                                                               *)
(*                                                                         *)
(* Of an object or a file only this matters: it is the committed bytes     *)
(* ("right"), other bytes of the committed size ("wrong"), or of another   *)
(* size ("short").  A path that corrupts never corrupts twice the same way.*)
(* A file is one part.                                                     *)
(***************************************************************************)
EXTENDS Integers, FiniteSets, None

CONSTANTS
  Files,       \* the files of the committed manifest
  Attempts,    \* FETCH_ATTEMPTS
  MaxFaults,   \* failed, cut or corrupted transfers, runs and calls
  MaxCrashes   \* deaths of the controller

ASSUME AttemptsAssumption == Attempts \in Nat /\ Attempts >= 2

VARIABLES
  bucket,     \* what the miner left: file -> object, and whether the rest of it is in order
  tree,       \* the host's disk, final names: file -> bytes
  marker,     \* <tree>.verified
  verdict,    \* the controller's: NONE, "refused"
  pc, job,    \* the controller, and the script it is listening to
  orphans,    \* scripts nobody listens to any more
  public,     \* the public prefix: file -> object
  named,      \* manifest.json is in the public prefix
  uploads,    \* open multipart uploads: id -> the part it holds
  mine,       \* file -> the upload this promotion created for it
  tries, faults, crashes

transferVars == <<bucket, tree, marker, verdict, pc, job, orphans, public, named, uploads, mine,
          tries, faults, crashes>>
prefix == <<public, named, uploads>>

Objects == {"right", "wrong", "short", "absent"}
ASSUME NothingAssumption == NONE \notin Objects \cup {"refused"}
NoUploads == [id \in {} |-> NONE]
NoneMine == [f \in Files |-> NONE]

TransferInit ==
  /\ bucket \in [object : [Files -> Objects], orderly : BOOLEAN]
  /\ tree = [f \in Files |-> "wrong"]  \* what an older downloader left
  /\ marker = FALSE /\ verdict = NONE
  /\ pc = "idle" /\ job = NONE /\ orphans = {}
  /\ public = [f \in Files |-> NONE] /\ named = FALSE
  /\ uploads = NoUploads /\ mine = NoneMine
  /\ tries = 0 /\ faults = 0 /\ crashes = 0

Fault(n) == faults' = faults + n /\ faults' <= MaxFaults

-----------------------------------------------------------------------------
(***************************************************************************)
(* Fetching.  The manifest, its signature and the listing are judged       *)
(* before a byte moves.                                                    *)
(***************************************************************************)
ListingRefuses == ~bucket.orderly \/ \E f \in Files : bucket.object[f] \in {"absent", "short"}

Script(kind, files, ids) == [kind |-> kind, report |-> [f \in files |-> "todo"], ids |-> ids]

StartFetch ==
  /\ pc = "idle" /\ verdict = NONE /\ ~marker
  /\ IF ListingRefuses
     THEN verdict' = "refused" /\ UNCHANGED <<pc, job>>
     ELSE pc' = "fetching" /\ job' = Script("fetch", Files, NONE) /\ UNCHANGED verdict
  /\ UNCHANGED <<bucket, tree, marker, orphans, prefix, mine, tries, faults, crashes>>

\* What download i of f brings: the object, or a fault's bytes, or nothing.
Downloads == {"object", "garbled", "cut", "failed"}
Seen(f, download, i) ==
  CASE download = "object" -> <<bucket.object[f], 0>>
    [] download = "garbled" -> <<"wrong", i>>
    [] download = "cut" -> <<"short", 0>>
    [] download = "failed" -> <<NONE, 0>>

FaultsOf(downloads) == Cardinality({i \in DOMAIN downloads : downloads[i] # "object"})

\* fetch_one: keep what is there and right; else stop at the first right download, or at the first
\* that agrees with the last one that arrived; anything else is no evidence.
MismatchAtOnce(seen, i) == seen[i][1] # NONE
Mismatch(seen, i) ==
  /\ seen[i][1] # NONE
  /\ \E j \in 1..i - 1 : /\ seen[j] = seen[i]
                         /\ \A k \in j + 1..i - 1 : seen[k][1] = NONE

FetchOutcome(seen) ==
  LET right == {i \in 1..Attempts : seen[i][1] = "right"}
      ends == right \cup {i \in 1..Attempts : Mismatch(seen, i)}
      end == CHOOSE i \in ends : \A j \in ends : i <= j
  IN IF ends # {} THEN IF seen[end][1] = "right" THEN "fetched"
                       ELSE IF seen[end][1] = "wrong" THEN "mismatch" ELSE "cut"
     ELSE "failed"

\* What the script leaves under the final name: a download is renamed there once it is right.
LandsAsItComes(f, seen) ==
  IF \E i \in 1..Attempts : seen[i][1] = "right" THEN "right" ELSE "wrong"
Lands(f, seen) == IF FetchOutcome(seen) = "fetched" THEN "right" ELSE tree[f]

\* The look at what is there and the downloads are two steps.
Pulls(f) ==
  {downloads \in [1..Attempts -> Downloads] : faults + FaultsOf(downloads) <= MaxFaults}

FetchOutcomes(script, f) ==
  IF script.report[f] = "todo" THEN {IF tree[f] = "right" THEN "kept" ELSE "pulling"}
  ELSE IF script.report[f] = "pulling" THEN {"fetched", "mismatch", "cut", "failed"} ELSE {}

FetchOne(script, f, outcome) ==
  /\ script.kind = "fetch" /\ outcome \in FetchOutcomes(script, f)
  /\ IF script.report[f] = "todo"
     THEN UNCHANGED <<tree, faults>>
     ELSE \E downloads \in Pulls(f) :
            LET seen == [i \in 1..Attempts |-> Seen(f, downloads[i], i)] IN
            /\ outcome = FetchOutcome(seen)
            /\ Fault(FaultsOf(downloads))
            /\ tree' = [tree EXCEPT ![f] = Lands(f, seen)]
  /\ UNCHANGED <<bucket, marker, verdict, pc, prefix, mine, tries, crashes>>

Finished == job # NONE /\ \A f \in DOMAIN job.report : job.report[f] \notin {"todo", "pulling", "hashed"}

\* _judge_fetch, evidence first; then _settle through the mount, and the marker.
FetchAnswers ==
  /\ pc = "fetching" /\ Finished
  /\ pc' = "idle" /\ job' = NONE
  /\ \/ /\ \E f \in Files : job.report[f] = "mismatch"
        /\ verdict' = "refused" /\ UNCHANGED <<marker, faults>>
     \/ /\ \A f \in Files : job.report[f] # "mismatch"
        /\ \E f \in Files : job.report[f] \notin {"kept", "fetched"}
        /\ UNCHANGED <<verdict, marker, faults>>
     \/ /\ \A f \in Files : job.report[f] \in {"kept", "fetched"}
        /\ marker' = TRUE /\ UNCHANGED <<verdict, faults>>
     \/ /\ \A f \in Files : job.report[f] \in {"kept", "fetched"}
        /\ Fault(1) /\ UNCHANGED <<verdict, marker>>
  /\ UNCHANGED <<bucket, tree, orphans, prefix, mine, tries, crashes>>

-----------------------------------------------------------------------------
(***************************************************************************)
(* Publishing.  What is in place is skipped; uploads that an earlier       *)
(* promotion left open are aborted before new ones are created.            *)
(***************************************************************************)
Abort(ids) == [id \in DOMAIN uploads \ ids |-> uploads[id]]

Inherited == Abort(DOMAIN uploads)

Publishable == {f \in Files : public[f] = NONE}

\* in_place raises on an object at another size or digest than the manifest's.
InPlaceOnly(object) == object = NONE
InPlace(object) == object \in {NONE, "right", "garbled"}

StartPromotion ==
  /\ pc = "idle" /\ marker /\ ~named
  /\ \A f \in Files : InPlace(public[f])
  /\ uploads' = Inherited
  /\ mine' = NoneMine
  /\ tries' = tries + 1
  /\ pc' = IF Publishable = {} THEN "naming" ELSE "creating"
  /\ UNCHANGED <<bucket, tree, marker, verdict, job, orphans, public, named, faults, crashes>>

Create(f) ==
  /\ pc = "creating" /\ f \in Publishable /\ mine[f] = NONE
  /\ mine' = [mine EXCEPT ![f] = <<f, tries>>]
  /\ uploads' = [id \in DOMAIN uploads \cup {<<f, tries>>} |->
                   IF id = <<f, tries>> THEN NONE ELSE uploads[id]]
  /\ UNCHANGED <<bucket, tree, marker, verdict, pc, job, orphans, public, named, tries, faults, crashes>>

StartUpload ==
  /\ pc = "creating" /\ \A f \in Publishable : mine[f] # NONE
  /\ pc' = "uploading"
  /\ job' = Script("upload", Publishable, mine)
  /\ UNCHANGED <<bucket, tree, marker, verdict, orphans, prefix, mine, tries, faults, crashes>>

\* hash_one, for every file before any part moves; a file that cannot be read fails the run.
HashOne(script, f, outcome) ==
  /\ script.kind = "upload" /\ script.report[f] = "todo"
  /\ outcome = IF tree[f] = "right" THEN "hashed" ELSE "mismatch"
  /\ UNCHANGED <<bucket, tree, marker, verdict, pc, prefix, mine, tries, faults, crashes>>

\* put_part: the bytes land in the upload if it is still open, and the ETag says which landed.
PutPart(script, f, outcome) ==
  /\ script.kind = "upload" /\ script.report[f] = "hashed"
  /\ \A g \in DOMAIN script.report : script.report[g] # "todo"
  /\ \/ /\ script.ids[f] \in DOMAIN uploads
        /\ \/ outcome = "sent" /\ uploads' = [uploads EXCEPT ![script.ids[f]] = tree[f]]
              /\ UNCHANGED faults
           \/ outcome = "garbled" /\ uploads' = [uploads EXCEPT ![script.ids[f]] = "garbled"]
              /\ Fault(1)
           \/ outcome = "unsent" /\ UNCHANGED uploads /\ Fault(1)
     \/ /\ script.ids[f] \notin DOMAIN uploads
        /\ outcome = "unsent" /\ UNCHANGED <<uploads, faults>>
  /\ UNCHANGED <<bucket, tree, marker, verdict, pc, public, named, mine, tries, crashes>>

\* The parts of these files may be completed: every ETag is the MD5 of what was read.
Completable(report) == report = "sent"

\* Its own uploads that it did not complete, aborted on the way out; an abort that fails is ignored.
Leave ==
  /\ pc' = "idle" /\ job' = NONE /\ mine' = NoneMine
  /\ \/ uploads' = Abort({mine[f] : f \in Files}) /\ UNCHANGED faults
     \/ Fault(1) /\ UNCHANGED uploads

UploadAnswers ==
  /\ pc = "uploading" /\ Finished
  /\ IF \E f \in DOMAIN job.report : job.report[f] = "mismatch"
     THEN Leave
     ELSE pc' = "completing" /\ UNCHANGED <<job, mine, uploads, faults>>
  /\ UNCHANGED <<bucket, tree, marker, verdict, orphans, public, named, tries, crashes>>

ToComplete == {f \in DOMAIN job.report : Completable(job.report[f]) /\ mine[f] # NONE}

Complete(f) ==
  /\ pc = "completing" /\ f \in ToComplete
  /\ mine[f] \in DOMAIN uploads
  /\ public' = [public EXCEPT ![f] = uploads[mine[f]]]
  /\ uploads' = Abort({mine[f]})
  /\ mine' = [mine EXCEPT ![f] = NONE]
  /\ UNCHANGED <<bucket, tree, marker, verdict, pc, job, orphans, named, tries, faults, crashes>>

\* The call that completes an upload raises, before or after the bucket did it.
CompleteRaises(f) ==
  /\ pc = "completing" /\ f \in ToComplete /\ mine[f] \in DOMAIN uploads
  /\ Fault(1)
  /\ public' \in {public, [public EXCEPT ![f] = uploads[mine[f]]]}
  /\ uploads' = Abort({mine[g] : g \in Files})
  /\ pc' = "idle" /\ job' = NONE /\ mine' = NoneMine
  /\ UNCHANGED <<bucket, tree, marker, verdict, orphans, named, tries, crashes>>

Completed ==
  /\ pc = "completing" /\ ToComplete = {}
  /\ IF \E f \in DOMAIN job.report : ~Completable(job.report[f])
     THEN Leave
     ELSE pc' = "naming" /\ job' = NONE /\ UNCHANGED <<mine, uploads, faults>>
  /\ UNCHANGED <<bucket, tree, marker, verdict, orphans, public, named, tries, crashes>>

PutManifest ==
  /\ pc = "naming"
  /\ named' = TRUE /\ pc' = "idle"
  /\ UNCHANGED <<bucket, tree, marker, verdict, job, orphans, public, uploads, mine, tries, faults, crashes>>

-----------------------------------------------------------------------------
HostStep(script, f, outcome) ==
  FetchOne(script, f, outcome) \/ HashOne(script, f, outcome) \/ PutPart(script, f, outcome)

Outcomes == {"kept", "pulling", "fetched", "mismatch", "cut", "failed", "hashed", "sent", "garbled", "unsent"}
After(script, f, outcome) == [script EXCEPT !.report[f] = outcome]

JobWorks ==
  /\ job # NONE /\ pc \in {"fetching", "uploading"}
  /\ \E f \in DOMAIN job.report, outcome \in Outcomes :
       HostStep(job, f, outcome) /\ job' = After(job, f, outcome)
  /\ UNCHANGED orphans

OrphanWorks ==
  /\ \E script \in orphans : \E f \in DOMAIN script.report, outcome \in Outcomes :
       /\ HostStep(script, f, outcome)
       /\ orphans' = (orphans \ {script}) \cup {After(script, f, outcome)}
  /\ UNCHANGED job

OrphanStops ==
  /\ \E script \in orphans : orphans' = orphans \ {script}
  /\ UNCHANGED <<bucket, tree, marker, verdict, pc, job, prefix, mine, tries, faults, crashes>>

Abandoned == IF job = NONE \/ pc \notin {"fetching", "uploading"} THEN orphans ELSE orphans \cup {job}

\* The runner times out, or its output is cut or unreadable: the script may live on.
RunnerFails ==
  /\ pc \in {"fetching", "uploading"} /\ faults < MaxFaults
  /\ orphans' = Abandoned
  /\ pc' = "idle" /\ job' = NONE /\ mine' = NoneMine
  /\ uploads' = Abort({mine[f] : f \in Files})
  /\ faults' = faults + 1
  /\ UNCHANGED <<bucket, tree, marker, verdict, public, named, tries, crashes>>

Crash ==
  /\ pc # "idle" /\ crashes < MaxCrashes
  /\ crashes' = crashes + 1
  /\ orphans' = Abandoned
  /\ pc' = "idle" /\ job' = NONE /\ mine' = NoneMine
  /\ UNCHANGED <<bucket, tree, marker, verdict, prefix, tries, faults>>

Controller ==
  \/ StartFetch \/ FetchAnswers \/ StartPromotion \/ StartUpload \/ UploadAnswers
  \/ Completed \/ PutManifest
  \/ \E f \in Files : Create(f) \/ Complete(f)

TransferNext ==
  \/ Controller \/ JobWorks \/ OrphanWorks \/ OrphanStops \/ RunnerFails \/ Crash
  \/ \E f \in Files : CompleteRaises(f)

TransferSpec == TransferInit /\ [][TransferNext]_transferVars
TransferFairSpec == TransferSpec /\ WF_transferVars(Controller) /\ WF_transferVars(JobWorks)

-----------------------------------------------------------------------------
\* A submission is refused for what the miner uploaded, never for what the transfer did to it
\* (fetch_submission, _judge_fetch: "one bad read on a flaky path must not spend a shot").
RefusedIsTheMiners ==
  verdict = "refused" => ~bucket.orderly \/ \E f \in Files : bucket.object[f] # "right"

\* Whatever says that bytes are the judged ones is true and stays true, whatever an earlier
\* attempt's script is still doing: the marker beside a tree, and manifest.json under a prefix
\* (fetch_one's rename, _verified; promote_submission, HostTrees.upload).
MarkedIsJudged ==
  /\ marker => \A f \in Files : tree[f] = "right"
  /\ named => \A f \in Files : public[f] = "right"

\* A sound submission is verified and can be published, however an attempt was cut: what one leaves
\* behind never stops the next (in_place, _verified, open_multipart).
Sound == bucket.orderly /\ \A f \in Files : bucket.object[f] = "right"
SoundIsPublished == Sound => <>named
=============================================================================
