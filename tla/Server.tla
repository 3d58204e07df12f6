------------------------------- MODULE Server -------------------------------
(***************************************************************************)
(* The HTTP server of crates/wikiwho-server: the request handlers          *)
(* (handlers/rev_content.rs, handlers/whocolor.rs) between their awaits,   *)
(* the shared AppState (state.rs) and the cache-miss tasks it spawns.      *)
(*                                                                         *)
(* Revision n of a page is the n-th; Spam lists those analyse_revision     *)
(* takes for vandalism.  disk[p] = n stands for a snapshot of the          *)
(* revisions 1..n, 0 for none.  A page has one canonical title, the one    *)
(* MediaWiki echoes and meta.json keeps; a request may come with another   *)
(* spelling of it.  A snapshot and its sidecar entries are written in one  *)
(* step here: SnapshotStore has the files.                                 *)
(***************************************************************************)
EXTENDS Integers, FiniteSets, FiniteSetsExt

CONSTANTS
  Page,
  Request,              \* request handlers at work at the same time
  Endpoint,             \* the endpoints requests come to
  Alias,                \* the spellings: FALSE the canonical title, TRUE another
  Spam,                 \* Spam[p]: the revisions of p analysed as vandalism
  MaxRevision,          \* bound: revisions of one page
  MaxFailures,          \* bound: failures of MediaWiki and of writes
  LongErrors            \* may MediaWiki answer with an error page that panics
                        \* truncate (MwClient, FailsWithBody)?

ByRevision == {"rev_id", "title_rev", "whocolor_rev"}
ByTitle    == {"title", "title_rev", "whocolor", "whocolor_rev"}
WhoColor   == {"whocolor", "whocolor_rev"}
Endpoints  == {"rev_id", "page_id"} \cup ByTitle

ASSUME ServerAssumption ==
  /\ Page # {} /\ MaxRevision \in Nat \ {0} /\ MaxFailures \in Nat
  /\ Endpoint \subseteq Endpoints
  /\ Alias \subseteq BOOLEAN /\ LongErrors \in BOOLEAN
  /\ Spam \in [Page -> SUBSET (1 .. MaxRevision)]

VARIABLES
  wiki,             \* wiki[p]: revisions MediaWiki has of p
  disk,             \* the snapshots
  sidecar,          \* rev_id_index.bin: sidecar[p], the entries of p
  title_index,      \* AppState.title_indexes of the language
  rev_id_index,     \* AppState.rev_id_indexes of the language
  in_flight,        \* AppState.in_flight
  req,              \* the handlers
  task,             \* task[r]: the cache-miss task the handler r has spawned
  known,            \* known[p]: the newest revision served as the latest one
  failures

storage == <<disk, sidecar>>
indexes == <<title_index, rev_id_index>>
vars == <<wiki, disk, sidecar, title_index, rev_id_index, in_flight, req, task,
          known, failures>>

Rev == 0 .. MaxRevision
Upto == [Page -> Rev]

NoRequest == [pc |-> "done", endpoint |-> "page_id", page |-> CHOOSE p \in Page : TRUE,
              rev |-> 0, alias |-> FALSE, end |-> 0, answer |-> "none", served |-> 0,
              floor |-> 0, on_disk |-> FALSE, mw_failed |-> FALSE, titles |-> {},
              revs |-> [p \in Page |-> 0]]
NoTask == [pc |-> "none", page |-> NoRequest.page, end |-> 0,
           titles |-> {}, revs |-> NoRequest.revs]

TypeOK ==
  /\ wiki \in Upto /\ disk \in Upto /\ sidecar \in Upto
  /\ title_index \in [loaded : BOOLEAN, pages : SUBSET Page]
  /\ rev_id_index \in [loaded : BOOLEAN, upto : Upto]
  /\ in_flight \subseteq Page
  /\ req \in [Request -> [pc : {"resolve", "disk", "mw", "recheck", "insert", "claim", "done"},
        endpoint : Endpoints, page : Page, rev : Rev, alias : BOOLEAN, end : Rev,
        answer : {"none", "ok", "bad_request", "vandalism", "processing", "unavailable"},
        served : Rev, floor : Rev, on_disk : BOOLEAN, mw_failed : BOOLEAN,
        titles : SUBSET Page, revs : Upto]]
  /\ task \in [Request -> [pc : {"none", "fetch", "persist", "title_build", "title_insert",
                                 "rev_build", "rev_insert", "release"},
        page : Page, end : Rev, titles : SUBSET Page, revs : Upto]]
  /\ known \in Upto
  /\ failures \in 0 .. MaxFailures

Init ==
  /\ wiki = [p \in Page |-> 1]
  /\ disk = [p \in Page |-> 0] /\ sidecar = disk
  /\ title_index = [loaded |-> FALSE, pages |-> {}]
  /\ rev_id_index = [loaded |-> FALSE, upto |-> [p \in Page |-> 0]]
  /\ in_flight = {}
  /\ req = [r \in Request |-> NoRequest]
  /\ task = [r \in Request |-> NoTask]
  /\ known = disk
  /\ failures = 0

Fail == failures < MaxFailures /\ failures' = failures + 1

(* Article.revisions of the snapshot of p, and its ordered_revisions.last(). *)
Stored(p) == (1 .. disk[p]) \ Spam[p]
LatestStored(p) == IF Stored(p) = {} THEN 0 ELSE Max(Stored(p))

OnDisk == { p \in Page : disk[p] > 0 }

(* The entries a rev_id lookup finds. *)
Lists(upto, p, n) == n <= upto[p] /\ n \notin Spam[p]
-----------------------------------------------------------------------------
(* The wiki is edited, and the ingest daemon follows pages on disk.        *)

MakeEdit(p) ==
  /\ wiki[p] < MaxRevision
  /\ wiki' = [wiki EXCEPT ![p] = @ + 1]
  /\ UNCHANGED <<storage, indexes, in_flight, req, task, known, failures>>

Ingest(p) ==
  /\ disk[p] > 0 /\ disk[p] < wiki[p]
  /\ disk' = [disk EXCEPT ![p] = wiki[p]]
  /\ sidecar' = [sidecar EXCEPT ![p] = wiki[p]]
  /\ UNCHANGED <<wiki, indexes, in_flight, req, task, known, failures>>
-----------------------------------------------------------------------------
(* The handlers.                                                           *)

Goto(r, step) == req' = [req EXCEPT ![r].pc = step]

(* The response; known remembers the newest revision served as the latest. *)
Respond(r, a, n) ==
  /\ req' = [req EXCEPT ![r] = [@ EXCEPT !.pc = "done", !.answer = a, !.served = n]]
  /\ known' = IF a = "ok" /\ req[r].rev = 0
                THEN [known EXCEPT ![req[r].page] = Max({@, n})]
                ELSE known

(* A request for the latest revision of p (rev 0) or for one of them. *)
Ask(r, e, p, n, a) ==
  /\ req[r].pc = "done" /\ task[r].pc = "none"
  /\ n \in (IF e \in ByRevision THEN 1 .. wiki[p] ELSE {0})
  /\ a => e \in ByTitle
  /\ req' = [req EXCEPT ![r] = [NoRequest EXCEPT
        !.pc = IF e = "page_id" THEN "disk" ELSE "resolve",
        !.endpoint = e, !.page = p, !.rev = n, !.alias = a,
        !.floor = known[p], !.on_disk = LatestStored(p) > 0]]
  /\ UNCHANGED <<wiki, storage, indexes, in_flight, task, known, failures>>

(* resolve_title and resolve_rev_id: the first call loads the index; one   *)
(* that cannot be read counts as a miss.                                   *)
Resolve(r) ==
  /\ req[r].pc = "resolve"
  /\ \/ /\ req[r].endpoint = "rev_id"
        /\ rev_id_index' = IF rev_id_index.loaded THEN rev_id_index
                           ELSE [loaded |-> TRUE, upto |-> sidecar]
        /\ Goto(r, IF Lists(rev_id_index'.upto, req[r].page, req[r].rev)
                     THEN "disk" ELSE "mw")
        /\ UNCHANGED <<title_index, failures>>
     \/ /\ req[r].endpoint \in ByTitle
        /\ title_index' = IF title_index.loaded THEN title_index
                          ELSE [loaded |-> TRUE, pages |-> OnDisk]
        /\ Goto(r, IF ~ req[r].alias /\ req[r].page \in title_index'.pages
                     THEN "disk" ELSE "mw")
        /\ UNCHANGED <<rev_id_index, failures>>
     \/ /\ ~ (IF req[r].endpoint = "rev_id" THEN rev_id_index.loaded ELSE title_index.loaded)
        /\ Goto(r, "mw") /\ Fail
        /\ UNCHANGED indexes
  /\ UNCHANGED <<wiki, storage, in_flight, task, known>>

(* What a snapshot answers; try_serve_from_disk returns None for one with  *)
(* no good revision when the latest is asked for.                          *)
Target(r) == IF req[r].rev > 0 THEN req[r].rev ELSE LatestStored(req[r].page)

Serves(r) ==
  /\ disk[req[r].page] > 0
  /\ req[r].endpoint \in WhoColor \/ Target(r) > 0

Rendered(r) ==
  IF Target(r) \in Stored(req[r].page) THEN "ok"
  ELSE IF req[r].endpoint \notin WhoColor THEN "bad_request"
  ELSE IF Target(r) > 0 /\ Target(r) <= disk[req[r].page] THEN "vandalism"
  ELSE "processing"

(* The first look at the disk.  WhoColor goes on to fetch the wikitext.    *)
TryDisk(r) ==
  /\ req[r].pc = "disk"
  /\ \/ /\ Serves(r)
        /\ Respond(r, Rendered(r), Target(r))
        /\ UNCHANGED failures
     \/ /\ Serves(r) /\ req[r].endpoint \in WhoColor /\ Rendered(r) = "ok"
        /\ Respond(r, "unavailable", 0) /\ Fail
     \/ /\ ~ Serves(r)
        /\ Goto(r, "mw") /\ UNCHANGED <<known, failures>>
  /\ UNCHANGED <<wiki, storage, indexes, in_flight, task>>

(* resolve_via_mw: the await during which anything else may happen.  The   *)
(* page_id and WhoColor handlers do not look at the disk again after it.   *)
StraightToClaim(e) == "claim"                       \* seeded fault of AfterMw
AfterMw(e) == IF e \in WhoColor \cup {"page_id"} THEN "claim" ELSE "recheck"

(* The revision the task fetches through: the one asked for, or the latest. *)
EndRev(r)  == IF req[r].rev > 0 THEN req[r].rev ELSE wiki[req[r].page]

AskMw(r) ==
  /\ req[r].pc = "mw"
  /\ \/ /\ req' = [req EXCEPT ![r] =
              [@ EXCEPT !.pc = AfterMw(req[r].endpoint), !.end = EndRev(r)]]
        /\ UNCHANGED <<known, failures>>
     \/ /\ req' = [req EXCEPT ![r] =
              [@ EXCEPT !.pc = "done", !.answer = "processing", !.mw_failed = TRUE]]
        /\ Fail /\ UNCHANGED known
  /\ UNCHANGED <<wiki, storage, indexes, in_flight, task>>

(* The second look: on success the index that missed is refreshed, read    *)
(* here and stored, under its lock, by InsertIndex.                        *)
Recheck(r) ==
  /\ req[r].pc = "recheck"
  /\ IF Serves(r)
       THEN req' = [req EXCEPT ![r] =
              [@ EXCEPT !.pc = "insert", !.answer = Rendered(r), !.served = Target(r),
                        !.titles = OnDisk, !.revs = sidecar]]
       ELSE Goto(r, "claim")
  /\ UNCHANGED <<wiki, storage, indexes, in_flight, task, known, failures>>

InsertIndex(r) ==
  /\ req[r].pc = "insert"
  /\ \/ /\ req[r].endpoint = "rev_id"
        /\ rev_id_index' = [loaded |-> TRUE, upto |-> req[r].revs]
        /\ UNCHANGED <<title_index, failures>>
     \/ /\ req[r].endpoint # "rev_id"
        /\ title_index' = [loaded |-> TRUE, pages |-> req[r].titles]
        /\ UNCHANGED <<rev_id_index, failures>>
     \/ UNCHANGED indexes /\ Fail                     \* only logged
  /\ Respond(r, req[r].answer, req[r].served)
  /\ UNCHANGED <<wiki, storage, in_flight, task>>

(* try_claim_in_flight and spawn_cache_miss. *)
NeverClaimed(p) == FALSE                            \* seeded faults of Claimed
InvertedClaim(p) == p \notin in_flight
Claimed(p) == p \in in_flight

Claim(r) ==
  LET p == req[r].page
  IN  /\ req[r].pc = "claim"
      /\ Respond(r, "processing", 0)
      /\ IF Claimed(p)
           THEN UNCHANGED <<in_flight, task>>
           ELSE /\ in_flight' = in_flight \cup {p}
                /\ task' = [task EXCEPT ![r] = [NoTask EXCEPT
                     !.pc = "fetch", !.page = p, !.end = req[r].end]]
      /\ UNCHANGED <<wiki, storage, indexes, failures>>
-----------------------------------------------------------------------------
(* run_cache_miss.                                                         *)

Step(r, from, to) == task[r].pc = from /\ task' = [task EXCEPT ![r].pc = to]

Leaks == "none"                                     \* seeded fault of AfterFailure
AfterFailure == "release"

(* A panic in the fetch is one of the task: what follows it, the release   *)
(* of the slot too, is not done.                                           *)
Fetch(r) ==
  /\ \/ /\ LongErrors /\ task[r].pc = "fetch"
        /\ task' = [task EXCEPT ![r] = NoTask] /\ Fail
     \/ Step(r, "fetch", "persist") /\ UNCHANGED failures
     \/ Step(r, "fetch", AfterFailure) /\ Fail
  /\ UNCHANGED <<wiki, storage, indexes, in_flight, req, known>>

(* process_and_persist, on a blocking thread; a panic of it is an error.   *)
(* It may fail with the files written and the sidecar not.                 *)
Persist(r) ==
  /\ \/ /\ Step(r, "persist", "title_build")
        /\ disk' = [disk EXCEPT ![task[r].page] = task[r].end]
        /\ sidecar' = [sidecar EXCEPT ![task[r].page] = task[r].end]
        /\ UNCHANGED failures
     \/ /\ Step(r, "persist", AfterFailure) /\ Fail
        /\ disk' \in {disk, [disk EXCEPT ![task[r].page] = task[r].end]}
        /\ UNCHANGED sidecar
  /\ UNCHANGED <<wiki, indexes, in_flight, req, known>>

(* refresh_title_index and refresh_rev_id_index: read, then insert; a read *)
(* that fails is only logged.                                              *)
TitleBuild(r) ==
  /\ task[r].pc = "title_build"
  /\ \/ /\ task' = [task EXCEPT ![r] = [@ EXCEPT !.pc = "title_insert", !.titles = OnDisk]]
        /\ UNCHANGED failures
     \/ Step(r, "title_build", "rev_build") /\ Fail
  /\ UNCHANGED <<wiki, storage, indexes, in_flight, req, known>>

TitleInsert(r) ==
  /\ Step(r, "title_insert", "rev_build")
  /\ title_index' = [loaded |-> TRUE, pages |-> task[r].titles]
  /\ UNCHANGED <<wiki, storage, rev_id_index, in_flight, req, known, failures>>

RevBuild(r) ==
  /\ task[r].pc = "rev_build"
  /\ \/ /\ task' = [task EXCEPT ![r] = [@ EXCEPT !.pc = "rev_insert", !.revs = sidecar]]
        /\ UNCHANGED failures
     \/ Step(r, "rev_build", "release") /\ Fail
  /\ UNCHANGED <<wiki, storage, indexes, in_flight, req, known>>

RevInsert(r) ==
  /\ Step(r, "rev_insert", "release")
  /\ rev_id_index' = [loaded |-> TRUE, upto |-> task[r].revs]
  /\ UNCHANGED <<wiki, storage, title_index, in_flight, req, known, failures>>

Release(r) ==
  /\ task[r].pc = "release"
  /\ task' = [task EXCEPT ![r] = NoTask]
  /\ in_flight' = in_flight \ {task[r].page}
  /\ UNCHANGED <<wiki, storage, indexes, req, known, failures>>

Handler(r) ==
  Resolve(r) \/ TryDisk(r) \/ AskMw(r) \/ Recheck(r) \/ InsertIndex(r) \/ Claim(r)

Task(r) ==
  Fetch(r) \/ Persist(r) \/ TitleBuild(r) \/ TitleInsert(r) \/ RevBuild(r)
    \/ RevInsert(r) \/ Release(r)

Next ==
  \/ \E p \in Page : MakeEdit(p) \/ Ingest(p)
  \/ \E r \in Request, e \in Endpoint, p \in Page, n \in Rev, a \in Alias : Ask(r, e, p, n, a)
  \/ \E r \in Request : Handler(r) \/ Task(r)

Spec == Init /\ [][Next]_vars

(* A handler and a task run until they end: the runtime polls what is      *)
(* ready, MediaWiki requests have a timeout and a bounded number of        *)
(* attempts.                                                               *)
FairSpec == Spec /\ \A r \in Request : WF_vars(Handler(r)) /\ WF_vars(Task(r))
-----------------------------------------------------------------------------
(* A page has at most one cache-miss task, and it holds the page's slot,   *)
(* however the handlers that missed interleave.                            *)
OneTaskPerPage ==
  LET running == { r \in Request : task[r].pc # "none" }
  IN  /\ \A r \in running : task[r].page \in in_flight
      /\ \A r, s \in running : task[r].page = task[s].page => r = s

(* A rev_content request for a page that was on disk when it came is       *)
(* answered from the disk, even if the in-memory index did not know the    *)
(* page or the revision, unless MediaWiki could not be asked.              *)
IndexMissStillServes ==
  \A r \in Request :
    (/\ req[r].endpoint \notin WhoColor
     /\ req[r].on_disk /\ req[r].answer = "processing") => req[r].mw_failed

(* Cache-miss tasks are for articles "not on disk" (rev_content.rs,        *)
(* whocolor.rs): not those that were there when the request came.          *)
RebuildsOnlyMissing ==
  \A r \in Request : task[r].pc # "none" => ~ req[r].on_disk

(* The slot is released "even if the background task fails" (state.rs).    *)
SlotReleased == \A p \in Page : p \in in_flight ~> p \notin in_flight

Told(r, p, answer) == req[r].pc = "done" /\ req[r].page = p /\ req[r].answer = answer

(* A rev_content miss leads to a snapshot, unless something failed.        *)
MissIsBuilt ==
  \A r \in Request, p \in Page :
    Told(r, p, "processing") ~> (disk[p] > 0 \/ failures > 0)

(* "revisions contains the latest revision the service knows about"        *)
(* (API.md): a latest answer is not older than what was served before the  *)
(* request came.                                                           *)
LatestNeverGoesBack ==
  \A r \in Request :
    (Told(r, req[r].page, "ok") /\ req[r].rev = 0) => req[r].served >= req[r].floor

(* "Refresh both indexes so the next request hits disk directly"           *)
(* (state.rs): when no task runs, the indexes know every page on disk.     *)
NextRequestHitsDisk ==
  (in_flight = {} /\ title_index.loaded) => OnDisk \subseteq title_index.pages

(* A 400 is for a revision that "was flagged as spam by the algorithm, or  *)
(* simply doesn't exist" (API.md).                                         *)
BadRequestMeansGone ==
  \A r \in Request : Told(r, req[r].page, "bad_request") =>
    req[r].rev \notin (1 .. wiki[req[r].page]) \ Spam[req[r].page]

(* "It will be available soon" (API.md): what a request was told is being  *)
(* processed gets on disk.                                                 *)
ProcessingIsTemporary ==
  \A r \in Request, p \in Page, n \in 1 .. MaxRevision :
    (Told(r, p, "processing") /\ req[r].rev = n) ~> disk[p] >= n
=============================================================================
