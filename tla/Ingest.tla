------------------------------- MODULE Ingest -------------------------------
(***************************************************************************)
(* The ingest daemon of crates/wikiwho-ingest: the EventStreams client     *)
(* (events.rs, stream_events), the loop of run_ingest (lib.rs), one        *)
(* load-fetch-analyse-save cycle (apply.rs, apply_event) and the durable   *)
(* checkpoint (checkpoint.rs).                                             *)
(*                                                                         *)
(* The wiki is the sequence log of its edits: edit n has revision id n and *)
(* event id n (both grow with time).  An edit of another wiki, another     *)
(* namespace or with no page id has page NoPage: parse_frame drops it.     *)
(* What analyse_revision makes of a revision is its kind, since the        *)
(* verdict depends on the revisions before it only.  A snapshot is read    *)
(* and written in one step here; SnapshotStore has its files.              *)
(***************************************************************************)
EXTENDS Integers, Sequences, FiniteSets, SequencesExt

CONSTANTS
  Page, NoPage,
  Lang,
  language,             \* Page -> Lang
  kinds,                \* bound: what may become of the edits of a page
  checkpoint_every,     \* IngestConfig: flush every so many advances
  MaxEdits,             \* bound: edits of the wiki
  MaxStops,             \* bound: crashes and shutdowns
  MaxFailures           \* bound: failed fetches, writes and flushes

ASSUME IngestAssumption ==
  /\ NoPage \notin Page
  /\ language \in [Page -> Lang]
  /\ kinds \in [Page -> SUBSET {"good", "spam", "hidden"}]
  /\ checkpoint_every \in Nat \ {0}
  /\ MaxEdits \in Nat /\ MaxStops \in Nat /\ MaxFailures \in Nat

VARIABLES
  log,            \* the wiki's edits
  snapshot,       \* snapshot[p]: the article on disk
  building,       \* building[p]: the last edit a cold build of p has fetched
  durable,        \* checkpoint.json; 0 stands for the empty id
  pc,             \* where the daemon is
  last_event_id,  \* StreamLoop's resume id; 0 stands for None
  position,       \* the last event the connection has sent
  event, article, \* apply_event: its event, the article it opened
  checkpoint, dirty,
  handled,        \* events apply_event has returned for
  since,          \* where the last connection without an id began; -1 before it
  stops, failures

daemon == <<pc, last_event_id, position, event, article, checkpoint, dirty, since>>
vars == <<log, snapshot, building, durable, pc, last_event_id, position, event,
          article, checkpoint, dirty, handled, since, stops, failures>>

EventId == 1 .. MaxEdits
Edit    == (UNION { [page : {p}, kind : kinds[p]] : p \in Page })
             \cup [page : {NoPage}, kind : {"good"}]
Article == [exists : BOOLEAN, good : Seq(EventId), spam_ids : Seq(EventId)]

NoArticle == [exists |-> FALSE, good |-> << >>, spam_ids |-> << >>]
NoIds     == [l \in Lang |-> 0]

last_good_rev_id(a) == IF a.good = << >> THEN 0 ELSE Last(a.good)

TypeOK ==
  /\ log \in Seq(Edit) /\ Len(log) <= MaxEdits
  /\ snapshot \in [Page -> Article]
  /\ building \in [Page -> 0 .. MaxEdits]
  /\ durable \in [Lang -> 0 .. MaxEdits]
  /\ pc \in {"down", "disconnected", "streaming", "open", "apply", "advance"}
  /\ last_event_id \in 0 .. MaxEdits
  /\ position \in 0 .. MaxEdits
  /\ event \in 0 .. MaxEdits
  /\ article \in Article
  /\ checkpoint \in [Lang -> 0 .. MaxEdits]
  /\ dirty \in 0 .. checkpoint_every + MaxFailures
  /\ handled \subseteq EventId
  /\ since \in -1 .. MaxEdits
  /\ stops \in 0 .. MaxStops /\ failures \in 0 .. MaxFailures

Init ==
  /\ log = << >>
  /\ snapshot = [p \in Page |-> NoArticle]
  /\ building = [p \in Page |-> 0]
  /\ durable = NoIds
  /\ pc = "down" /\ last_event_id = 0 /\ position = 0
  /\ event = 0 /\ article = NoArticle
  /\ checkpoint = NoIds /\ dirty = 0
  /\ handled = {} /\ since = -1
  /\ stops = 0 /\ failures = 0

(* An operation that may fail does so at most MaxFailures times.           *)
Fail == failures < MaxFailures /\ failures' = failures + 1
-----------------------------------------------------------------------------
(* The wiki, and the server's cold builds of pages that are not on disk.   *)

MakeEdit(e) ==
  /\ Len(log) < MaxEdits
  /\ log' = Append(log, e)
  /\ UNCHANGED <<snapshot, building, durable, daemon, handled, stops, failures>>

(* The revisions of p in (after, upto], hidden texts left out.             *)
Revs(p, after, upto) ==
  { n \in after + 1 .. upto : log[n].page = p /\ log[n].kind # "hidden" }

(* Revisions come oldest first: the i-th has i - 1 before it.              *)
InOrder(S) ==
  [i \in 1 .. Cardinality(S) |-> CHOOSE n \in S : Cardinality({ m \in S : m < n }) = i - 1]

(* The loop over analyse_revision: a good revision becomes the last good   *)
(* one, a spam revision is listed in spam_ids and nothing else.            *)
analyse_revisions(a, revs) ==
  [exists   |-> TRUE,
   good     |-> a.good \o InOrder({ n \in revs : log[n].kind = "good" }),
   spam_ids |-> a.spam_ids \o InOrder({ n \in revs : log[n].kind = "spam" })]

ColdBuild(p, upto) == analyse_revisions(NoArticle, Revs(p, 0, upto))

ColdBuildFetch(p) ==
  /\ ~ snapshot[p].exists /\ building[p] = 0
  /\ \E n \in DOMAIN log : log[n].page = p
  /\ building' = [building EXCEPT ![p] = Len(log)]
  /\ UNCHANGED <<log, snapshot, durable, daemon, handled, stops, failures>>

ColdBuildWrite(p) ==
  /\ building[p] > 0
  /\ snapshot' = [snapshot EXCEPT ![p] = ColdBuild(p, building[p])]
  /\ building' = [building EXCEPT ![p] = 0]
  /\ UNCHANGED <<log, durable, daemon, handled, stops, failures>>
-----------------------------------------------------------------------------
(* The daemon's process.                                                   *)

(* Checkpoint::load_or_init, and last_event_id_header, which picks any     *)
(* language with an id.                                                    *)
Header == LET ids == { durable[l] : l \in Lang } \ {0} IN IF ids = {} THEN {0} ELSE ids

Start ==
  /\ pc = "down"
  /\ checkpoint' = durable /\ dirty' = 0
  /\ last_event_id' \in Header
  /\ pc' = "disconnected"
  /\ UNCHANGED <<log, snapshot, building, durable, position, event, article,
                 handled, since, stops, failures>>

(* The process is gone and what it held in memory with it. *)
Stop ==
  /\ stops < MaxStops /\ stops' = stops + 1
  /\ pc' = "down" /\ last_event_id' = 0 /\ position' = 0
  /\ event' = 0 /\ article' = NoArticle
  /\ checkpoint' = NoIds /\ dirty' = 0
  /\ UNCHANGED <<log, snapshot, building, handled, since>>

Crash == pc # "down" /\ Stop /\ UNCHANGED <<durable, failures>>

(* SIGTERM: the flag is looked at before a connection, before a read and   *)
(* after an event is yielded, which is then dropped; the last flush        *)
(* follows, and may fail.                                                  *)
Shutdown ==
  /\ pc \in {"disconnected", "streaming", "open"}
  /\ Stop
  /\ \/ durable' = checkpoint /\ UNCHANGED failures
     \/ UNCHANGED durable /\ Fail
-----------------------------------------------------------------------------
(* stream_events.                                                          *)

(* Without a Last-Event-ID the service starts with the next event.         *)
OneTooFar == IF last_event_id = 0 THEN Len(log) ELSE last_event_id + 1 \* seeded fault of ResumeFrom
ResumeFrom == IF last_event_id = 0 THEN Len(log) ELSE last_event_id

Connect ==
  /\ pc = "disconnected"
  /\ pc' = "streaming"
  /\ position' = ResumeFrom
  /\ since' = IF last_event_id = 0 THEN Len(log) ELSE since
  /\ UNCHANGED <<log, snapshot, building, durable, last_event_id, event, article,
                 checkpoint, dirty, handled, stops, failures>>

(* The connection ends or times out; the frames it had sent are dropped.   *)
Disconnect ==
  /\ pc = "streaming"
  /\ pc' = "disconnected" /\ position' = 0
  /\ UNCHANGED <<log, snapshot, building, durable, last_event_id, event, article,
                 checkpoint, dirty, handled, since, stops, failures>>

(* The next event: parse_frame drops it, or it is yielded to run_ingest.   *)
Deliver ==
  /\ pc = "streaming"
  /\ position < Len(log)
  /\ position' = position + 1 /\ last_event_id' = position + 1
  /\ IF log[position + 1].page = NoPage
       THEN UNCHANGED <<pc, event>>
       ELSE pc' = "open" /\ event' = position + 1
  /\ UNCHANGED <<log, snapshot, building, durable, article, checkpoint, dirty,
                 handled, since, stops, failures>>
-----------------------------------------------------------------------------
(* apply_event.                                                            *)

page == log[event].page

(* apply_event returns, with an outcome or an error the loop only logs.    *)
Returned == pc' = "advance" /\ handled' = handled \cup {event} /\ article' = NoArticle

ApplyOpen ==
  /\ pc = "open"
  /\ \/ /\ ~ snapshot[page].exists                         \* SnapshotMissing
        /\ Returned /\ UNCHANGED failures
     \/ /\ snapshot[page].exists
        /\ event <= last_good_rev_id(snapshot[page])       \* AlreadyAtOrAhead
        /\ Returned /\ UNCHANGED failures
     \/ /\ snapshot[page].exists
        /\ event > last_good_rev_id(snapshot[page])
        /\ pc' = "apply" /\ article' = snapshot[page]
        /\ UNCHANGED <<handled, failures>>
     \/ Returned /\ Fail                                   \* unreadable snapshot
  /\ UNCHANGED <<log, snapshot, building, durable, last_event_id, position, event,
                 checkpoint, dirty, since, stops>>

(* Seeded fault of fetch_window: the event's revision alone. *)
EventOnly(p, start_exclusive, end_inclusive) == Revs(p, end_inclusive - 1, end_inclusive)

fetch_window(p, start_exclusive, end_inclusive) == Revs(p, start_exclusive, end_inclusive)

ApplyWindow ==
  /\ pc = "apply"
  /\ \/ /\ snapshot' = [snapshot EXCEPT ![page] =
              analyse_revisions(article, fetch_window(page, last_good_rev_id(article), event))]
        /\ UNCHANGED failures
     \/ UNCHANGED snapshot /\ Fail                         \* the fetch or the write
  /\ Returned
  /\ UNCHANGED <<log, building, durable, last_event_id, position, event,
                 checkpoint, dirty, since, stops>>

(* Checkpoint::advance and, every checkpoint_every changes, flush: tmp     *)
(* file and rename, so that a crash leaves the old file or the new one.    *)
CheckpointNext(l) == [checkpoint EXCEPT ![l] = event + 1]   \* seeded fault of CheckpointAt
CheckpointAt(l)   == [checkpoint EXCEPT ![l] = event]

Advance ==
  LET l == language[page]
      n == IF checkpoint[l] = event THEN dirty ELSE dirty + 1
  IN  /\ pc = "advance"
      /\ checkpoint' = CheckpointAt(l)
      /\ IF n < checkpoint_every
           THEN dirty' = n /\ UNCHANGED <<durable, failures>>
           ELSE \/ dirty' = 0 /\ durable' = checkpoint' /\ UNCHANGED failures
                \/ dirty' = n /\ UNCHANGED durable /\ Fail
      /\ pc' = "streaming" /\ event' = 0
      /\ UNCHANGED <<log, snapshot, building, last_event_id, position, article,
                     handled, since, stops>>

Next ==
  \/ \E e \in Edit : MakeEdit(e)
  \/ \E p \in Page : ColdBuildFetch(p)
  \/ \E p \in Page : ColdBuildWrite(p)
  \/ Start \/ Crash \/ Shutdown
  \/ Connect \/ Disconnect \/ Deliver
  \/ ApplyOpen \/ ApplyWindow \/ Advance

Spec == Init /\ [][Next]_vars

(* The process is restarted (systemd), every step of the loop is taken,    *)
(* and connections that are made again and again deliver again and again.  *)
Fairness ==
  /\ WF_vars(Start) /\ WF_vars(Connect) /\ SF_vars(Deliver)
  /\ WF_vars(ApplyOpen) /\ WF_vars(ApplyWindow) /\ WF_vars(Advance)
  /\ \A p \in Page : WF_vars(ColdBuildWrite(p))

FairSpec == Spec /\ Fairness
-----------------------------------------------------------------------------
Wanted == { n \in DOMAIN log : log[n].page # NoPage }

(* Whatever the order of crashes, restarts and reconnections, no wanted    *)
(* event that the stream is past was left out: those after the last start  *)
(* without an id have been through apply_event, but for the current one.   *)
StreamSkipsNothing ==
  pc # "down" =>
    \A n \in Wanted : (since >= 0 /\ since < n /\ n <= position) =>
      n \in handled \cup {event}

(* What checkpoint.json lets a restart skip has been handled: the id is    *)
(* recorded after apply_event returns.                                     *)
CheckpointBehindWork ==
  \A l \in Lang : \A n \in Wanted :
    (since >= 0 /\ since < n /\ n <= durable[l]) => n \in handled

(* Replays, failed applies, events skipped because the snapshot was not    *)
(* there yet and cold builds leave no gap and no repetition: the snapshot  *)
(* has the good revisions of its page up to the last one, and has seen the *)
(* spam among them.                                                        *)
SnapshotHasNoGap ==
  \A p \in Page :
    LET a    == snapshot[p]
        cold == ColdBuild(p, last_good_rev_id(a))
    IN  /\ a.good = cold.good
        /\ \A n \in DOMAIN cold.spam_ids : Contains(a.spam_ids, cold.spam_ids[n])

(* "If event.rev_id <= article.last_good_rev_id we've already processed    *)
(* this (or a later) revision [...] Idempotent at the rev-id granularity"  *)
(* (apply.rs): no revision is listed as spam twice.                        *)
SpamListedOnce == \A p \in Page : IsInjective(snapshot[p].spam_ids)

(* checkpoint_every costs "replaying a few events on restart" (config.rs): *)
(* once the daemon has handled an event, it leaves none of the later out.  *)
RestartOnlyReplays ==
  pc # "down" =>
    \A m \in handled, n \in Wanted : (m < n /\ n <= position) =>
      n \in handled \cup {event}

(* Every wanted event made after the last start without an id is handled:  *)
(* again and again none is left.                                           *)
EventsHandled ==
  []<>(\A n \in Wanted : (since >= 0 /\ since < n) => n \in handled)

(* "ingest only keeps existing articles current" (apply.rs): once edits    *)
(* stop, a page on disk has the last good revision the stream has sent     *)
(* since it last started without an id.                                    *)
KeepsExistingCurrent ==
  \A p \in Page : <>[](\A n \in Wanted :
    (/\ snapshot[p].exists /\ since >= 0 /\ since < n
     /\ log[n].page = p /\ log[n].kind = "good") =>
        last_good_rev_id(snapshot[p]) >= n)
=============================================================================
