------------------------------- MODULE MwClient -------------------------------
(***************************************************************************)
(* One call of the MediaWiki client of crates/wikiwho-mwclient: the retry  *)
(* loops request_json, request_json_post and request_text (lib.rs), the    *)
(* paginator RevisionFetcher::next_batch (revisions.rs) that sends its     *)
(* pages through request_json, and the two callers that drain it,          *)
(* collect_all_revisions of the server and fetch_window of the ingest      *)
(* daemon.                                                                 *)
(*                                                                         *)
(* The wiki answers each request in any way it may, and its history        *)
(* changes between two requests: revisions are made and removed.           *)
(* Revision n is the n-th made; rvcontinue is the revision a page of       *)
(* results starts at, 0 for none.  Time is what was slept, in seconds.     *)
(***************************************************************************)
EXTENDS Integers, Sequences, FiniteSets, FiniteSetsExt

CONSTANTS
  Caller,               \* the calls made: a subset of Callers
  MaxRevision,          \* bound: revisions made
  Rvlimit,              \* revisions in one page of results
  retry_max_attempts, retry_budget,
  RetryAfter,           \* the Retry-After values of a 429
  AttemptCap            \* bound: attempts told apart

Draining == {"collect_all_revisions", "fetch_window"}
Callers  == Draining \cup {"request_json_post", "request_text"}

ASSUME MwAssumption ==
  /\ Caller \subseteq Callers
  /\ MaxRevision \in Nat \ {0} /\ Rvlimit \in Nat \ {0}
  /\ retry_max_attempts \in Nat \ {0} /\ retry_budget \in Nat
  /\ RetryAfter \subseteq Nat
  /\ AttemptCap \in Nat /\ AttemptCap > retry_max_attempts + retry_budget

VARIABLES
  history,              \* the revisions the wiki has of the page
  made,                 \* how many revisions were made
  call,                 \* the call: who makes it and for which window
  pc,                   \* "idle", or "send": a request is to be sent
  attempt, slept,       \* of the retry loop
  rvcontinue,           \* of the fetcher
  out,                  \* the revisions collected
  result,               \* how the last call ended
  kept                  \* the revisions in history all through the call

wiki == <<history, made>>
vars == <<history, made, call, pc, attempt, slept, rvcontinue, out, result, kept>>

Rev == 1 .. MaxRevision
Results == {"none", "ok", "http", "budget", "retry", "refused", "missing",
            "ended_early", "panic"}

TypeOK ==
  /\ history \subseteq Rev /\ made \in 0 .. MaxRevision
  /\ call \in [caller : Callers, start : 0 .. MaxRevision, end : 0 .. MaxRevision]
  /\ pc \in {"idle", "send"}
  /\ attempt \in 0 .. AttemptCap /\ slept \in 0 .. retry_budget
  /\ rvcontinue \in 0 .. MaxRevision
  /\ out \in Seq(Rev)
  /\ result \in Results
  /\ kept \subseteq history

Init ==
  /\ made = 1 /\ history = {1}
  /\ call = [caller |-> "fetch_window", start |-> 0, end |-> 0]
  /\ pc = "idle" /\ attempt = 0 /\ slept = 0
  /\ rvcontinue = 0 /\ out = <<>> /\ result = "none" /\ kept = {}
-----------------------------------------------------------------------------
(* The wiki: edits, and revisions that go (a page split or deleted).       *)

MakeEdit ==
  /\ made < MaxRevision
  /\ made' = made + 1 /\ history' = history \cup {made + 1}
  /\ UNCHANGED <<call, pc, attempt, slept, rvcontinue, out, result, kept>>

RemoveRevision(n) ==
  /\ n \in history
  /\ history' = history \ {n} /\ kept' = kept \ {n}
  /\ UNCHANGED <<made, call, pc, attempt, slept, rvcontinue, out, result>>

(* The page of results: up to Rvlimit revisions from rvcontinue on and     *)
(* through rvendid, and the revision the next page starts at.              *)
Wanted(from, end) == { n \in history : n >= from /\ n <= end }
PageOf(from, end) ==
  { n \in Wanted(from, end) : Cardinality({ m \in Wanted(from, end) : m < n }) < Rvlimit }
Continue(from, end) ==
  LET rest == Wanted(from, end) \ PageOf(from, end)
  IN  IF rest = {} THEN 0 ELSE Min(rest)
-----------------------------------------------------------------------------
Call(c, start, end) ==
  /\ pc = "idle"
  /\ start < end /\ end <= made
  /\ c # "fetch_window" => start = 0
  /\ call' = [caller |-> c, start |-> start, end |-> end]
  /\ pc' = "send" /\ attempt' = 0 /\ slept' = 0
  /\ rvcontinue' = 0 /\ out' = <<>> /\ result' = "none" /\ kept' = history
  /\ UNCHANGED wiki

Finish(r) == pc' = "idle" /\ result' = r

(* The loop goes round: `attempt += 1` and the next request.  Far past     *)
(* retry_max_attempts the count only says that it goes on.                 *)
Sent == IF attempt < AttemptCap THEN attempt + 1 ELSE AttemptCap - 1

Retry(s) ==
  /\ attempt' = Sent /\ slept' = s
  /\ UNCHANGED <<pc, result>>

Fails(r) == Finish(r) /\ UNCHANGED <<attempt, slept>>

(* An error text of 300 bytes is cut out of the body: `&s[..n]` panics     *)
(* where byte 300 is not at the start of a character.                      *)
FailsWithBody(r) == Fails(r) \/ Fails("panic")

(* A transport error: timeouts and connections are worth another attempt. *)
Transport ==
  \/ Sent < retry_max_attempts /\ Retry(slept)
  \/ Fails("http")

ServerError ==
  IF Sent < retry_max_attempts THEN Retry(slept)
  ELSE FailsWithBody(IF call.caller \in Draining THEN "retry" ELSE "refused")

(* The delay without a Retry-After: base_backoff, doubled with each        *)
(* attempt; past the budget its length makes no difference.                *)
backoff_for == 1 .. retry_budget + 1

(* 429: sleep what is asked for, as far as the budget goes; request_json   *)
(* gives up after a sleep cut short, the others send once more.            *)
remaining == IF slept < retry_budget THEN retry_budget - slept ELSE 0
ForgetsSleep(ra) == slept                            \* seeded faults of SleptAfter
SleptAfter(ra) == slept + (IF ra < remaining THEN ra ELSE remaining)

RateLimited(ra) ==
  IF remaining = 0 THEN Fails("budget")
  ELSE IF call.caller \in Draining /\ remaining < ra
    THEN Finish("budget") /\ slept' = SleptAfter(ra) /\ UNCHANGED attempt
    ELSE Retry(SleptAfter(ra))

(* What else is no success: 4xx, an error of the API, another shape.  A    *)
(* page that is gone is told apart, except by request_json_post.           *)
Refused ==
  \/ FailsWithBody("refused")
  \/ call.caller # "request_json_post" /\ Fails("missing")

Failure ==
  /\ pc = "send"
  /\ Transport \/ ServerError \/ Refused
     \/ \E ra \in RetryAfter \cup backoff_for : RateLimited(ra)
  /\ UNCHANGED <<wiki, call, rvcontinue, out, kept>>

(* A page of results: what the caller takes of it, and whether that was    *)
(* the last.  Without the revision asked for there must be more to come.   *)
Taken(page) ==
  LET wanted == { n \in page : n > call.start }
  IN  [i \in 1 .. Cardinality(wanted) |->
        CHOOSE n \in wanted : Cardinality({ m \in wanted : m < n }) = i - 1]

LosesOne(from) == from + 1                           \* seeded fault of NextPage
NextPage(from) == from

next_batch ==
  LET page == PageOf(rvcontinue, call.end)
      next == Continue(rvcontinue, call.end)
  IN  /\ pc = "send" /\ call.caller \in Draining
      /\ history # {}
      /\ IF call.end \in page
           THEN Finish("ok") /\ out' = out \o Taken(page)
                /\ UNCHANGED <<attempt, slept, rvcontinue>>
         ELSE IF next = 0
           THEN Fails("ended_early") /\ UNCHANGED <<out, rvcontinue>>
         ELSE /\ out' = out \o Taken(page) /\ rvcontinue' = NextPage(next)
              /\ attempt' = 0 /\ slept' = 0
              /\ UNCHANGED <<pc, result>>
      /\ UNCHANGED <<wiki, call, kept>>

Success ==
  /\ pc = "send" /\ call.caller \notin Draining
  /\ Fails("ok")
  /\ UNCHANGED <<wiki, call, rvcontinue, out, kept>>

Client == Failure \/ next_batch \/ Success

Next ==
  \/ MakeEdit \/ \E n \in Rev : RemoveRevision(n)
  \/ \E c \in Caller, s, e \in 0 .. MaxRevision : Call(c, s, e)
  \/ Client

Spec == Init /\ [][Next]_vars

(* Every request is answered or times out (request_timeout), and the loop  *)
(* goes on.                                                                *)
FairSpec == Spec /\ WF_vars(Client)
-----------------------------------------------------------------------------
(* A fetch that succeeds hands over its window: every revision after start *)
(* and through end that was there all along, each once and in order,       *)
(* whatever the wiki did between two pages and however often a page was    *)
(* asked for (fetch_window, collect_all_revisions).                        *)
WindowIsWhole ==
  (result = "ok" /\ call.caller \in Draining) =>
    /\ \A i, j \in DOMAIN out : i < j => out[i] < out[j]
    /\ { n \in kept : n > call.start /\ n <= call.end }
         \subseteq { out[i] : i \in DOMAIN out }
    /\ Len(out) > 0 /\ out[Len(out)] = call.end
    /\ \A i \in DOMAIN out : out[i] > call.start

(* The 429s are paid from the budget: attempts and budget together bound   *)
(* the requests that one call of a retry loop sends, 429s mixed with       *)
(* server errors in any order, if every Retry-After is at least a second.  *)
SendsBounded == attempt < retry_max_attempts + retry_budget

(* "a soft cap we control so a misbehaving wiki can't pin us indefinitely" *)
(* (lib.rs, RateLimitBudgetExhausted): every call returns.                 *)
CallReturns == pc = "send" ~> pc = "idle"
=============================================================================
