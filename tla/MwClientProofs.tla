---------------------------- MODULE MwClientProofs ----------------------------
(***************************************************************************)
(* Proofs about one call of the MediaWiki client.  Its retry loop sends a  *)
(* bounded number of requests, if it is never asked for a sleep of 0       *)
(* seconds: every request past the attempts was paid for with a second of  *)
(* the budget.  A fetch that succeeds hands over its whole window: what    *)
(* lies before rvcontinue has been collected.                              *)
(***************************************************************************)
EXTENDS MwClient, DataLemmas

Paid ==
  /\ attempt \in Nat /\ slept \in 0 .. retry_budget
  /\ attempt < retry_max_attempts + slept

Waits == 0 \notin RetryAfter

(* One more request keeps the account if it comes before retry_max_attempts *)
(* or after a sleep.                                                       *)
LEMMA RetryIsPaid ==
  ASSUME Paid, NEW s \in 0 .. retry_budget, Retry(s), s >= slept,
         Sent < retry_max_attempts \/ s > slept
  PROVE  Paid'
<1>1. Sent = attempt + 1
  BY MwAssumption DEF Sent, Paid
<1> QED
  BY <1>1, MwAssumption DEF Paid, Retry

(* A 429 is paid for with the sleep it asks for. *)
LEMMA RateLimitIsPaid ==
  ASSUME Paid, NEW ra \in Nat \ {0}, RateLimited(ra)
  PROVE  Paid'
<1>1. CASE remaining = 0
  BY <1>1, MwAssumption DEF RateLimited, Fails, Paid
<1>2. CASE remaining # 0
  <2>1. /\ SleptAfter(ra) \in 0 .. retry_budget
        /\ SleptAfter(ra) > slept
    BY <1>2, MwAssumption DEF SleptAfter, remaining, Paid
  <2>2. CASE Retry(SleptAfter(ra))
    BY <2>1, <2>2, RetryIsPaid DEF Paid
  <2>3. CASE slept' = SleptAfter(ra) /\ UNCHANGED attempt
    BY <2>1, <2>3, MwAssumption DEF Paid
  <2> QED BY <1>2, <2>2, <2>3 DEF RateLimited
<1> QED BY <1>1, <1>2

(* A failed attempt that is tried again was paid for. *)
LEMMA FailureIsPaid ==
  ASSUME Paid, Waits, Failure
  PROVE  Paid'
<1>1. CASE UNCHANGED <<attempt, slept>>
  BY <1>1 DEF Paid
<1>2. CASE Sent < retry_max_attempts /\ Retry(slept)
  BY <1>2, RetryIsPaid DEF Paid
<1>3. ASSUME NEW ra \in RetryAfter \cup backoff_for, RateLimited(ra)
      PROVE  Paid'
  <2>1. ra \in Nat \ {0}
    BY MwAssumption DEF Waits, backoff_for
  <2> QED BY <1>3, <2>1, RateLimitIsPaid
<1>4. Transport => \/ UNCHANGED <<attempt, slept>>
                   \/ Sent < retry_max_attempts /\ Retry(slept)
  BY DEF Transport, Fails
<1>5. ServerError => \/ UNCHANGED <<attempt, slept>>
                     \/ Sent < retry_max_attempts /\ Retry(slept)
  BY DEF ServerError, FailsWithBody, Fails
<1>6. Refused => UNCHANGED <<attempt, slept>>
  BY DEF Refused, FailsWithBody, Fails
<1> QED
  BY <1>1, <1>2, <1>3, <1>4, <1>5, <1>6 DEF Failure

(* Every step keeps the account. *)
LEMMA StepIsPaid ==
  ASSUME Paid, Waits, [Next]_vars
  PROVE  Paid'
<1>1. CASE UNCHANGED <<attempt, slept>>
  BY <1>1 DEF Paid
<1>2. CASE attempt' = 0 /\ slept' = 0
  BY <1>2, MwAssumption DEF Paid
<1>3. CASE Failure
  BY <1>3, FailureIsPaid
<1>4. next_batch => \/ UNCHANGED <<attempt, slept>>
                    \/ attempt' = 0 /\ slept' = 0
  BY DEF next_batch, Finish, Fails
<1>5. Success => UNCHANGED <<attempt, slept>>
  BY DEF Success, Fails
<1>6. \A c \in Caller, s, e \in 0 .. MaxRevision :
        Call(c, s, e) => attempt' = 0 /\ slept' = 0
  BY DEF Call
<1>7. MakeEdit \/ (\E n \in Rev : RemoveRevision(n)) => UNCHANGED <<attempt, slept>>
  BY DEF MakeEdit, RemoveRevision
<1>8. UNCHANGED vars => UNCHANGED <<attempt, slept>>
  BY DEF vars
<1> QED
  BY <1>1, <1>2, <1>3, <1>4, <1>5, <1>6, <1>7, <1>8 DEF Next, Client

(* However 429s, server errors and transport errors follow one another,    *)
(* one call of request_json, request_json_post or request_text sends fewer *)
(* requests than retry_max_attempts and the seconds of retry_budget allow, *)
(* if no Retry-After is 0.                                                 *)
THEOREM RetriesAreBounded ==
  ASSUME Waits
  PROVE  Spec => []SendsBounded
<1>1. Init => Paid
  BY MwAssumption DEF Init, Paid
<1>2. Paid /\ [Next]_vars => Paid'
  BY StepIsPaid
<1>3. Paid => SendsBounded
  BY MwAssumption DEF Paid, SendsBounded
<1> QED
  BY <1>1, <1>2, <1>3, PTL DEF Spec
-----------------------------------------------------------------------------
(* A page is handed over in the order of its revisions: those of the       *)
(* window that are on a page of results.                                   *)
OfWindow(page) == { n \in page : n > call.start }

LEMMA TakenOrder ==
  ASSUME NEW page, page \subseteq Rev
  PROVE  /\ Taken(page) \in Seq(OfWindow(page))
         /\ \A i \in DOMAIN Taken(page) : Taken(page)[i] \in OfWindow(page)
         /\ \A i, j \in DOMAIN Taken(page) : i < j => Taken(page)[i] < Taken(page)[j]
         /\ \A n \in OfWindow(page) : \E i \in DOMAIN Taken(page) : Taken(page)[i] = n
<1> DEFINE W == OfWindow(page)
           t == Taken(page)
<1>1. W \subseteq Nat /\ IsFiniteSet(W) /\ Cardinality(W) \in Nat
  <2>1. W \in SUBSET Rev /\ MaxRevision \in Nat
    BY MwAssumption DEF OfWindow
  <2>2. IsFiniteSet(Rev)
    BY <2>1, FS_Interval DEF Rev
  <2> QED BY <2>1, <2>2, FS_Subset, FS_CardinalityType DEF Rev
<1>2. t = Listed(W)
  BY DEF Taken, OfWindow, Listed, Rank, Below
<1> HIDE DEF W, t
<1>3. /\ t \in Seq(W)
      /\ \A i \in DOMAIN t : t[i] \in W
      /\ \A i, j \in DOMAIN t : i < j => t[i] < t[j]
      /\ \A n \in W : \E i \in DOMAIN t : t[i] = n
  BY <1>1, <1>2, ListedInOrder
<1> QED BY <1>3 DEF t, W

(* The page ends where the rest begins. *)
LEMMA PageOrder ==
  ASSUME TypeOK, NEW from \in 0 .. MaxRevision, NEW end \in 0 .. MaxRevision
  PROVE  /\ PageOf(from, end) \subseteq Rev
         /\ Continue(from, end) = 0 => Wanted(from, end) = PageOf(from, end)
         /\ Continue(from, end) # 0 =>
              /\ Continue(from, end) \in Wanted(from, end)
              /\ \A m \in PageOf(from, end) : m < Continue(from, end)
              /\ \A n \in Wanted(from, end) : n \in PageOf(from, end) \/ n >= Continue(from, end)
<1> DEFINE W == Wanted(from, end)
           page == PageOf(from, end)
           rest == W \ page
<1>1. W \subseteq Rev /\ W \subseteq Nat \ {0} /\ page \subseteq W
  <2>1. W \subseteq Rev /\ page \subseteq W
    BY DEF Wanted, TypeOK, PageOf
  <2>2. Rev \subseteq Nat \ {0}
    BY MwAssumption DEF Rev
  <2> QED BY <2>1, <2>2
<1>2. IsFiniteSet(W)
  <2>1. IsFiniteSet(Rev)
    BY MwAssumption, FS_Interval DEF Rev
  <2>2. W \in SUBSET Rev
    BY <1>1
  <2> QED BY <2>1, <2>2, FS_Subset
<1>3. page = { n \in W : Rank(W, n) < Rvlimit }
  BY DEF PageOf, Rank, Below
<1>4. Continue(from, end) = IF rest = {} THEN 0 ELSE CHOOSE x \in rest : \A y \in rest : x <= y
  BY DEF Continue, Min
<1> HIDE DEF W, page
<1>5. ASSUME NEW m \in page, NEW n \in rest PROVE m < n
  <2>1. Rank(W, m) < Rvlimit /\ ~ (Rank(W, n) < Rvlimit) /\ m \in W /\ n \in W
    BY <1>3
  <2>2. Rank(W, m) \in Int /\ Rank(W, n) \in Int /\ m \in Nat /\ n \in Nat /\ Rvlimit \in Int
    <3>1. Rank(W, m) \in 0 .. Cardinality(W) - 1 /\ Rank(W, n) \in 0 .. Cardinality(W) - 1
      BY <1>1, <1>2, <2>1, RankOrder
    <3> QED BY <1>1, <2>1, <3>1, MwAssumption
  <2>3. n < m => Rank(W, n) < Rank(W, m)
    BY <1>1, <1>2, <2>1, RankOrder
  <2>4. m # n
    BY <2>1
  <2> QED BY <2>1, <2>2, <2>3, <2>4
<1>6. CASE rest = {}
  BY <1>1, <1>4, <1>6 DEF W, page
<1>7. CASE rest # {}
  <2> DEFINE c == CHOOSE x \in rest : \A y \in rest : x <= y
  <2>1. c \in rest /\ \A y \in rest : c <= y
    <3>1. rest \subseteq Nat
      BY <1>1
    <3>2. \E x \in rest : \A y \in rest : x <= y
      BY <1>7, <3>1, LeastNat
    <3> QED BY <3>2
  <2>2. Continue(from, end) = c
    BY <1>4, <1>7
  <2> HIDE DEF c
  <2>3. c \in W /\ c # 0 /\ \A y \in rest : y >= c
    BY <1>1, <2>1
  <2>4. \A m \in page : m < c
    BY <1>5, <2>1
  <2> QED BY <1>1, <2>2, <2>3, <2>4 DEF W, page
<1> QED BY <1>6, <1>7
-----------------------------------------------------------------------------
(* What has been collected when the next page is asked for: every revision *)
(* of the window before rvcontinue that was there all along.               *)
Collected ==
  /\ \A i, j \in DOMAIN out : i < j => out[i] < out[j]
  /\ \A i \in DOMAIN out : out[i] > call.start
Fetching == pc = "send" /\ call.caller \in Draining
UpToHere ==
  Fetching =>
    /\ call.start < call.end /\ rvcontinue <= call.end
    /\ \A i \in DOMAIN out : out[i] < rvcontinue
    /\ \A n \in kept : (n > call.start /\ n < rvcontinue) => \E i \in DOMAIN out : out[i] = n
WindowInv ==
  TypeOK /\ Collected /\ UpToHere /\ WindowIsWhole /\ (pc = "send" => result = "none")

(* A page that is added keeps the order. *)
LEMMA PageIsAdded ==
  ASSUME WindowInv, Fetching, NEW page, page \subseteq Rev,
         \A m \in page : m >= rvcontinue, out' = out \o Taken(page)
  PROVE  /\ out' \in Seq(Rev) /\ Len(out') = Len(out) + Len(Taken(page))
         /\ \A i, j \in DOMAIN out' : i < j => out'[i] < out'[j]
         /\ \A i \in DOMAIN out' : out'[i] > call.start
         /\ \A i \in DOMAIN out' : (\E k \in DOMAIN out : out'[i] = out[k]) \/ out'[i] \in page
         /\ \A n \in OfWindow(page) : \E i \in DOMAIN out' : out'[i] = n
         /\ \A k \in DOMAIN out : \E i \in DOMAIN out' : out'[i] = out[k]
<1>1. PICK t : t = Taken(page)
  OBVIOUS
<1>2. /\ t \in Seq(Rev) /\ DOMAIN t = 1 .. Len(t) /\ Len(t) \in Nat
      /\ \A i \in DOMAIN t : t[i] \in page /\ t[i] > call.start
      /\ \A i, j \in DOMAIN t : i < j => t[i] < t[j]
      /\ \A n \in OfWindow(page) : \E i \in DOMAIN t : t[i] = n
  <2>1. t \in Seq(OfWindow(page)) /\ OfWindow(page) \subseteq Rev
    BY <1>1, TakenOrder DEF OfWindow
  <2>2. DOMAIN t = 1 .. Len(t) /\ Len(t) \in Nat /\ t \in [1 .. Len(t) -> OfWindow(page)]
    BY <2>1, LenProperties
  <2>3. t \in Seq(Rev)
    BY <2>1, <2>2, SeqDef
  <2> QED BY <1>1, <2>2, <2>3, TakenOrder DEF OfWindow
<1>3. /\ out \in Seq(Rev) /\ DOMAIN out = 1 .. Len(out) /\ Len(out) \in Nat
      /\ \A i \in DOMAIN out : out[i] < rvcontinue /\ out[i] > call.start
      /\ \A i, j \in DOMAIN out : i < j => out[i] < out[j]
  BY LenProperties DEF WindowInv, TypeOK, Collected, UpToHere
<1>4. /\ out' \in Seq(Rev) /\ Len(out') = Len(out) + Len(t) /\ DOMAIN out' = 1 .. Len(out) + Len(t)
      /\ \A i \in 1 .. Len(out) + Len(t) :
           out'[i] = IF i <= Len(out) THEN out[i] ELSE t[i - Len(out)]
  <2>1. PICK c : c = out \o t
    OBVIOUS
  <2>2. /\ c \in Seq(Rev) /\ Len(c) = Len(out) + Len(t)
        /\ \A i \in 1 .. Len(out) + Len(t) :
             c[i] = IF i <= Len(out) THEN out[i] ELSE t[i - Len(out)]
    BY <1>2, <1>3, <2>1, ConcatProperties
  <2>3. DOMAIN c = 1 .. Len(c)
    BY <2>2, LenProperties
  <2> QED BY <1>1, <2>1, <2>2, <2>3
<1>5. ASSUME NEW i \in DOMAIN out'
      PROVE  \/ i \in DOMAIN out /\ out'[i] = out[i]
             \/ /\ i > Len(out) /\ i - Len(out) \in DOMAIN t
                /\ out'[i] = t[i - Len(out)]
  BY <1>2, <1>3, <1>4
<1>6. \A k \in DOMAIN out : k \in DOMAIN out' /\ out'[k] = out[k]
  BY <1>2, <1>3, <1>4
<1>7. \A k \in DOMAIN t : Len(out) + k \in DOMAIN out' /\ out'[Len(out) + k] = t[k]
  BY <1>2, <1>3, <1>4
<1>8. ASSUME NEW i \in DOMAIN out', NEW j \in DOMAIN out', i < j PROVE out'[i] < out'[j]
  <2>0. i \in Nat /\ j \in Nat
    BY <1>2, <1>3, <1>4
  <2>1. CASE i \in DOMAIN out /\ out'[i] = out[i] /\ j \in DOMAIN out /\ out'[j] = out[j]
    BY <1>3, <1>8, <2>1
  <2>2. CASE /\ i \in DOMAIN out /\ out'[i] = out[i]
             /\ j - Len(out) \in DOMAIN t /\ out'[j] = t[j - Len(out)]
    <3>1. out[i] < rvcontinue /\ t[j - Len(out)] >= rvcontinue
      BY <1>2, <1>3, <2>2
    <3>2. out[i] \in Int /\ t[j - Len(out)] \in Int /\ rvcontinue \in Int
      BY <1>2, <1>3, <2>2, MwAssumption, SMTT(20) DEF Rev, WindowInv, TypeOK
    <3> QED BY <2>2, <3>1, <3>2
  <2>3. CASE /\ i - Len(out) \in DOMAIN t /\ out'[i] = t[i - Len(out)]
             /\ j - Len(out) \in DOMAIN t /\ out'[j] = t[j - Len(out)]
    BY <1>2, <1>3, <1>8, <2>0, <2>3
  <2>4. CASE i > Len(out) /\ j \in DOMAIN out
    BY <1>3, <1>8, <2>0, <2>4
  <2> QED BY <1>5, <2>1, <2>2, <2>3, <2>4
<1>9. \A i \in DOMAIN out' : out'[i] > call.start
  BY <1>2, <1>3, <1>5
<1>10. \A i \in DOMAIN out' : (\E k \in DOMAIN out : out'[i] = out[k]) \/ out'[i] \in page
  BY <1>2, <1>5
<1>11. \A n \in OfWindow(page) : \E i \in DOMAIN out' : out'[i] = n
  BY <1>2, <1>7
<1> QED BY <1>1, <1>4, <1>6, <1>8, <1>9, <1>10, <1>11

(* What the retry loop does to its own state. *)
LEMMA FailureType ==
  ASSUME TypeOK, Failure
  PROVE  /\ attempt' \in 0 .. AttemptCap /\ slept' \in 0 .. retry_budget
         /\ pc = "send" /\ pc' \in {"idle", "send"} /\ result' \in Results
         /\ pc' = "send" => result' = result
         /\ pc' = "idle" => result' # "ok"
<1> USE MwAssumption
<1>1. pc = "send"
  BY DEF Failure
<1>2. ASSUME NEW r \in Results \ {"ok"}, Fails(r)
      PROVE  /\ UNCHANGED <<attempt, slept>> /\ pc' = "idle" /\ result' \in Results \ {"ok"}
  BY <1>2 DEF Fails, Finish
<1>3. ASSUME NEW s \in 0 .. retry_budget, Retry(s)
      PROVE  /\ attempt' \in 0 .. AttemptCap /\ slept' \in 0 .. retry_budget
             /\ UNCHANGED <<pc, result>>
  BY <1>3 DEF Retry, Sent, TypeOK
<1> DEFINE Ends == UNCHANGED <<attempt, slept>> /\ pc' = "idle" /\ result' \in Results \ {"ok"}
           Again == /\ attempt' \in 0 .. AttemptCap /\ slept' \in 0 .. retry_budget
                    /\ UNCHANGED <<pc, result>>
<1>4. \A r \in Results \ {"ok"} : FailsWithBody(r) => Ends
  BY <1>2 DEF FailsWithBody, Results
<1>5. Transport => Ends \/ Again
  BY <1>2, <1>3 DEF Transport, Results, TypeOK
<1>6. ServerError => Ends \/ Again
  BY <1>3, <1>4 DEF ServerError, Results, TypeOK
<1>7. Refused => Ends
  BY <1>2, <1>4 DEF Refused, Results
<1>8. ASSUME NEW ra \in RetryAfter \cup backoff_for, RateLimited(ra)
      PROVE  \/ Ends \/ Again
             \/ /\ UNCHANGED attempt /\ slept' \in 0 .. retry_budget
                /\ pc' = "idle" /\ result' = "budget"
  <2>1. ra \in Nat
    BY DEF backoff_for
  <2>2. SleptAfter(ra) \in 0 .. retry_budget
    BY <2>1 DEF SleptAfter, remaining, TypeOK
  <2>3. CASE remaining = 0
    BY <1>2, <1>8, <2>3 DEF RateLimited, Results
  <2>4. CASE remaining # 0
    BY <1>3, <1>8, <2>2, <2>4 DEF RateLimited, Finish
  <2> QED BY <2>3, <2>4
<1>9. Ends \/ Again => /\ attempt' \in 0 .. AttemptCap /\ slept' \in 0 .. retry_budget
                       /\ pc' \in {"idle", "send"} /\ result' \in Results
                       /\ pc' = "send" => result' = result
                       /\ pc' = "idle" => result' # "ok"
  BY <1>1 DEF TypeOK
<1> QED BY <1>1, <1>5, <1>6, <1>7, <1>8, <1>9 DEF Failure, Results, TypeOK

(* A page of results: one more step of the fetch, or its end. *)
LEMMA NextBatchWindow == ASSUME WindowInv, next_batch PROVE WindowInv'
<1> DEFINE page == PageOf(rvcontinue, call.end)
           next == Continue(rvcontinue, call.end)
<1>1. /\ Fetching /\ TypeOK /\ rvcontinue \in 0 .. MaxRevision /\ call.end \in 0 .. MaxRevision
      /\ call.start \in 0 .. MaxRevision /\ rvcontinue \in Nat /\ call.end \in Nat /\ call.start \in Nat
      /\ UNCHANGED <<history, made, call, kept>>
  BY MwAssumption DEF WindowInv, TypeOK, next_batch, Fetching, wiki
<1>2. /\ page \subseteq Rev /\ page \subseteq Wanted(rvcontinue, call.end)
      /\ \A m \in page : m >= rvcontinue /\ m <= call.end /\ m \in Nat
  <2>1. page \subseteq Rev
    BY <1>1, PageOrder
  <2> QED BY <2>1, MwAssumption DEF PageOf, Wanted, Rev
<1>3. \A n \in kept : n \in Rev /\ (n >= rvcontinue /\ n <= call.end => n \in Wanted(rvcontinue, call.end))
  BY <1>1 DEF TypeOK, Wanted
<1>4. CASE call.end \in page /\ Finish("ok") /\ out' = out \o Taken(page)
           /\ UNCHANGED <<attempt, slept, rvcontinue>>
  <2>1. /\ out' \in Seq(Rev)
        /\ \A i, j \in DOMAIN out' : i < j => out'[i] < out'[j]
        /\ \A i \in DOMAIN out' : out'[i] > call.start
        /\ \A i \in DOMAIN out' : (\E k \in DOMAIN out : out'[i] = out[k]) \/ out'[i] \in page
        /\ \A n \in OfWindow(page) : \E i \in DOMAIN out' : out'[i] = n
        /\ \A k \in DOMAIN out : \E i \in DOMAIN out' : out'[i] = out[k]
    <3>1. \A m \in page : m >= rvcontinue
      BY <1>2
    <3> HIDE DEF page
    <3> QED BY <1>1, <1>2, <1>4, <3>1, PageIsAdded
  <2>2. TypeOK'
    BY <1>1, <1>4, <2>1 DEF TypeOK, Finish, Results
  <2>3. Collected'
    BY <1>1, <2>1 DEF Collected
  <2>4. pc' = "idle" /\ result' = "ok"
    BY <1>4 DEF Finish
  <2>5. \A n \in kept : (n > call.start /\ n <= call.end) => \E i \in DOMAIN out' : out'[i] = n
    <3> SUFFICES ASSUME NEW n \in kept, n > call.start, n <= call.end
                 PROVE  \E i \in DOMAIN out' : out'[i] = n
      OBVIOUS
    <3>1. CASE n < rvcontinue
      BY <1>1, <2>1, <3>1 DEF WindowInv, UpToHere
    <3>2. CASE n >= rvcontinue
      <4>1. n \in Wanted(rvcontinue, call.end)
        BY <1>3, <3>2
      <4>2. n \in page
        <5>1. next = 0 => n \in page
          BY <1>1, <4>1, PageOrder
        <5>2. next # 0 => n \in page \/ (n >= next /\ call.end < next)
          BY <1>1, <1>4, <4>1, PageOrder
        <5>3. next # 0 => next \in Rev
          BY <1>1, PageOrder DEF Wanted, TypeOK
        <5>4. n \in Nat
          BY <1>3, MwAssumption DEF Rev
        <5> HIDE DEF next, page
        <5> QED BY <1>1, <5>1, <5>2, <5>3, <5>4, MwAssumption DEF Rev
      <4>3. n \in OfWindow(page)
        BY <4>2 DEF OfWindow
      <4> QED BY <2>1, <4>3
    <3>3. n \in Int
      BY <1>3, MwAssumption DEF Rev
    <3> QED BY <1>1, <3>1, <3>2, <3>3
  <2>6. Len(out') > 0 /\ out'[Len(out')] = call.end
    <3>1. call.end \in OfWindow(page)
      BY <1>1, <1>4 DEF OfWindow, WindowInv, UpToHere
    <3>2. PICK e \in DOMAIN out' : out'[e] = call.end
      BY <2>1, <3>1
    <3>3. DOMAIN out' = 1 .. Len(out') /\ Len(out') \in Nat
      BY <2>1, LenProperties
    <3>4. Len(out') \in DOMAIN out' /\ Len(out') > 0
      BY <3>2, <3>3
    <3>5. out'[Len(out')] <= call.end
      <4>1. \A k \in DOMAIN out : out[k] < rvcontinue /\ out[k] \in Nat
        BY <1>1, LenProperties, MwAssumption DEF WindowInv, UpToHere, TypeOK, Rev
      <4>2. rvcontinue <= call.end
        BY <1>1 DEF WindowInv, UpToHere
      <4> HIDE DEF page
      <4> QED BY <1>1, <1>2, <2>1, <3>4, <4>1, <4>2
    <3>6. ~ (e < Len(out'))
      <4>1. out'[Len(out')] \in Nat
        BY <2>1, <3>4, LenProperties, MwAssumption DEF Rev
      <4>2. e < Len(out') => out'[e] < out'[Len(out')]
        BY <2>1, <3>2, <3>4
      <4> QED BY <1>1, <3>2, <3>5, <4>1, <4>2
    <3>7. e = Len(out')
      BY <3>2, <3>3, <3>6
    <3> QED BY <3>2, <3>4, <3>7
  <2>7. WindowIsWhole'
    BY <1>1, <2>1, <2>5, <2>6 DEF WindowIsWhole
  <2> QED BY <2>2, <2>3, <2>4, <2>7 DEF WindowInv, UpToHere, Fetching
<1>5. CASE Fails("ended_early") /\ UNCHANGED <<out, rvcontinue>>
  <2>1. TypeOK'
    BY <1>1, <1>5 DEF TypeOK, Fails, Finish, Results
  <2> QED BY <1>1, <1>5, <2>1
        DEF WindowInv, Collected, UpToHere, Fetching, WindowIsWhole, Fails, Finish
<1>6. CASE /\ next # 0 /\ call.end \notin page
           /\ out' = out \o Taken(page) /\ rvcontinue' = NextPage(next)
           /\ attempt' = 0 /\ slept' = 0 /\ UNCHANGED <<pc, result>>
  <2>1. /\ out' \in Seq(Rev)
        /\ \A i, j \in DOMAIN out' : i < j => out'[i] < out'[j]
        /\ \A i \in DOMAIN out' : out'[i] > call.start
        /\ \A i \in DOMAIN out' : (\E k \in DOMAIN out : out'[i] = out[k]) \/ out'[i] \in page
        /\ \A n \in OfWindow(page) : \E i \in DOMAIN out' : out'[i] = n
        /\ \A k \in DOMAIN out : \E i \in DOMAIN out' : out'[i] = out[k]
    <3>1. \A m \in page : m >= rvcontinue
      BY <1>2
    <3> HIDE DEF page
    <3> QED BY <1>1, <1>2, <1>6, <3>1, PageIsAdded
  <2>2. /\ rvcontinue' = next /\ next \in Rev /\ next >= rvcontinue /\ next <= call.end
        /\ next \in Nat
    <3>1. next \in Wanted(rvcontinue, call.end)
      BY <1>1, <1>6, PageOrder
    <3>2. rvcontinue' = next
      BY <1>6 DEF NextPage
    <3> HIDE DEF next
    <3>3. next \in history /\ next >= rvcontinue /\ next <= call.end
      BY <3>1 DEF Wanted
    <3>4. next \in Rev /\ next \in Nat
      BY <1>1, <3>3, MwAssumption DEF TypeOK, Rev
    <3> QED BY <3>2, <3>3, <3>4
  <2>3. TypeOK'
    BY <1>1, <1>6, <2>1, <2>2, MwAssumption DEF TypeOK, Rev
  <2>4. Collected'
    BY <1>1, <2>1 DEF Collected
  <2>5. \A i \in DOMAIN out' : out'[i] < next
    <3>1. \A m \in page : m < next
      BY <1>1, <1>6, PageOrder
    <3>2. \A k \in DOMAIN out : out[k] < rvcontinue /\ out[k] \in Nat
      BY <1>1, LenProperties, MwAssumption DEF WindowInv, UpToHere, TypeOK, Rev
    <3> HIDE DEF page, next
    <3> QED BY <1>1, <2>1, <2>2, <3>1, <3>2
  <2>6. ASSUME NEW n \in kept, n > call.start, n < next PROVE \E i \in DOMAIN out' : out'[i] = n
    <3>0. n \in Nat
      BY <1>3, MwAssumption DEF Rev
    <3>1. CASE n < rvcontinue
      BY <1>1, <2>1, <2>6, <3>1 DEF WindowInv, UpToHere
    <3>2. CASE n >= rvcontinue
      <4>1. n \in Wanted(rvcontinue, call.end)
        <5> HIDE DEF next
        <5> QED BY <1>1, <1>3, <2>2, <2>6, <3>0, <3>2
      <4>2. n \in page \/ n >= next
        BY <1>1, <1>6, <4>1, PageOrder
      <4>3. n \in OfWindow(page)
        <5> HIDE DEF next, page
        <5> QED BY <2>2, <2>6, <3>0, <4>2 DEF OfWindow
      <4> QED BY <2>1, <4>3
    <3> QED BY <1>1, <3>0, <3>1, <3>2
  <2>7. UpToHere'
    <3> HIDE DEF next
    <3> QED BY <1>1, <1>6, <2>2, <2>5, <2>6 DEF WindowInv, UpToHere, Fetching
  <2>8. pc' = "send" /\ result' = "none"
    BY <1>1, <1>6 DEF WindowInv, Fetching
  <2> QED BY <2>3, <2>4, <2>7, <2>8 DEF WindowInv, WindowIsWhole
<1> QED BY <1>4, <1>5, <1>6 DEF next_batch

(* Every other step leaves what was collected, or starts afresh. *)
LEMMA WindowStep == ASSUME WindowInv, [Next]_vars PROVE WindowInv'
<1> USE DEF wiki
<1>1. CASE UNCHANGED vars
  BY <1>1 DEF vars, WindowInv, TypeOK, Collected, UpToHere, Fetching, WindowIsWhole
<1>2. CASE MakeEdit
  <2>1. made + 1 \in Rev /\ made' \in 0 .. MaxRevision /\ kept \subseteq history'
    BY <1>2, MwAssumption DEF MakeEdit, WindowInv, TypeOK, Rev
  <2>2. TypeOK'
    BY <1>2, <2>1 DEF MakeEdit, WindowInv, TypeOK
  <2> QED BY <1>2, <2>2 DEF MakeEdit, WindowInv, Collected, UpToHere, Fetching, WindowIsWhole
<1>3. ASSUME NEW n \in Rev, RemoveRevision(n) PROVE WindowInv'
  <2>1. TypeOK' /\ kept' \subseteq kept
    BY <1>3 DEF RemoveRevision, WindowInv, TypeOK
  <2> QED BY <1>3, <2>1
        DEF RemoveRevision, WindowInv, Collected, UpToHere, Fetching, WindowIsWhole
<1>4. ASSUME NEW c \in Caller, NEW s \in 0 .. MaxRevision, NEW e \in 0 .. MaxRevision, Call(c, s, e)
      PROVE  WindowInv'
  <2>1. TypeOK'
    <3>1. call' \in [caller : Callers, start : 0 .. MaxRevision, end : 0 .. MaxRevision]
      BY <1>4, MwAssumption DEF Call
    <3>2. << >> \in Seq(Rev) /\ 0 \in 0 .. AttemptCap /\ 0 \in 0 .. retry_budget
          /\ 0 \in 0 .. MaxRevision
      BY EmptySeq, MwAssumption
    <3> QED BY <1>4, <3>1, <3>2 DEF Call, WindowInv, TypeOK, Results
  <2>2. out' = << >> /\ DOMAIN out' = {} /\ rvcontinue' = 0
    BY <1>4 DEF Call
  <2>3. call'.start = s /\ call'.end = e /\ s < e /\ s \in Nat /\ e \in Nat
    BY <1>4, MwAssumption DEF Call
  <2>4. Collected'
    BY <2>2 DEF Collected
  <2>5. UpToHere'
    <3>1. \A n \in kept' : ~ (n > call'.start /\ n < rvcontinue')
      <4>1. kept' \subseteq Nat
        BY <1>4, MwAssumption DEF Call, WindowInv, TypeOK, Rev
      <4> QED BY <2>2, <2>3, <4>1
    <3> QED BY <2>2, <2>3, <3>1 DEF UpToHere
  <2>6. result' = "none"
    BY <1>4 DEF Call
  <2> QED BY <2>1, <2>4, <2>5, <2>6 DEF WindowInv, WindowIsWhole
<1>5. CASE Failure
  <2>1. /\ UNCHANGED <<history, made, call, rvcontinue, out, kept>>
        /\ pc = "send" /\ (pc' = "send" => result' = result) /\ (pc' = "idle" => result' # "ok")
        /\ pc' \in {"idle", "send"}
    BY <1>5, FailureType DEF Failure, WindowInv
  <2>2. TypeOK'
    BY <1>5, <2>1, FailureType DEF WindowInv, TypeOK
  <2>3. result' # "ok"
    BY <2>1 DEF WindowInv
  <2> QED BY <2>1, <2>2, <2>3 DEF WindowInv, Collected, UpToHere, Fetching, WindowIsWhole
<1>6. CASE next_batch
  BY <1>6, NextBatchWindow
<1>7. CASE Success
  <2>1. TypeOK'
    BY <1>7 DEF Success, Fails, Finish, WindowInv, TypeOK, Results
  <2> QED BY <1>7, <2>1
        DEF Success, Fails, Finish, WindowInv, Collected, UpToHere, Fetching, WindowIsWhole
<1> QED BY <1>1, <1>2, <1>3, <1>4, <1>5, <1>6, <1>7 DEF Next, Client

(* A fetch that succeeds hands over its whole window, in order and without *)
(* repetition, for any page size, whatever the wiki does between two pages *)
(* and however often a page has to be asked for again.                     *)
THEOREM WindowsAreWhole == Spec => []WindowIsWhole
<1>1. Init => WindowInv
  <2> SUFFICES ASSUME Init PROVE WindowInv
    OBVIOUS
  <2>1. << >> \in Seq(Rev) /\ DOMAIN << >> = {}
    BY EmptySeq
  <2>2. TypeOK
    BY <2>1, MwAssumption DEF Init, TypeOK, Callers, Draining, Results, Rev
  <2> QED BY <2>1, <2>2 DEF Init, WindowInv, Collected, UpToHere, Fetching, WindowIsWhole
<1>2. WindowInv /\ [Next]_vars => WindowInv'
  BY WindowStep
<1>3. WindowInv => WindowIsWhole
  BY DEF WindowInv
<1> QED
  BY <1>1, <1>2, <1>3, PTL DEF Spec
=============================================================================
