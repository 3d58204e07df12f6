----------------------------- MODULE IngestProofs -----------------------------
(***************************************************************************)
(* Theorems about Ingest: whatever stops, drops or fails, the stream       *)
(* leaves no event out, the durable checkpoint never runs ahead of the     *)
(* work, and no snapshot has a gap.  Languages, pages and all bounds are   *)
(* arbitrary.                                                              *)
(***************************************************************************)
EXTENDS Ingest, DataLemmas

USE DEF daemon

(* The part of the type invariant the stream's arguments need. *)
StreamType ==
  /\ log \in Seq(Edit)
  /\ durable \in [Lang -> Nat] /\ checkpoint \in [Lang -> Nat]
  /\ last_event_id \in Nat /\ position \in Nat /\ event \in Nat
  /\ since \in Int
  /\ pc \in {"down", "disconnected", "streaming", "open", "apply", "advance"}

(* An id the daemon holds is that of an edit that was made. *)
IdsExist ==
  /\ \A l \in Lang : durable[l] <= Len(log) /\ checkpoint[l] <= Len(log)
  /\ last_event_id <= Len(log) /\ position <= Len(log) /\ since <= Len(log)

(* What a stopped process held is gone; between two events there is none,  *)
(* and the one at work is the last the stream sent.                        *)
Held ==
  /\ pc = "down" => position = 0 /\ checkpoint = NoIds
  /\ pc \in {"open", "apply", "advance"} =>
       /\ event \in Wanted /\ event = position
  /\ pc \in {"down", "disconnected", "streaming"} => event = 0
  /\ pc = "advance" => event \in handled

(* The wanted events up to id, after the last start without an id, are in done. *)
Behind(id, done) ==
  \A n \in Wanted : (since >= 0 /\ since < n /\ n <= id) => n \in done

StreamInv ==
  /\ StreamType /\ IdsExist /\ Held
  /\ \A l \in Lang : Behind(durable[l], handled) /\ Behind(checkpoint[l], handled)
  /\ Behind(last_event_id, handled \cup {event})
  /\ Behind(position, handled \cup {event})

LEMMA InitStream == Init => StreamInv
BY DEF Init, StreamInv, StreamType, IdsExist, Held, Behind, Wanted, NoIds

(* The log only grows, and ids already given out are not those of new edits. *)
LEMMA EditKeepsStream ==
  ASSUME StreamInv, NEW e \in Edit, MakeEdit(e)
  PROVE  StreamInv'
<1>1. /\ log' = Append(log, e) /\ log' \in Seq(Edit) /\ Len(log') = Len(log) + 1
      /\ \A n \in 1 .. Len(log) : log'[n] = log[n]
      /\ Len(log) \in Nat /\ DOMAIN log = 1 .. Len(log) /\ DOMAIN log' = 1 .. Len(log')
  BY DEF StreamInv, StreamType, MakeEdit
<1>2. \A n \in Wanted' : n \in Wanted \/ n = Len(log) + 1
  BY <1>1 DEF Wanted
<1>3. Wanted \subseteq Wanted'
  BY <1>1 DEF Wanted
<1>4. ASSUME NEW id \in Nat, id <= Len(log), NEW done, Behind(id, done)
      PROVE  \A n \in Wanted' : (since >= 0 /\ since < n /\ n <= id) => n \in done
  BY <1>1, <1>2, <1>4 DEF Behind
<1>5. StreamType' /\ IdsExist' /\ Held'
  BY <1>1, <1>3 DEF StreamInv, StreamType, IdsExist, Held, MakeEdit
<1> QED BY <1>4, <1>5 DEF StreamInv, StreamType, IdsExist, Behind, MakeEdit

LEMMA StartKeepsStream == ASSUME StreamInv, Start PROVE StreamInv'
<1>1. PICK id \in {0} \cup { durable[l] : l \in Lang } : last_event_id' = id
  BY DEF Start, Header
<1>2. last_event_id' = 0 \/ \E l \in Lang : last_event_id' = durable[l]
  BY <1>1
<1>3. Wanted' = Wanted /\ 0 \notin Wanted /\ Wanted \subseteq Nat
  BY DEF StreamInv, StreamType, Start, Wanted
<1>4. StreamType' /\ IdsExist' /\ Held'
  BY <1>2, <1>3 DEF StreamInv, StreamType, IdsExist, Held, Start
<1>5. Behind(last_event_id, handled \cup {event})'
  BY <1>2, <1>3 DEF StreamInv, StreamType, Behind, Start
<1> QED BY <1>3, <1>4, <1>5 DEF StreamInv, Behind, Start

LEMMA StopKeepsStream == ASSUME StreamInv, Crash \/ Shutdown PROVE StreamInv'
<1>1. durable' = durable \/ durable' = checkpoint
  BY DEF Crash, Shutdown
<1>2. Wanted' = Wanted /\ 0 \notin Wanted /\ Wanted \subseteq Nat
  BY DEF StreamInv, StreamType, Crash, Shutdown, Stop, Wanted
<1>3. StreamType' /\ IdsExist' /\ Held'
  BY <1>1, <1>2 DEF StreamInv, StreamType, IdsExist, Held, Crash, Shutdown, Stop, NoIds
<1>4. \A l \in Lang : Behind(durable[l], handled)'
  BY <1>1, <1>2 DEF StreamInv, Behind, Crash, Shutdown, Stop
<1>5. \A l \in Lang : Behind(checkpoint[l], handled)'
  BY <1>2 DEF Behind, Crash, Shutdown, Stop, NoIds
<1>6. last_event_id' = 0 /\ position' = 0
  BY DEF Crash, Shutdown, Stop
<1> QED BY <1>2, <1>3, <1>4, <1>5, <1>6 DEF StreamInv, Behind

(* A connection without an id begins after all edits made so far. *)
LEMMA ConnectKeepsStream == ASSUME StreamInv, Connect PROVE StreamInv'
<1>1. Wanted' = Wanted /\ Wanted \subseteq 1 .. Len(log) /\ Len(log) \in Nat
  BY DEF StreamInv, StreamType, Connect, Wanted
<1>2. StreamType' /\ IdsExist' /\ Held'
  BY <1>1 DEF StreamInv, StreamType, IdsExist, Held, Connect, ResumeFrom
<1>3. CASE last_event_id = 0
  BY <1>1, <1>2, <1>3 DEF StreamInv, StreamType, Behind, Connect, ResumeFrom
<1>4. CASE last_event_id # 0
  BY <1>1, <1>2, <1>4 DEF StreamInv, Behind, Connect, ResumeFrom
<1> QED BY <1>3, <1>4

LEMMA DisconnectKeepsStream == ASSUME StreamInv, Disconnect PROVE StreamInv'
<1>1. Wanted' = Wanted /\ 0 \notin Wanted /\ Wanted \subseteq Nat
  BY DEF StreamInv, StreamType, Disconnect, Wanted
<1> QED BY <1>1 DEF StreamInv, StreamType, IdsExist, Held, Behind, Disconnect

(* The stream moves by one event: a dropped one is not wanted, any other   *)
(* is the event at work.                                                   *)
LEMMA DeliverKeepsStream == ASSUME StreamInv, Deliver PROVE StreamInv'
<1>1. Wanted' = Wanted /\ Wanted \subseteq 1 .. Len(log) /\ Len(log) \in Nat
  BY DEF StreamInv, StreamType, Deliver, Wanted
<1>2. IF log[position + 1].page = NoPage
        THEN pc' = "streaming" /\ event' = 0 /\ position + 1 \notin Wanted
        ELSE pc' = "open" /\ event' = position + 1 /\ position + 1 \in Wanted
  BY DEF StreamInv, StreamType, Held, Deliver, Wanted
<1>3. event = 0 /\ position' = position + 1 /\ last_event_id' = position + 1
  BY DEF StreamInv, Held, Deliver
<1>4. StreamType' /\ IdsExist' /\ Held'
  BY <1>1, <1>2, <1>3 DEF StreamInv, StreamType, IdsExist, Held, Deliver
<1>5. Behind(position, handled \cup {event})'
  BY <1>1, <1>2, <1>3 DEF StreamInv, StreamType, Behind, Deliver
<1> QED BY <1>1, <1>3, <1>4, <1>5 DEF StreamInv, Behind, Deliver

(* apply_event returns with its event handled. *)
LEMMA ApplyKeepsStream == ASSUME StreamInv, ApplyOpen \/ ApplyWindow PROVE StreamInv'
<1>1. Wanted' = Wanted
  BY DEF ApplyOpen, ApplyWindow, Wanted
<1>2. \/ pc' = "advance" /\ handled' = handled \cup {event}
      \/ pc' = "apply" /\ handled' = handled
  BY DEF ApplyOpen, ApplyWindow, Returned
<1>3. pc \in {"open", "apply"} /\ UNCHANGED <<log, durable, checkpoint, last_event_id,
                                              position, event, since>>
  BY DEF ApplyOpen, ApplyWindow
<1>4. StreamType' /\ IdsExist' /\ Held'
  BY <1>1, <1>2, <1>3 DEF StreamInv, StreamType, IdsExist, Held
<1> QED BY <1>1, <1>2, <1>3, <1>4 DEF StreamInv, Behind

(* The id recorded is that of the event just handled, with all before it. *)
LEMMA AdvanceKeepsStream == ASSUME StreamInv, Advance PROVE StreamInv'
<1> DEFINE l == language[page]
<1>1. Wanted' = Wanted /\ 0 \notin Wanted
  BY DEF StreamInv, StreamType, Advance, Wanted
<1>2. /\ event \in handled /\ event \in Nat /\ event = position
      /\ pc' = "streaming" /\ event' = 0
      /\ checkpoint' = [checkpoint EXCEPT ![l] = event]
      /\ durable' = durable \/ durable' = checkpoint'
  BY DEF StreamInv, StreamType, Held, Advance, CheckpointAt
<1>3. Behind(event, handled)
  BY <1>2 DEF StreamInv, Behind
<1>4. \A k \in Lang : checkpoint'[k] = event \/ checkpoint'[k] = checkpoint[k]
  BY <1>2 DEF StreamInv, StreamType
<1>5. checkpoint' \in [Lang -> Nat]
  BY <1>2 DEF StreamInv, StreamType
<1>6. \A k \in Lang : Behind(checkpoint[k], handled)' /\ checkpoint'[k] <= Len(log)
  BY <1>1, <1>2, <1>3, <1>4 DEF StreamInv, IdsExist, Behind, Advance
<1>7. \A k \in Lang : Behind(durable[k], handled)' /\ durable'[k] <= Len(log)
  BY <1>1, <1>2, <1>6 DEF StreamInv, IdsExist, Behind, Advance
<1>8. StreamType' /\ IdsExist' /\ Held'
  BY <1>2, <1>5, <1>6, <1>7 DEF StreamInv, StreamType, IdsExist, Held, Advance
<1> QED BY <1>1, <1>2, <1>6, <1>7, <1>8 DEF StreamInv, Behind, Advance

LEMMA NextKeepsStream == StreamInv /\ [Next]_vars => StreamInv'
<1> SUFFICES ASSUME StreamInv, [Next]_vars PROVE StreamInv'
  OBVIOUS
<1>1. CASE UNCHANGED <<log, durable, daemon, handled>>
  BY <1>1 DEF StreamInv, StreamType, IdsExist, Held, Behind, Wanted
<1>2. (UNCHANGED vars \/ \E p \in Page : ColdBuildFetch(p) \/ ColdBuildWrite(p))
        => UNCHANGED <<log, durable, daemon, handled>>
  BY DEF vars, ColdBuildFetch, ColdBuildWrite
<1> QED BY <1>1, <1>2, EditKeepsStream, StartKeepsStream, StopKeepsStream,
     ConnectKeepsStream, DisconnectKeepsStream, DeliverKeepsStream,
     ApplyKeepsStream, AdvanceKeepsStream DEF Next

(* Whatever the order of crashes, restarts, lost connections and failed    *)
(* applies, no wanted event the stream is past has been left out since the *)
(* last start without an id: the id to resume from, like the checkpoint a  *)
(* restart takes it from, is never past an event that is not handled.      *)
THEOREM SkipsNothing == Spec => []StreamSkipsNothing
<1>1. StreamInv => StreamSkipsNothing
  BY DEF StreamInv, StreamSkipsNothing, Behind
<1> QED BY <1>1, InitStream, NextKeepsStream, PTL DEF Spec

(* What checkpoint.json lets a restart skip has been handled, in every     *)
(* language, although a restart resumes from any one of them and flushes   *)
(* are batched and may fail.                                               *)
THEOREM CheckpointIsBehind == Spec => []CheckpointBehindWork
<1>1. StreamInv => CheckpointBehindWork
  BY DEF StreamInv, CheckpointBehindWork, Behind
<1> QED BY <1>1, InitStream, NextKeepsStream, PTL DEF Spec
-----------------------------------------------------------------------------
(* Lists of ids: what is named in one, and that it goes up.                *)
Named(s)   == { s[i] : i \in DOMAIN s }
Ascends(s) == \A i, j \in DOMAIN s : i < j => s[i] < s[j]

LEMMA NamedConcat ==
  ASSUME NEW s \in Seq(Nat), NEW t \in Seq(Nat)
  PROVE  /\ s \o t \in Seq(Nat) /\ Named(s \o t) = Named(s) \cup Named(t)
         /\ (/\ Ascends(s) /\ Ascends(t)
             /\ \A x \in Named(s), y \in Named(t) : x < y) => Ascends(s \o t)
<1>1. /\ s \o t \in Seq(Nat) /\ Len(s \o t) = Len(s) + Len(t)
      /\ \A i \in 1 .. Len(s) + Len(t) :
           (s \o t)[i] = IF i <= Len(s) THEN s[i] ELSE t[i - Len(s)]
      /\ Len(s) \in Nat /\ Len(t) \in Nat
      /\ DOMAIN s = 1 .. Len(s) /\ DOMAIN t = 1 .. Len(t)
  BY ConcatProperties, LenProperties
<1>2. DOMAIN (s \o t) = 1 .. Len(s) + Len(t)
  BY <1>1, LenProperties
<1>3. PICK u : u = s \o t
  OBVIOUS
<1>4. PICK m : m = Len(s)
  OBVIOUS
<1>5. PICK n : n = Len(t)
  OBVIOUS
<1>6. /\ m \in Nat /\ n \in Nat /\ DOMAIN u = 1 .. m + n
      /\ DOMAIN s = 1 .. m /\ DOMAIN t = 1 .. n
      /\ \A i \in 1 .. m : u[i] = s[i]
      /\ \A i \in m + 1 .. m + n : u[i] = t[i - m] /\ i - m \in 1 .. n
      /\ \A i \in 1 .. n : u[m + i] = t[i] /\ m + i \in 1 .. m + n
  BY <1>1, <1>2, <1>3, <1>4, <1>5
<1>7. Named(u) = Named(s) \cup Named(t)
  <2>1. ASSUME NEW x \in Named(u) PROVE x \in Named(s) \cup Named(t)
    <3>1. PICK i \in 1 .. m + n : x = u[i]
      BY <1>6 DEF Named
    <3>2. i \in 1 .. m \/ i \in m + 1 .. m + n
      BY <1>6
    <3> QED BY <1>6, <3>1, <3>2 DEF Named
  <2>2. ASSUME NEW x \in Named(s) PROVE x \in Named(u)
    <3>1. PICK i \in 1 .. m : x = s[i]
      BY <1>6 DEF Named
    <3>2. i \in 1 .. m + n /\ x = u[i]
      BY <1>6, <3>1
    <3> QED BY <1>6, <3>2 DEF Named
  <2>3. ASSUME NEW x \in Named(t) PROVE x \in Named(u)
    <3>1. PICK i \in 1 .. n : x = t[i]
      BY <1>6 DEF Named
    <3>2. m + i \in 1 .. m + n /\ x = u[m + i]
      BY <1>6, <3>1
    <3> QED BY <1>6, <3>2 DEF Named
  <2> QED BY <2>1, <2>2, <2>3
<1>8. ASSUME Ascends(s), Ascends(t), \A x \in Named(s), y \in Named(t) : x < y
      PROVE  Ascends(u)
  <2> SUFFICES ASSUME NEW i \in 1 .. m + n, NEW j \in 1 .. m + n, i < j
               PROVE  u[i] < u[j]
    BY <1>6 DEF Ascends
  <2>1. CASE j \in 1 .. m
    <3>1. i \in 1 .. m
      BY <1>6, <2>1
    <3> QED BY <1>6, <1>8, <2>1, <3>1 DEF Ascends
  <2>2. CASE i \in m + 1 .. m + n
    <3>1. j \in m + 1 .. m + n
      BY <1>6, <2>2
    <3>2. i - m \in 1 .. n /\ j - m \in 1 .. n /\ i - m < j - m
      BY <1>6, <2>2, <3>1
    <3>3. t[i - m] < t[j - m]
      BY <1>6, <1>8, <3>2 DEF Ascends
    <3> QED BY <1>6, <2>2, <3>1, <3>3
  <2>3. CASE i \in 1 .. m /\ j \in m + 1 .. m + n
    <3>1. s[i] \in Named(s) /\ t[j - m] \in Named(t)
      BY <1>6, <2>3 DEF Named
    <3> QED BY <1>6, <1>8, <2>3, <3>1
  <2> QED BY <1>6, <2>1, <2>2, <2>3
<1> QED BY <1>1, <1>3, <1>7, <1>8

(* InOrder names the ids of a set, and goes up. *)
LEMMA InOrderIs ==
  ASSUME NEW S, NEW m \in Nat, S \subseteq 1 .. m
  PROVE  /\ InOrder(S) \in Seq(Nat) /\ Named(InOrder(S)) = S
         /\ Ascends(InOrder(S))
<1>1. S \subseteq Nat /\ IsFiniteSet(S)
  <2>1. IsFiniteSet(1 .. m)
    BY FS_Interval
  <2>2. IsFiniteSet(S)
    BY <2>1, FS_Subset
  <2> QED BY <2>2
<1>2. InOrder(S) = Listed(S)
  BY DEF InOrder, Listed, Rank, Below
<1>3. /\ InOrder(S) \in Seq(S) /\ \A i \in DOMAIN InOrder(S) : InOrder(S)[i] \in S
      /\ \A i, j \in DOMAIN InOrder(S) : i < j => InOrder(S)[i] < InOrder(S)[j]
      /\ \A n \in S : \E i \in DOMAIN InOrder(S) : InOrder(S)[i] = n
  BY <1>1, <1>2, ListedInOrder
<1>4. InOrder(S) \in Seq(Nat)
  <2>1. PICK t : t = InOrder(S)
    OBVIOUS
  <2>2. t \in [1 .. Len(t) -> S] /\ Len(t) \in Nat
    BY <1>3, <2>1, LenProperties
  <2>3. t \in [1 .. Len(t) -> Nat]
    BY <1>1, <2>2
  <2> QED BY <2>1, <2>2, <2>3, SeqDef
<1> QED BY <1>3, <1>4 DEF Named, Ascends

(* Two lists that go up and name the same ids are one list: they cannot    *)
(* differ first at i, since the smaller of the two would be missing there. *)
LEMMA FirstDifference ==
  ASSUME NEW s \in Seq(Nat), NEW t \in Seq(Nat), Ascends(s), Ascends(t),
         Named(s) \subseteq Named(t), NEW i \in DOMAIN s,
         \A j \in 1 .. i - 1 : j \in DOMAIN t /\ s[j] = t[j]
  PROVE  i \in DOMAIN t /\ t[i] <= s[i]
<1>1. /\ DOMAIN s = 1 .. Len(s) /\ DOMAIN t = 1 .. Len(t)
      /\ Len(s) \in Nat /\ Len(t) \in Nat
      /\ \A j \in 1 .. Len(t) : t[j] \in Nat
  BY LenProperties
<1>2. PICK k \in DOMAIN t : s[i] = t[k]
  BY DEF Named
<1>3. ~ (k < i)
  <2> SUFFICES ASSUME k < i PROVE FALSE
    OBVIOUS
  <2>1. k \in 1 .. i - 1 /\ k \in DOMAIN s
    BY <1>1
  <2>2. s[k] < s[i] /\ s[k] = t[k]
    BY <2>1 DEF Ascends
  <2> QED BY <1>1, <1>2, <2>2
<1>4. i \in DOMAIN t
  BY <1>1, <1>3
<1>5. i < k => t[i] < t[k]
  BY <1>4 DEF Ascends
<1> QED BY <1>1, <1>2, <1>3, <1>4, <1>5

LEMMA SameAscending ==
  ASSUME NEW s \in Seq(Nat), NEW t \in Seq(Nat), Ascends(s), Ascends(t),
         Named(s) = Named(t)
  PROVE  s = t
<1>1. /\ DOMAIN s = 1 .. Len(s) /\ DOMAIN t = 1 .. Len(t)
      /\ Len(s) \in Nat /\ Len(t) \in Nat
      /\ \A j \in 1 .. Len(s) : s[j] \in Nat
      /\ \A j \in 1 .. Len(t) : t[j] \in Nat
  BY LenProperties
<1> DEFINE agree(i) == i \in DOMAIN s /\ i \in DOMAIN t /\ s[i] = t[i]
           bad == { i \in DOMAIN s \cup DOMAIN t : ~ agree(i) }
<1>2. bad = {}
  <2> SUFFICES ASSUME bad # {} PROVE FALSE
    OBVIOUS
  <2>1. PICK i \in bad : \A k \in bad : i <= k
    <3>1. bad \subseteq Nat
      BY <1>1
    <3> HIDE DEF bad
    <3> QED BY <3>1, LeastNat
  <2>2. i \in DOMAIN s \cup DOMAIN t /\ ~ agree(i)
    OBVIOUS
  <2>3. \A j \in 1 .. i - 1 : agree(j)
    <3> TAKE j \in 1 .. i - 1
    <3>1. j \in DOMAIN s \cup DOMAIN t /\ ~ (i <= j)
      BY <1>1, <2>2
    <3> QED BY <2>1, <3>1
  <2>4. i \in DOMAIN s => i \in DOMAIN t /\ t[i] <= s[i]
    BY <2>3, FirstDifference
  <2>5. i \in DOMAIN t => i \in DOMAIN s /\ s[i] <= t[i]
    <3>1. \A j \in 1 .. i - 1 : j \in DOMAIN s /\ t[j] = s[j]
      BY <2>3
    <3> QED BY <3>1, FirstDifference
  <2>6. i \in 1 .. Len(s) /\ i \in 1 .. Len(t) /\ t[i] <= s[i] /\ s[i] <= t[i]
    BY <1>1, <2>2, <2>4, <2>5
  <2>7. s[i] = t[i]
    BY <1>1, <2>6
  <2> QED BY <1>1, <2>2, <2>6, <2>7
<1>3. DOMAIN s = DOMAIN t /\ \A i \in DOMAIN s : s[i] = t[i]
  BY <1>2
<1>4. Len(s) = Len(t)
  <2>1. \A i \in Nat : i \in 1 .. Len(s) <=> i \in 1 .. Len(t)
    BY <1>1, <1>3
  <2>2. Len(s) \in 1 .. Len(s) \/ Len(s) = 0
    BY <1>1
  <2>3. Len(t) \in 1 .. Len(t) \/ Len(t) = 0
    BY <1>1
  <2>4. Len(s) \in Nat /\ Len(t) \in Nat
    BY <1>1
  <2>5. Len(s) <= Len(t)
    <3>1. Len(s) \in 1 .. Len(s) => Len(s) \in 1 .. Len(t)
      BY <2>1, <2>4, Zenon
    <3> QED BY <2>2, <2>4, <3>1
  <2>6. Len(t) <= Len(s)
    <3>1. Len(t) \in 1 .. Len(t) => Len(t) \in 1 .. Len(s)
      BY <2>1, <2>4, Zenon
    <3> QED BY <2>3, <2>4, <3>1
  <2> QED BY <2>4, <2>5, <2>6
<1> QED BY <1>1, <1>3, <1>4, SeqEqual
-----------------------------------------------------------------------------
(* The revisions of a page of one kind, up to edit m.                      *)
Rev(p, kind, m) == { n \in 1 .. m : n \in DOMAIN log /\ log[n].page = p /\ log[n].kind = kind }

(* An article has the good revisions of its page up to the last one, each  *)
(* once and in order, and has seen the spam among them.                    *)
Whole(a, p) ==
  /\ a.good \in Seq(Nat) /\ a.spam_ids \in Seq(Nat) /\ Ascends(a.good)
  /\ Named(a.good) = Rev(p, "good", last_good_rev_id(a))
  /\ Rev(p, "spam", last_good_rev_id(a)) \subseteq Named(a.spam_ids)

(* The snapshots are whole, a cold build has fetched edits that were made, *)
(* and apply_event holds a whole article that ends before its event.       *)
SnapInv ==
  /\ snapshot \in [Page -> [exists : BOOLEAN, good : Seq(Nat), spam_ids : Seq(Nat)]]
  /\ building \in [Page -> Nat]
  /\ \A p \in Page : Whole(snapshot[p], p) /\ building[p] <= Len(log)
  /\ pc = "apply" => Whole(article, page) /\ event > last_good_rev_id(article)

LEMMA LastGoodIs ==
  ASSUME NEW a, a.good \in Seq(Nat), Ascends(a.good)
  PROVE  LET m == last_good_rev_id(a)
         IN  /\ m \in Nat /\ \A n \in Named(a.good) : n \in Nat /\ n <= m
             /\ m \in Named(a.good) \/ (m = 0 /\ Named(a.good) = {})
<1> DEFINE s == a.good
<1>1. DOMAIN s = 1 .. Len(s) /\ Len(s) \in Nat /\ \A i \in 1 .. Len(s) : s[i] \in Nat
  BY LenProperties
<1>2. CASE s = << >>
  <2>1. Named(s) = {} /\ last_good_rev_id(a) = 0
    <3>1. DOMAIN s = {}
      BY <1>1, <1>2
    <3> QED BY <1>2, <3>1 DEF Named, last_good_rev_id
  <2> QED BY <2>1
<1>3. CASE s # << >>
  <2>1. Len(s) \in 1 .. Len(s) /\ last_good_rev_id(a) = s[Len(s)]
    BY <1>3, NonEmptySeq DEF last_good_rev_id, Last
  <2>2. \A i \in 1 .. Len(s) : s[i] <= s[Len(s)]
    <3> TAKE i \in 1 .. Len(s)
    <3>1. i = Len(s) \/ i < Len(s)
      BY <1>1
    <3>2. i < Len(s) => s[i] < s[Len(s)]
      BY <1>1, <2>1 DEF Ascends
    <3> QED BY <1>1, <2>1, <3>1, <3>2
  <2> QED BY <1>1, <2>1, <2>2 DEF Named
<1> QED BY <1>2, <1>3

(* What analyse_revisions makes of the revisions of a window: the good and *)
(* the spam revisions up to its end, and a whole article again.            *)
LEMMA AnalyseIs ==
  ASSUME NEW a, NEW p, Whole(a, p), NEW m \in Nat, log \in Seq(Edit), m <= Len(log),
         NEW k, k = last_good_rev_id(a), k <= m,
         NEW b, b = analyse_revisions(a, Revs(p, k, m))
  PROVE  /\ b \in [exists : BOOLEAN, good : Seq(Nat), spam_ids : Seq(Nat)]
         /\ Ascends(b.good) /\ Named(b.good) = Rev(p, "good", m)
         /\ Named(b.spam_ids) =
              Named(a.spam_ids) \cup (Rev(p, "spam", m) \ Rev(p, "spam", k))
         /\ Whole(b, p)
<1> DEFINE r == Revs(p, k, m)
           g == InOrder({ n \in r : log[n].kind = "good" })
           s == InOrder({ n \in r : log[n].kind = "spam" })
<1>1. k \in Nat /\ \A n \in Named(a.good) : n \in Nat /\ n <= k
  BY LastGoodIs DEF Whole
<1>2. DOMAIN log = 1 .. Len(log) /\ Len(log) \in Nat
  BY LenProperties
<1>3. r = { n \in k + 1 .. m : log[n].page = p /\ log[n].kind # "hidden" }
  BY DEF Revs
<1>4. ASSUME NEW kind \in {"good", "spam"}, NEW t, t = InOrder({ n \in r : log[n].kind = kind })
      PROVE  t \in Seq(Nat) /\ Ascends(t) /\ Named(t) = Rev(p, kind, m) \ Rev(p, kind, k)
  <2>1. { n \in r : log[n].kind = kind } = Rev(p, kind, m) \ Rev(p, kind, k)
    BY <1>1, <1>2, <1>3 DEF Rev
  <2>2. Rev(p, kind, m) \ Rev(p, kind, k) \subseteq 1 .. m
    BY DEF Rev
  <2> QED BY <1>4, <2>1, <2>2, InOrderIs
<1>5. Rev(p, "good", k) \subseteq Rev(p, "good", m)
  BY <1>1 DEF Rev
<1>6. b = [exists |-> TRUE, good |-> a.good \o g, spam_ids |-> a.spam_ids \o s]
  BY DEF analyse_revisions
<1>7. a.good \in Seq(Nat) /\ a.spam_ids \in Seq(Nat) /\ Ascends(a.good)
      /\ Named(a.good) = Rev(p, "good", k) /\ Rev(p, "spam", k) \subseteq Named(a.spam_ids)
  BY DEF Whole
<1>8. /\ g \in Seq(Nat) /\ Ascends(g) /\ Named(g) = Rev(p, "good", m) \ Rev(p, "good", k)
      /\ s \in Seq(Nat) /\ Named(s) = Rev(p, "spam", m) \ Rev(p, "spam", k)
  BY <1>4
<1> HIDE DEF g, s
<1>9. \A x \in Named(a.good), y \in Named(g) : x < y
  BY <1>1, <1>7, <1>8 DEF Rev
<1>10. /\ b.good \in Seq(Nat) /\ Ascends(b.good)
       /\ Named(b.good) = Named(a.good) \cup Named(g)
  BY <1>6, <1>7, <1>8, <1>9, NamedConcat
<1>11. b.spam_ids \in Seq(Nat) /\ Named(b.spam_ids) = Named(a.spam_ids) \cup Named(s)
  BY <1>6, <1>7, <1>8, NamedConcat
<1>12. Named(b.good) = Rev(p, "good", m)
  BY <1>5, <1>7, <1>8, <1>10
<1>13. Rev(p, "spam", m) \subseteq Named(b.spam_ids)
  BY <1>7, <1>8, <1>11
<1>14. Whole(b, p)
  <2> DEFINE e == last_good_rev_id(b)
  <2>1. /\ e \in Nat /\ \A n \in Named(b.good) : n <= e
        /\ e \in Named(b.good) \/ (e = 0 /\ Named(b.good) = {})
    BY <1>10, LastGoodIs
  <2> HIDE DEF e
  <2>2. e <= m
    BY <1>12, <2>1 DEF Rev
  <2>3. Rev(p, "good", e) = Rev(p, "good", m)
    BY <1>12, <2>1, <2>2 DEF Rev
  <2>4. Rev(p, "spam", e) \subseteq Rev(p, "spam", m)
    BY <2>1, <2>2 DEF Rev
  <2> QED BY <1>10, <1>11, <1>12, <1>13, <2>3, <2>4 DEF Whole, e
<1>15. b \in [exists : BOOLEAN, good : Seq(Nat), spam_ids : Seq(Nat)]
  <2>1. PICK x : x = a.good \o g
    OBVIOUS
  <2>2. PICK y : y = a.spam_ids \o s
    OBVIOUS
  <2>3. b = [exists |-> TRUE, good |-> x, spam_ids |-> y]
    BY <1>6, <2>1, <2>2
  <2>4. x \in Seq(Nat) /\ y \in Seq(Nat)
    BY <1>10, <1>11, <2>3
  <2> QED BY <2>3, <2>4
<1> QED BY <1>7, <1>8, <1>10, <1>11, <1>12, <1>14, <1>15

LEMMA NothingWhole ==
  ASSUME NEW p PROVE Whole(NoArticle, p) /\ last_good_rev_id(NoArticle) = 0
<1>1. << >> \in Seq(Nat) /\ DOMAIN << >> = {}
  BY EmptySeq
<1>2. \A kind : Rev(p, kind, 0) = {}
  BY DEF Rev
<1>3. /\ NoArticle.good = << >> /\ NoArticle.spam_ids = << >>
      /\ last_good_rev_id(NoArticle) = 0
  BY DEF NoArticle, last_good_rev_id
<1> QED BY <1>1, <1>2, <1>3 DEF Whole, Named, Ascends

(* So a snapshot is what a cold build that ends where it does would be.    *)
LEMMA WholeHasNoGap ==
  ASSUME StreamInv, NEW p, NEW a, Whole(a, p)
  PROVE  LET cold == ColdBuild(p, last_good_rev_id(a))
         IN  /\ a.good = cold.good
             /\ \A n \in DOMAIN cold.spam_ids : Contains(a.spam_ids, cold.spam_ids[n])
<1>0. PICK m : m = last_good_rev_id(a)
  OBVIOUS
<1> DEFINE cold == ColdBuild(p, m)
<1>1. /\ a.good \in Seq(Nat) /\ a.spam_ids \in Seq(Nat) /\ Ascends(a.good)
      /\ Named(a.good) = Rev(p, "good", m) /\ Rev(p, "spam", m) \subseteq Named(a.spam_ids)
  BY <1>0 DEF Whole
<1>2. log \in Seq(Edit) /\ DOMAIN log = 1 .. Len(log) /\ Len(log) \in Nat
  BY LenProperties DEF StreamInv, StreamType
<1>3. m \in Nat /\ (m \in Named(a.good) \/ m = 0)
  BY <1>0, <1>1, LastGoodIs
<1>4. m <= Len(log)
  BY <1>1, <1>2, <1>3 DEF Rev
<1>5. /\ cold.good \in Seq(Nat) /\ cold.spam_ids \in Seq(Nat) /\ Ascends(cold.good)
      /\ Named(cold.good) = Rev(p, "good", m)
      /\ Named(cold.spam_ids) = Named(NoArticle.spam_ids) \cup (Rev(p, "spam", m) \ Rev(p, "spam", 0))
  <2>1. Whole(NoArticle, p) /\ last_good_rev_id(NoArticle) = 0
    BY NothingWhole
  <2>2. PICK k : k = last_good_rev_id(NoArticle)
    OBVIOUS
  <2>3. k = 0 /\ k <= m
    BY <1>3, <2>1, <2>2
  <2>4. PICK b : b = analyse_revisions(NoArticle, Revs(p, k, m))
    OBVIOUS
  <2>5. /\ b \in [exists : BOOLEAN, good : Seq(Nat), spam_ids : Seq(Nat)]
        /\ Ascends(b.good) /\ Named(b.good) = Rev(p, "good", m)
        /\ Named(b.spam_ids) = Named(NoArticle.spam_ids) \cup (Rev(p, "spam", m) \ Rev(p, "spam", k))
    <3>1. m \in Nat /\ log \in Seq(Edit) /\ m <= Len(log)
      BY <1>2, <1>3, <1>4
    <3> QED BY ONLY <2>1, <2>2, <2>3, <2>4, <3>1, AnalyseIs
  <2>6. cold = b
    BY <2>3, <2>4 DEF ColdBuild
  <2> HIDE DEF cold
  <2> QED BY <2>3, <2>5, <2>6
<1> HIDE DEF cold
<1>6. a.good = cold.good
  BY <1>1, <1>5, SameAscending
<1>7. Named(cold.spam_ids) \subseteq Named(a.spam_ids)
  <2>1. Named(NoArticle.spam_ids) = {}
    BY EmptySeq DEF Named, NoArticle
  <2> QED BY <1>1, <1>5, <2>1
<1>8. ASSUME NEW n \in DOMAIN cold.spam_ids PROVE Contains(a.spam_ids, cold.spam_ids[n])
  <2>1. cold.spam_ids[n] \in Named(a.spam_ids)
    BY <1>7 DEF Named
  <2>2. PICK i \in DOMAIN a.spam_ids : a.spam_ids[i] = cold.spam_ids[n]
    BY <2>1 DEF Named
  <2>3. i \in 1 .. Len(a.spam_ids)
    BY <1>1, <2>2, LenProperties
  <2> QED BY <2>2, <2>3 DEF Contains
<1> QED BY <1>0, <1>6, <1>8 DEF cold
-----------------------------------------------------------------------------
LEMMA InitSnap == Init => SnapInv
<1> SUFFICES ASSUME Init PROVE SnapInv
  OBVIOUS
<1>1. NoArticle \in [exists : BOOLEAN, good : Seq(Nat), spam_ids : Seq(Nat)]
  BY EmptySeq DEF NoArticle
<1>2. log = << >> /\ Len(log) = 0 /\ pc # "apply"
  BY EmptySeq DEF Init
<1>3. /\ snapshot = [p \in Page |-> NoArticle] /\ building = [p \in Page |-> 0]
  BY DEF Init
<1> QED BY <1>1, <1>2, <1>3, NothingWhole DEF SnapInv

(* What is whole stays so while the log grows: an edit is after all it has. *)
LEMMA EditKeepsRev ==
  ASSUME StreamInv, NEW e \in Edit, MakeEdit(e), NEW p, NEW kind, NEW m \in Nat, m <= Len(log)
  PROVE  Rev(p, kind, m)' = Rev(p, kind, m)
<1>1. /\ log' = Append(log, e) /\ Len(log) \in Nat
      /\ \A n \in 1 .. Len(log) : log'[n] = log[n]
      /\ DOMAIN log = 1 .. Len(log) /\ DOMAIN log' = 1 .. Len(log) + 1
  BY DEF StreamInv, StreamType, MakeEdit
<1> QED BY <1>1 DEF Rev

LEMMA EditKeepsWhole ==
  ASSUME StreamInv, NEW e \in Edit, MakeEdit(e), NEW a, NEW p, Whole(a, p)
  PROVE  Whole(a, p)'
<1>1. last_good_rev_id(a) \in Nat
      /\ (last_good_rev_id(a) \in Named(a.good) \/ last_good_rev_id(a) = 0)
  BY LastGoodIs DEF Whole
<1>2. last_good_rev_id(a) <= Len(log)
  <2>1. Len(log) \in Nat /\ DOMAIN log = 1 .. Len(log)
    BY LenProperties DEF StreamInv, StreamType
  <2> QED BY <1>1, <2>1 DEF Whole, Rev
<1> QED BY <1>1, <1>2, EditKeepsRev DEF Whole, Named, Ascends, last_good_rev_id

LEMMA SameLogKeepsWhole ==
  ASSUME UNCHANGED log, NEW a, NEW p, Whole(a, p) PROVE Whole(a, p)'
BY DEF Whole, Rev, Named, Ascends, last_good_rev_id

(* The article and the page of apply_event. *)
LEMMA SameKeepsArticle ==
  ASSUME SnapInv, UNCHANGED <<log, pc, event, article>>, pc = "apply"
  PROVE  Whole(article, page)' /\ (event > last_good_rev_id(article))'
<1>1. PICK a : a = article
  OBVIOUS
<1>2. PICK p : p = page
  OBVIOUS
<1>3. Whole(a, p)' /\ event > last_good_rev_id(a)
  BY <1>1, <1>2, SameLogKeepsWhole DEF SnapInv
<1>4. article' = a /\ page' = p /\ event' = event
  BY <1>1, <1>2 DEF page
<1> QED BY <1>3, <1>4 DEF Whole, Rev, Named, Ascends, last_good_rev_id

(* A snapshot is replaced by a whole one of its page. *)
LEMMA WriteKeepsSnapshots ==
  ASSUME SnapInv, UNCHANGED log, NEW p \in Page, NEW b, Whole(b, p),
         b \in [exists : BOOLEAN, good : Seq(Nat), spam_ids : Seq(Nat)],
         snapshot' = [snapshot EXCEPT ![p] = b]
  PROVE  /\ snapshot' \in [Page -> [exists : BOOLEAN, good : Seq(Nat), spam_ids : Seq(Nat)]]
         /\ \A q \in Page : Whole(snapshot[q], q)'
<1>1. snapshot \in [Page -> [exists : BOOLEAN, good : Seq(Nat), spam_ids : Seq(Nat)]]
  BY DEF SnapInv
<1>2. \A q \in Page : snapshot'[q] = IF q = p THEN b ELSE snapshot[q]
  BY <1>1
<1>4. ASSUME NEW q \in Page PROVE Whole(snapshot[q], q)'
  <2>1. PICK c : c = snapshot'[q]
    OBVIOUS
  <2>2. Whole(c, q)
    BY <1>2, <2>1 DEF SnapInv
  <2>3. Whole(c, q)'
    BY <2>2, SameLogKeepsWhole
  <2> QED BY <2>1, <2>3 DEF Whole, Rev, Named, Ascends, last_good_rev_id
<1> QED BY <1>1, <1>4

(* A step that leaves the log, the snapshots and what apply_event holds.   *)
LEMMA QuietKeepsSnap ==
  ASSUME SnapInv, UNCHANGED <<log, snapshot, building>>,
         \/ pc' # "apply"
         \/ UNCHANGED <<pc, event, article>>
  PROVE  SnapInv'
<1>1. ASSUME NEW p \in Page PROVE Whole(snapshot[p], p)'
  <2>1. PICK a : a = snapshot[p]
    OBVIOUS
  <2>2. Whole(a, p)'
    BY <2>1, SameLogKeepsWhole DEF SnapInv
  <2> QED BY <2>1, <2>2 DEF Whole, Rev, Named, Ascends, last_good_rev_id
<1>2. pc' = "apply" => Whole(article, page)' /\ (event > last_good_rev_id(article))'
  BY SameKeepsArticle
<1> QED BY <1>1, <1>2 DEF SnapInv

LEMMA EditKeepsSnap ==
  ASSUME StreamInv, SnapInv, NEW e \in Edit, MakeEdit(e) PROVE SnapInv'
<1>1. UNCHANGED <<snapshot, building, pc, event, article>> /\ log' = Append(log, e)
  BY DEF MakeEdit
<1>2. /\ Len(log') = Len(log) + 1 /\ Len(log) \in Nat /\ DOMAIN log = 1 .. Len(log)
      /\ \A n \in 1 .. Len(log) : log'[n] = log[n]
  BY <1>1 DEF StreamInv, StreamType
<1>3. ASSUME NEW p \in Page PROVE Whole(snapshot[p], p)'
  <2>1. PICK a : a = snapshot[p]
    OBVIOUS
  <2>2. Whole(a, p)'
    BY <2>1, EditKeepsWhole DEF SnapInv
  <2> QED BY <1>1, <2>1, <2>2 DEF Whole, Rev, Named, Ascends, last_good_rev_id
<1>4. ASSUME pc' = "apply"
      PROVE  Whole(article, page)' /\ (event > last_good_rev_id(article))'
  <2>1. Whole(article, page) /\ event > last_good_rev_id(article)
    BY <1>1, <1>4 DEF SnapInv
  <2>2. event \in 1 .. Len(log)
    BY <1>1, <1>2, <1>4 DEF StreamInv, Held, Wanted
  <2>3. page' = page
    BY <1>1, <1>2, <2>2 DEF page
  <2>4. PICK a : a = article
    OBVIOUS
  <2>5. PICK p : p = page
    OBVIOUS
  <2>6. Whole(a, p)' /\ event > last_good_rev_id(a)
    BY <2>1, <2>4, <2>5, EditKeepsWhole
  <2>7. article' = a /\ page' = p /\ event' = event
    BY <1>1, <2>3, <2>4, <2>5
  <2> QED BY <2>6, <2>7 DEF Whole, Rev, Named, Ascends, last_good_rev_id
<1>5. \A p \in Page : building'[p] <= Len(log')
  BY <1>1, <1>2 DEF SnapInv
<1> QED BY <1>1, <1>3, <1>4, <1>5 DEF SnapInv

LEMMA FetchKeepsSnap ==
  ASSUME StreamInv, SnapInv, NEW p \in Page, ColdBuildFetch(p) PROVE SnapInv'
<1>1. UNCHANGED <<log, snapshot, pc, event, article>>
      /\ building' = [building EXCEPT ![p] = Len(log)]
  BY DEF ColdBuildFetch
<1>2. Len(log) \in Nat
  BY LenProperties DEF StreamInv, StreamType
<1>3. building' \in [Page -> Nat] /\ \A q \in Page : building'[q] <= Len(log)
  BY <1>1, <1>2 DEF SnapInv
<1>4. ASSUME NEW q \in Page PROVE Whole(snapshot[q], q)'
  <2>1. PICK a : a = snapshot[q]
    OBVIOUS
  <2>2. Whole(a, q)'
    BY <1>1, <2>1, SameLogKeepsWhole DEF SnapInv
  <2> QED BY <1>1, <2>1, <2>2 DEF Whole, Rev, Named, Ascends, last_good_rev_id
<1>5. pc' = "apply" => Whole(article, page)' /\ (event > last_good_rev_id(article))'
  BY <1>1, SameKeepsArticle
<1> QED BY <1>1, <1>3, <1>4, <1>5 DEF SnapInv

LEMMA ColdWriteKeepsSnap ==
  ASSUME StreamInv, SnapInv, NEW p \in Page, ColdBuildWrite(p) PROVE SnapInv'
<1>1. PICK m : m = building[p]
  OBVIOUS
<1>2. /\ log \in Seq(Edit) /\ m \in Nat /\ m <= Len(log)
      /\ Whole(NoArticle, p) /\ last_good_rev_id(NoArticle) = 0
  BY <1>1, NothingWhole DEF SnapInv, StreamInv, StreamType
<1>3. PICK b : b = ColdBuild(p, m)
  OBVIOUS
<1>4. b \in [exists : BOOLEAN, good : Seq(Nat), spam_ids : Seq(Nat)] /\ Whole(b, p)
  <2>1. PICK k : k = last_good_rev_id(NoArticle)
    OBVIOUS
  <2>2. k = 0 /\ k <= m
    BY <1>2, <2>1
  <2>3. b = analyse_revisions(NoArticle, Revs(p, k, m))
    BY <1>3, <2>2 DEF ColdBuild
  <2> QED BY <1>2, <2>1, <2>2, <2>3, AnalyseIs
<1>5. /\ UNCHANGED <<log, pc, event, article>>
      /\ snapshot' = [snapshot EXCEPT ![p] = b]
      /\ building' = [building EXCEPT ![p] = 0]
  BY <1>1, <1>3 DEF ColdBuildWrite
<1>6. building' \in [Page -> Nat] /\ \A q \in Page : building'[q] <= Len(log)
  <2>1. Len(log) \in Nat
    BY <1>2, LenProperties
  <2> QED BY <1>5, <2>1 DEF SnapInv
<1>7. snapshot' \in [Page -> [exists : BOOLEAN, good : Seq(Nat), spam_ids : Seq(Nat)]]
      /\ \A q \in Page : Whole(snapshot[q], q)'
  BY <1>4, <1>5, WriteKeepsSnapshots
<1>8. pc' = "apply" => Whole(article, page)' /\ (event > last_good_rev_id(article))'
  BY <1>5, SameKeepsArticle
<1> QED BY <1>5, <1>6, <1>7, <1>8 DEF SnapInv

(* The event at work is an edit of a page of the daemon. *)
LEMMA EventIs ==
  ASSUME StreamInv, pc \in {"open", "apply", "advance"}
  PROVE  page \in Page /\ event \in Nat /\ event <= Len(log)
<1>1. event \in Wanted /\ log \in Seq(Edit)
  BY DEF StreamInv, StreamType, Held
<1>2. event \in 1 .. Len(log) /\ Len(log) \in Nat /\ page \in { e.page : e \in Edit } /\ page # NoPage
  <2>1. event \in 1 .. Len(log) /\ Len(log) \in Nat /\ log[event] \in Edit /\ page # NoPage
    BY <1>1, LenProperties, ElementOfSeq DEF Wanted, page
  <2> QED BY <2>1 DEF page
<1>3. ASSUME NEW e \in Edit PROVE e.page \in Page \cup {NoPage}
  <2>1. CASE e \in [page : {NoPage}, kind : {"good"}]
    BY <2>1
  <2>2. ASSUME NEW p \in Page, e \in [page : {p}, kind : kinds[p]] PROVE e.page = p
    BY <2>2
  <2> QED BY <2>1, <2>2 DEF Edit
<1> QED BY <1>2, <1>3

(* apply_event keeps the article it opened, or leaves everything as it was. *)
LEMMA OpenKeepsSnap == ASSUME StreamInv, SnapInv, ApplyOpen PROVE SnapInv'
<1>1. UNCHANGED <<log, snapshot, building, event>> /\ pc = "open"
  BY DEF ApplyOpen
<1>2. CASE pc' # "apply"
  BY <1>1, <1>2, QuietKeepsSnap
<1>3. CASE pc' = "apply"
  <2>1. article' = snapshot[page] /\ event > last_good_rev_id(snapshot[page])
    BY <1>3 DEF ApplyOpen, Returned
  <2>2. page \in Page /\ page' = page
    BY <1>1, EventIs DEF page
  <2>3. Whole(snapshot[page], page)
    BY <2>2 DEF SnapInv
  <2>4. PICK a : a = snapshot[page]
    OBVIOUS
  <2>5. PICK p : p = page
    OBVIOUS
  <2>6. Whole(a, p)' /\ event > last_good_rev_id(a)
    BY <1>1, <2>1, <2>3, <2>4, <2>5, SameLogKeepsWhole
  <2>7. Whole(article, page)' /\ (event > last_good_rev_id(article))'
    <3>1. article' = a /\ page' = p /\ event' = event
      BY <1>1, <2>1, <2>2, <2>4, <2>5
    <3> QED BY <2>6, <3>1 DEF Whole, Rev, Named, Ascends, last_good_rev_id
  <2>8. ASSUME NEW q \in Page PROVE Whole(snapshot[q], q)'
    <3>1. PICK b : b = snapshot[q]
      OBVIOUS
    <3>2. Whole(b, q)'
      BY <1>1, <3>1, SameLogKeepsWhole DEF SnapInv
    <3> QED BY <1>1, <3>1, <3>2 DEF Whole, Rev, Named, Ascends, last_good_rev_id
  <2> QED BY <1>1, <2>7, <2>8 DEF SnapInv
<1> QED BY <1>2, <1>3

(* The window starts where the article ends, and ends with the event.      *)
LEMMA WindowKeepsSnap == ASSUME StreamInv, SnapInv, ApplyWindow PROVE SnapInv'
<1>1. UNCHANGED <<log, building>> /\ pc = "apply" /\ pc' # "apply"
  BY DEF ApplyWindow, Returned
<1>2. CASE UNCHANGED snapshot
  BY <1>1, <1>2, QuietKeepsSnap
<1>3. CASE snapshot' # snapshot
  <2>1. PICK p : p = page
    OBVIOUS
  <2>2. PICK a : a = article
    OBVIOUS
  <2>3. PICK k : k = last_good_rev_id(a)
    OBVIOUS
  <2>4. PICK m : m = event
    OBVIOUS
  <2>5. PICK b : b = analyse_revisions(a, Revs(p, k, m))
    OBVIOUS
  <2>6. p \in Page /\ m \in Nat /\ m <= Len(log) /\ log \in Seq(Edit)
    BY <1>1, <2>1, <2>4, EventIs DEF StreamInv, StreamType
  <2>7. Whole(a, p) /\ m > k
    BY <1>1, <2>1, <2>2, <2>3, <2>4 DEF SnapInv
  <2>8. k <= m
    <3>1. k \in Nat
      BY <2>3, <2>7, LastGoodIs DEF Whole
    <3> QED BY <2>6, <2>7, <3>1
  <2>9. b \in [exists : BOOLEAN, good : Seq(Nat), spam_ids : Seq(Nat)] /\ Whole(b, p)
    BY <2>3, <2>5, <2>6, <2>7, <2>8, AnalyseIs
  <2>10. snapshot' = [snapshot EXCEPT ![p] = b]
    BY <1>3, <2>1, <2>2, <2>3, <2>4, <2>5 DEF ApplyWindow, fetch_window
  <2>11. snapshot' \in [Page -> [exists : BOOLEAN, good : Seq(Nat), spam_ids : Seq(Nat)]]
         /\ \A q \in Page : Whole(snapshot[q], q)'
    BY <1>1, <2>6, <2>9, <2>10, WriteKeepsSnapshots
  <2> QED BY <1>1, <2>11 DEF SnapInv
<1> QED BY <1>2, <1>3

LEMMA NextKeepsSnap == StreamInv /\ SnapInv /\ [Next]_vars => SnapInv'
<1> SUFFICES ASSUME StreamInv, SnapInv, [Next]_vars PROVE SnapInv'
  OBVIOUS
<1>1. CASE UNCHANGED vars
  BY <1>1, QuietKeepsSnap DEF vars
<1>2. CASE Start \/ Crash \/ Shutdown \/ Connect \/ Disconnect \/ Deliver \/ Advance
  <2>1. UNCHANGED <<log, snapshot, building>>
    BY <1>2 DEF Start, Crash, Shutdown, Stop, Connect, Disconnect, Deliver, Advance
  <2>2. pc' # "apply"
    BY <1>2 DEF Start, Crash, Shutdown, Stop, Connect, Disconnect, Deliver, Advance
  <2> QED BY <2>1, <2>2, QuietKeepsSnap
<1> QED BY <1>1, <1>2, EditKeepsSnap, FetchKeepsSnap, ColdWriteKeepsSnap,
     OpenKeepsSnap, WindowKeepsSnap DEF Next

(* Replays, failed applies, events skipped because the snapshot was not    *)
(* there yet and cold builds that end behind the stream or ahead of it     *)
(* leave no gap in a snapshot and repeat no good revision: it has the good *)
(* revisions of its page up to the last one, and the spam among them.      *)
THEOREM SnapshotsAreWhole == Spec => []SnapshotHasNoGap
<1>1. StreamInv /\ SnapInv => SnapshotHasNoGap
  BY WholeHasNoGap DEF SnapInv, SnapshotHasNoGap
<1> QED BY <1>1, InitStream, NextKeepsStream, InitSnap, NextKeepsSnap, PTL DEF Spec
=============================================================================
