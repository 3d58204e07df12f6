----------------------------- MODULE ServerProofs -----------------------------
(***************************************************************************)
(* Proofs about Server for every value of its constants: the slots of the  *)
(* in-flight set, and what a request for a page on disk is answered.       *)
(***************************************************************************)
EXTENDS Server, DataLemmas

USE DEF storage, indexes

(* The types of a handler and of a task, as TypeOK has them. *)
RequestType ==
  [pc : {"resolve", "disk", "mw", "recheck", "insert", "claim", "done"},
   endpoint : Endpoints, page : Page, rev : Rev, alias : BOOLEAN, end : Rev,
   answer : {"none", "ok", "bad_request", "vandalism", "processing", "unavailable"},
   served : Rev, floor : Rev, on_disk : BOOLEAN, mw_failed : BOOLEAN,
   titles : SUBSET Page, revs : Upto]
TaskType ==
  [pc : {"none", "fetch", "persist", "title_build", "title_insert", "rev_build",
         "rev_insert", "release"},
   page : Page, end : Rev, titles : SUBSET Page, revs : Upto]

LEMMA TypeParts ==
  TypeOK <=> /\ wiki \in Upto /\ disk \in Upto /\ sidecar \in Upto
             /\ title_index \in [loaded : BOOLEAN, pages : SUBSET Page]
             /\ rev_id_index \in [loaded : BOOLEAN, upto : Upto]
             /\ in_flight \subseteq Page
             /\ req \in [Request -> RequestType]
             /\ task \in [Request -> TaskType]
             /\ known \in Upto
             /\ failures \in 0 .. MaxFailures
BY DEF TypeOK, RequestType, TaskType

(* What a new request and a task that has ended are.                       *)
LEMMA IdleTypes ==
  /\ NoRequest \in RequestType
  /\ NoTask \in TaskType
<1>1. (CHOOSE p \in Page : TRUE) \in Page
  BY ServerAssumption
<1>2. [p \in Page |-> 0] \in Upto /\ 0 \in Rev
  BY ServerAssumption DEF Upto, Rev
<1>3. NoRequest \in RequestType
  BY <1>1, <1>2 DEF NoRequest, RequestType, Endpoints
<1> QED BY <1>2, <1>3 DEF NoTask, TaskType, NoRequest, RequestType

(* The greater of two revisions is one of them. *)
LEMMA MaxOfTwo ==
  ASSUME NEW a \in Rev, NEW b \in Rev
  PROVE  Max({a, b}) \in Rev
<1>1. \E x \in {a, b} : \A y \in {a, b} : x >= y
  BY DEF Rev
<1> QED BY <1>1 DEF Max

(* The stored revisions of a page, and the latest of them.                 *)
LEMMA StoredBounds ==
  ASSUME TypeOK, NEW p \in Page
  PROVE  /\ Stored(p) \subseteq Rev \ {0}
         /\ LatestStored(p) \in Rev
         /\ LatestStored(p) > 0 <=> Stored(p) # {}
<1>1. disk[p] \in 0 .. MaxRevision /\ MaxRevision \in Nat
  BY ServerAssumption DEF TypeOK, Upto, Rev
<1>2. Stored(p) \subseteq Rev \ {0}
  BY <1>1 DEF Stored, Rev
<1>3. ASSUME Stored(p) # {}
      PROVE  LatestStored(p) \in Rev /\ LatestStored(p) > 0
  <2>1. Stored(p) \subseteq 0 .. MaxRevision
    BY <1>2 DEF Rev
  <2>2. PICK n \in Stored(p) : \A m \in Stored(p) : m <= n
    BY <1>1, <1>3, <2>1, GreatestNat
  <2>3. \A m \in Stored(p) : n >= m
    BY <1>1, <2>1, <2>2
  <2>4. Max(Stored(p)) \in Stored(p)
    BY <2>3 DEF Max
  <2> QED BY <1>1, <1>2, <1>3, <2>4 DEF LatestStored, Rev
<1>4. CASE Stored(p) = {}
  BY <1>1, <1>2, <1>4 DEF LatestStored, Rev
<1> QED BY <1>2, <1>3, <1>4
-----------------------------------------------------------------------------
(* What a handler may change in its own record. *)
LEMMA HandlerUpdate ==
  ASSUME req \in [Request -> RequestType], NEW r \in Request,
         NEW f \in RequestType, req' = [req EXCEPT ![r] = f]
  PROVE  req' \in [Request -> RequestType]
OBVIOUS

LEMMA TaskUpdate ==
  ASSUME task \in [Request -> TaskType], NEW r \in Request,
         NEW f \in TaskType, task' = [task EXCEPT ![r] = f]
  PROVE  task' \in [Request -> TaskType]
OBVIOUS

LEMMA GotoType ==
  ASSUME TypeOK, NEW r \in Request,
         NEW step \in {"resolve", "disk", "mw", "recheck", "insert", "claim", "done"},
         Goto(r, step)
  PROVE  req' \in [Request -> RequestType]
BY TypeParts DEF Goto, RequestType

LEMMA RespondType ==
  ASSUME TypeOK, NEW r \in Request,
         NEW a \in {"none", "ok", "bad_request", "vandalism", "processing", "unavailable"},
         NEW n \in Rev, Respond(r, a, n)
  PROVE  req' \in [Request -> RequestType] /\ known' \in Upto
<1> DEFINE f == [req[r] EXCEPT !.pc = "done", !.answer = a, !.served = n]
<1>1. req[r] \in RequestType /\ req' = [req EXCEPT ![r] = f]
  BY TypeParts DEF Respond
<1>2. f \in RequestType
  BY <1>1 DEF RequestType
<1>3. req' \in [Request -> RequestType]
  <2> HIDE DEF f
  <2> QED BY <1>1, <1>2, TypeParts, HandlerUpdate
<1>4. req[r].page \in Page
  BY <1>1 DEF RequestType
<1>5. Max({known[req[r].page], n}) \in Rev
  BY <1>4, MaxOfTwo, TypeParts DEF Upto
<1>6. known' \in Upto
  BY <1>4, <1>5, TypeParts DEF Respond, Upto
<1> QED BY <1>3, <1>6

(* The handlers' answers and targets. *)
LEMMA RenderedType ==
  ASSUME TypeOK, NEW r \in Request
  PROVE  /\ Rendered(r) \in {"ok", "bad_request", "vandalism", "processing"}
         /\ Target(r) \in Rev /\ EndRev(r) \in Rev
<1>1. req[r] \in RequestType
  BY TypeParts
<1>2. req[r].page \in Page /\ req[r].rev \in Rev
  BY <1>1 DEF RequestType
<1>3. Target(r) \in Rev
  BY <1>2, StoredBounds DEF Target
<1>4. EndRev(r) \in Rev
  BY <1>2, TypeParts DEF EndRev, Upto
<1> QED BY <1>3, <1>4 DEF Rendered

(* Each step of a handler keeps the types. *)
LEMMA AskType ==
  ASSUME TypeOK, NEW r \in Request, NEW e \in Endpoint, NEW p \in Page,
         NEW n \in Rev, NEW a \in Alias, Ask(r, e, p, n, a)
  PROVE  TypeOK'
<1> DEFINE f == [NoRequest EXCEPT
        !.pc = IF e = "page_id" THEN "disk" ELSE "resolve",
        !.endpoint = e, !.page = p, !.rev = n, !.alias = a,
        !.floor = known[p], !.on_disk = LatestStored(p) > 0]
<1>1. req' = [req EXCEPT ![r] = f]
  BY DEF Ask
<1>2. known[p] \in Rev /\ e \in Endpoints /\ a \in BOOLEAN
  BY ServerAssumption, TypeParts DEF Upto
<1>3. (LatestStored(p) > 0) \in BOOLEAN
  BY StoredBounds DEF Rev
<1>4. f \in RequestType
  BY <1>2, <1>3, IdleTypes DEF RequestType
<1>5. req' \in [Request -> RequestType]
  <2> HIDE DEF f
  <2> QED BY <1>1, <1>4, TypeParts, HandlerUpdate
<1> QED BY <1>5, TypeParts DEF Ask, TypeOK, RequestType

LEMMA LookupType ==
  ASSUME TypeOK, NEW r \in Request, Resolve(r) \/ TryDisk(r)
  PROVE  TypeOK'
<1>1. CASE Resolve(r)
  <2>1. PICK step \in {"disk", "mw"} : Goto(r, step)
    BY <1>1 DEF Resolve
  <2>2. req' \in [Request -> RequestType]
    BY <2>1, GotoType
  <2>3. OnDisk \subseteq Page /\ sidecar \in Upto
    BY TypeParts DEF OnDisk
  <2>4. /\ title_index' \in [loaded : BOOLEAN, pages : SUBSET Page]
        /\ rev_id_index' \in [loaded : BOOLEAN, upto : Upto]
        /\ failures' \in 0 .. MaxFailures
    <3>1. /\ [loaded |-> TRUE, pages |-> OnDisk] \in [loaded : BOOLEAN, pages : SUBSET Page]
          /\ [loaded |-> TRUE, upto |-> sidecar] \in [loaded : BOOLEAN, upto : Upto]
      BY <2>3
    <3>2. \/ failures' = failures
          \/ failures < MaxFailures /\ failures' = failures + 1
      BY <1>1 DEF Resolve, Fail
    <3>3. /\ title_index' \in {title_index, [loaded |-> TRUE, pages |-> OnDisk]}
          /\ rev_id_index' \in {rev_id_index, [loaded |-> TRUE, upto |-> sidecar]}
      BY <1>1 DEF Resolve
    <3>4. failures' \in 0 .. MaxFailures
      BY <3>2, ServerAssumption, TypeParts
    <3>5. title_index' \in [loaded : BOOLEAN, pages : SUBSET Page]
      BY <3>1, <3>3, TypeParts, Zenon
    <3>6. rev_id_index' \in [loaded : BOOLEAN, upto : Upto]
      BY <3>1, <3>3, TypeParts, Zenon
    <3> QED BY <3>4, <3>5, <3>6
  <2> QED BY <1>1, <2>2, <2>4, TypeParts DEF Resolve, TypeOK, RequestType
<1>2. CASE TryDisk(r)
  <2>1. req' \in [Request -> RequestType] /\ known' \in Upto
    <3>1. CASE Respond(r, Rendered(r), Target(r))
      BY <3>1, RenderedType, RespondType
    <3>2. CASE Respond(r, "unavailable", 0)
      BY <3>2, RespondType, ServerAssumption DEF Rev
    <3>3. CASE Goto(r, "mw") /\ UNCHANGED known
      BY <3>3, GotoType, TypeParts
    <3> QED BY <1>2, <3>1, <3>2, <3>3 DEF TryDisk
  <2>2. failures' \in 0 .. MaxFailures
    BY <1>2, ServerAssumption, TypeParts DEF TryDisk, Fail
  <2> QED BY <1>2, <2>1, <2>2, TypeParts DEF TryDisk, TypeOK, RequestType
<1> QED BY <1>1, <1>2

LEMMA AskMwType ==
  ASSUME TypeOK, NEW r \in Request, AskMw(r)
  PROVE  TypeOK'
<1> DEFINE f == [req[r] EXCEPT !.pc = AfterMw(req[r].endpoint), !.end = EndRev(r)]
           g == [req[r] EXCEPT !.pc = "done", !.answer = "processing", !.mw_failed = TRUE]
<1>1. req[r] \in RequestType /\ EndRev(r) \in Rev
  BY RenderedType, TypeParts
<1>2. f \in RequestType /\ g \in RequestType
  BY <1>1 DEF RequestType, AfterMw
<1>3. req' \in {[req EXCEPT ![r] = f], [req EXCEPT ![r] = g]}
  BY DEF AskMw
<1>4. req' \in [Request -> RequestType]
  <2> HIDE DEF f, g
  <2> QED BY <1>2, <1>3, TypeParts
<1>5. failures' \in 0 .. MaxFailures
  BY ServerAssumption, TypeParts DEF AskMw, Fail
<1> QED BY <1>4, <1>5, TypeParts DEF AskMw, TypeOK, RequestType

LEMMA RecheckType ==
  ASSUME TypeOK, NEW r \in Request, Recheck(r)
  PROVE  TypeOK'
<1> DEFINE f == [req[r] EXCEPT !.pc = "insert", !.answer = Rendered(r),
                   !.served = Target(r), !.titles = OnDisk, !.revs = sidecar]
<1>1. req[r] \in RequestType /\ OnDisk \subseteq Page /\ sidecar \in Upto
  BY TypeParts DEF OnDisk
<1>2. f \in RequestType
  BY <1>1, RenderedType DEF RequestType
<1>3. req' = [req EXCEPT ![r] = f] \/ Goto(r, "claim")
  BY DEF Recheck
<1>4. req' \in [Request -> RequestType]
  <2> HIDE DEF f
  <2> QED BY <1>2, <1>3, GotoType, TypeParts
<1> QED BY <1>4, TypeParts DEF Recheck, TypeOK, RequestType

LEMMA InsertIndexType ==
  ASSUME TypeOK, NEW r \in Request, InsertIndex(r)
  PROVE  TypeOK'
<1>1. req[r] \in RequestType
  BY TypeParts
<1>2. Respond(r, req[r].answer, req[r].served)
  BY DEF InsertIndex
<1>3. req' \in [Request -> RequestType] /\ known' \in Upto
  BY <1>1, <1>2, RespondType DEF RequestType
<1>4. /\ title_index' \in [loaded : BOOLEAN, pages : SUBSET Page]
      /\ rev_id_index' \in [loaded : BOOLEAN, upto : Upto]
      /\ failures' \in 0 .. MaxFailures
  <2>1. /\ [loaded |-> TRUE, pages |-> req[r].titles] \in [loaded : BOOLEAN, pages : SUBSET Page]
        /\ [loaded |-> TRUE, upto |-> req[r].revs] \in [loaded : BOOLEAN, upto : Upto]
    BY <1>1 DEF RequestType
  <2>2. \/ failures' = failures
        \/ failures < MaxFailures /\ failures' = failures + 1
    BY DEF InsertIndex, Fail
  <2>3. /\ title_index' \in {title_index, [loaded |-> TRUE, pages |-> req[r].titles]}
        /\ rev_id_index' \in {rev_id_index, [loaded |-> TRUE, upto |-> req[r].revs]}
    BY DEF InsertIndex
  <2>4. failures' \in 0 .. MaxFailures
    BY <2>2, ServerAssumption, TypeParts
  <2>5. title_index' \in [loaded : BOOLEAN, pages : SUBSET Page]
    BY <2>1, <2>3, TypeParts, Zenon
  <2>6. rev_id_index' \in [loaded : BOOLEAN, upto : Upto]
    BY <2>1, <2>3, TypeParts, Zenon
  <2> QED BY <2>4, <2>5, <2>6
<1> QED BY <1>3, <1>4, TypeParts DEF InsertIndex, TypeOK, RequestType

LEMMA ClaimType ==
  ASSUME TypeOK, NEW r \in Request, Claim(r)
  PROVE  TypeOK'
<1> DEFINE f == [NoTask EXCEPT !.pc = "fetch", !.page = req[r].page, !.end = req[r].end]
<1>1. req[r] \in RequestType
  BY TypeParts
<1>2. f \in TaskType
  BY <1>1, IdleTypes DEF TaskType, RequestType
<1>3. task' = task \/ task' = [task EXCEPT ![r] = f]
  BY DEF Claim
<1>4. task' \in [Request -> TaskType]
  <2> HIDE DEF f
  <2> QED BY <1>2, <1>3, TypeParts
<1>5. in_flight' \subseteq Page
  BY <1>1, TypeParts DEF Claim, RequestType
<1>6. req' \in [Request -> RequestType] /\ known' \in Upto
  BY RespondType, ServerAssumption DEF Claim, Rev
<1> QED BY <1>4, <1>5, <1>6, TypeParts DEF Claim, TypeOK, TaskType, RequestType
-----------------------------------------------------------------------------
(* The steps of a task. *)
LEMMA StepOfTask ==
  ASSUME TypeOK, NEW r \in Request, NEW from,
         NEW to \in {"fetch", "persist", "title_build", "title_insert", "rev_build",
                     "rev_insert", "release"},
         Step(r, from, to)
  PROVE  task' \in [Request -> TaskType]
BY TypeParts DEF Step, TaskType

LEMMA TaskStepType ==
  ASSUME TypeOK, NEW r \in Request, Task(r)
  PROVE  TypeOK'
<1>1. task[r] \in TaskType /\ OnDisk \subseteq Page /\ sidecar \in Upto
  BY TypeParts DEF OnDisk
<1>2. failures + 1 \in Nat
  BY ServerAssumption, TypeParts
<1>3. CASE Fetch(r)
  <2>1. task' \in [Request -> TaskType]
    BY <1>3, IdleTypes, StepOfTask, TypeParts DEF Fetch, AfterFailure
  <2>2. failures' \in 0 .. MaxFailures
    BY <1>2, <1>3, ServerAssumption, TypeParts DEF Fetch, Fail
  <2> QED BY <1>3, <2>1, <2>2, TypeParts DEF Fetch, TypeOK, TaskType
<1>4. CASE Persist(r)
  <2>1. task' \in [Request -> TaskType]
    BY <1>4, StepOfTask DEF Persist, AfterFailure
  <2>2. disk' \in Upto /\ sidecar' \in Upto
    BY <1>1, <1>4, TypeParts DEF Persist, Upto, TaskType
  <2>3. failures' \in 0 .. MaxFailures
    BY <1>2, <1>4, ServerAssumption, TypeParts DEF Persist, Fail
  <2> QED BY <1>4, <2>1, <2>2, <2>3, TypeParts DEF Persist, TypeOK, TaskType
<1>5. CASE TitleBuild(r)
  <2> DEFINE f == [task[r] EXCEPT !.pc = "title_insert", !.titles = OnDisk]
  <2>1. f \in TaskType
    BY <1>1 DEF TaskType
  <2>2. task' = [task EXCEPT ![r] = f] \/ Step(r, "title_build", "rev_build")
    BY <1>5 DEF TitleBuild
  <2>3. task' \in [Request -> TaskType]
    <3> HIDE DEF f
    <3> QED BY <2>1, <2>2, StepOfTask, TypeParts
  <2>4. failures' \in 0 .. MaxFailures
    BY <1>2, <1>5, ServerAssumption, TypeParts DEF TitleBuild, Fail
  <2> QED BY <1>5, <2>3, <2>4, TypeParts DEF TitleBuild, TypeOK, TaskType
<1>6. CASE TitleInsert(r)
  <2>1. task' \in [Request -> TaskType]
    BY <1>6, StepOfTask DEF TitleInsert
  <2>2. title_index' \in [loaded : BOOLEAN, pages : SUBSET Page]
    BY <1>1, <1>6 DEF TitleInsert, TaskType
  <2> QED BY <1>6, <2>1, <2>2, TypeParts DEF TitleInsert, TypeOK, TaskType
<1>7. CASE RevBuild(r)
  <2> DEFINE f == [task[r] EXCEPT !.pc = "rev_insert", !.revs = sidecar]
  <2>1. f \in TaskType
    BY <1>1 DEF TaskType
  <2>2. task' = [task EXCEPT ![r] = f] \/ Step(r, "rev_build", "release")
    BY <1>7 DEF RevBuild
  <2>3. task' \in [Request -> TaskType]
    <3> HIDE DEF f
    <3> QED BY <2>1, <2>2, StepOfTask, TypeParts
  <2>4. failures' \in 0 .. MaxFailures
    BY <1>2, <1>7, ServerAssumption, TypeParts DEF RevBuild, Fail
  <2> QED BY <1>7, <2>3, <2>4, TypeParts DEF RevBuild, TypeOK, TaskType
<1>8. CASE RevInsert(r)
  <2>1. task' \in [Request -> TaskType]
    BY <1>8, StepOfTask DEF RevInsert
  <2>2. rev_id_index' \in [loaded : BOOLEAN, upto : Upto]
    BY <1>1, <1>8 DEF RevInsert, TaskType
  <2> QED BY <1>8, <2>1, <2>2, TypeParts DEF RevInsert, TypeOK, TaskType
<1>9. CASE Release(r)
  <2>1. task' \in [Request -> TaskType]
    BY <1>9, IdleTypes, TypeParts DEF Release
  <2> QED BY <1>9, <2>1, TypeParts DEF Release, TypeOK, TaskType
<1> QED BY <1>3, <1>4, <1>5, <1>6, <1>7, <1>8, <1>9 DEF Task

(* The steps of the world outside. *)
LEMMA WorldType ==
  ASSUME TypeOK, NEW p \in Page, MakeEdit(p) \/ Ingest(p)
  PROVE  TypeOK'
<1>1. wiki' \in Upto /\ disk' \in Upto /\ sidecar' \in Upto
  BY ServerAssumption, TypeParts DEF MakeEdit, Ingest, Upto, Rev
<1> QED BY <1>1, TypeParts DEF MakeEdit, Ingest, TypeOK

(* The records of the server are of the type TypeOK gives them: every      *)
(* handler and task is at a step of its code, with revisions that exist.   *)
THEOREM TypeCorrect == Spec => []TypeOK
<1>1. Init => TypeOK
  <2> SUFFICES ASSUME Init PROVE TypeOK
    OBVIOUS
  <2>1. /\ [p \in Page |-> 0] \in Upto /\ [p \in Page |-> 1] \in Upto
        /\ 0 \in 0 .. MaxFailures
    BY ServerAssumption DEF Upto, Rev
  <2> QED BY <2>1, IdleTypes, TypeParts DEF Init
<1>2. TypeOK /\ [Next]_vars => TypeOK'
  <2> SUFFICES ASSUME TypeOK, [Next]_vars PROVE TypeOK'
    OBVIOUS
  <2>1. ASSUME NEW r \in Request, Handler(r) PROVE TypeOK'
    BY <2>1, LookupType, AskMwType, RecheckType, InsertIndexType, ClaimType DEF Handler
  <2>2. CASE UNCHANGED vars
    BY <2>2 DEF vars, TypeOK
  <2> QED BY <2>1, <2>2, AskType, TaskStepType, WorldType DEF Next
<1> QED BY <1>1, <1>2, PTL DEF Spec
-----------------------------------------------------------------------------
(* One task a page.                                                        *)

Running(r) == task[r].pc # "none"

LEMMA OneTaskParts ==
  OneTaskPerPage <=>
    /\ \A r \in Request : (Running(r) => task[r].page \in in_flight)
    /\ \A r, s \in Request :
         Running(r) /\ Running(s) /\ task[r].page = task[s].page => r = s
BY DEF OneTaskPerPage, Running

(* A step that starts no task and takes no running task's slot away.       *)
LEMMA NoNewTask ==
  ASSUME OneTaskPerPage,
         \A r \in Request : Running(r)' => Running(r) /\ task'[r].page = task[r].page,
         \A r \in Request : Running(r)' /\ task[r].page \in in_flight
                              => task[r].page \in in_flight'
  PROVE  OneTaskPerPage'
BY OneTaskParts DEF OneTaskPerPage, Running

(* A claim: the slot was free, so no task of the page was running.         *)
LEMMA ClaimIsExclusive ==
  ASSUME TypeOK, OneTaskPerPage, NEW r \in Request, Claim(r)
  PROVE  OneTaskPerPage'
<1> DEFINE p == req[r].page
           f == [NoTask EXCEPT !.pc = "fetch", !.page = p, !.end = req[r].end]
<1>1. CASE p \in in_flight
  BY <1>1, NoNewTask DEF Claim, Claimed, Running
<1>2. CASE p \notin in_flight
  <2>1. in_flight' = in_flight \cup {p} /\ task' = [task EXCEPT ![r] = f]
    BY <1>2 DEF Claim, Claimed
  <2>2. f.page = p
    BY DEF NoTask
  <2>3. \A s \in Request : task'[s] = IF s = r THEN f ELSE task[s]
    <3> HIDE DEF f
    <3> QED BY <2>1, TypeParts
  <2>4. \A s \in Request : Running(s) => task[s].page # p
    BY <1>2, OneTaskParts
  <2> HIDE DEF f
  <2>5. \A s \in Request : Running(s)' =>
          (s = r /\ task'[s].page = p) \/ (Running(s) /\ s # r /\ task'[s] = task[s])
    BY <2>2, <2>3 DEF Running
  <2> QED BY <2>1, <2>4, <2>5, OneTaskParts DEF OneTaskPerPage, Running
<1> QED BY <1>1, <1>2

(* A step of a task, which it may end; only its end gives the slot back,   *)
(* and no other task is at work on the page.                               *)
LEMMA TaskKeepsSlot ==
  ASSUME TypeOK, OneTaskPerPage, NEW r \in Request, Task(r)
  PROVE  OneTaskPerPage'
<1>1. \A s \in Request : s # r => task'[s] = task[s]
  BY TypeParts DEF Task, Fetch, Persist, TitleBuild, TitleInsert, RevBuild,
     RevInsert, Release, Step
<1>2. Running(r)
  BY DEF Task, Fetch, Persist, TitleBuild, TitleInsert, RevBuild, RevInsert,
     Release, Step, Running
<1>3. CASE Release(r)
  <2>1. ~ Running(r)' /\ in_flight' = in_flight \ {task[r].page}
    BY <1>3, TypeParts DEF Release, NoTask, Running
  <2>2. \A s \in Request : Running(s)' => s # r /\ Running(s) /\ task'[s].page = task[s].page
    BY <1>1, <2>1 DEF Running
  <2>3. \A s \in Request : Running(s)' => task[s].page # task[r].page
    BY <1>2, <2>2, OneTaskParts
  <2> QED BY <2>1, <2>2, <2>3, NoNewTask
<1>4. CASE ~ Release(r)
  <2>1. in_flight' = in_flight
    BY <1>4 DEF Task, Fetch, Persist, TitleBuild, TitleInsert, RevBuild, RevInsert
  <2>2. task'[r] = NoTask \/ task'[r].page = task[r].page
    <3>1. task[r] \in TaskType /\ r \in DOMAIN task
      BY TypeParts
    <3>2. \A x, y : Step(r, x, y) => task'[r].page = task[r].page
      BY <3>1 DEF Step, TaskType
    <3>3. CASE Fetch(r)
      BY <3>1, <3>2, <3>3 DEF Fetch
    <3>4. CASE Persist(r) \/ TitleInsert(r) \/ RevInsert(r)
      BY <3>2, <3>4 DEF Persist, TitleInsert, RevInsert
    <3>5. CASE TitleBuild(r)
      BY <3>1, <3>2, <3>5 DEF TitleBuild, TaskType
    <3>6. CASE RevBuild(r)
      BY <3>1, <3>2, <3>6 DEF RevBuild, TaskType
    <3> QED BY <1>4, <3>3, <3>4, <3>5, <3>6 DEF Task
  <2>3. Running(r)' => task'[r].page = task[r].page
    BY <2>2 DEF Running, NoTask
  <2> QED BY <1>1, <1>2, <2>1, <2>3, NoNewTask DEF Running
<1> QED BY <1>3, <1>4

(* However many handlers miss a page at once, and whatever fails, panics   *)
(* or comes late, at most one task builds it, and it owns the page's slot: *)
(* the check of try_claim_in_flight and its insertion are one step, and    *)
(* every way through run_cache_miss that gives the slot back ends the task.*)
THEOREM OneTask == Spec => []OneTaskPerPage
<1>1. Init => OneTaskPerPage
  BY OneTaskParts DEF Init, Running, NoTask
<1>2. TypeOK /\ OneTaskPerPage /\ [Next]_vars => OneTaskPerPage'
  <2> SUFFICES ASSUME TypeOK, OneTaskPerPage, [Next]_vars PROVE OneTaskPerPage'
    OBVIOUS
  <2>1. ASSUME NEW r \in Request, Handler(r) PROVE OneTaskPerPage'
    <3>1. CASE Claim(r)
      BY <3>1, ClaimIsExclusive
    <3>2. CASE Resolve(r) \/ TryDisk(r) \/ AskMw(r) \/ Recheck(r) \/ InsertIndex(r)
      BY <3>2, NoNewTask DEF Resolve, TryDisk, AskMw, Recheck, InsertIndex, Running
    <3> QED BY <2>1, <3>1, <3>2 DEF Handler
  <2>2. ASSUME UNCHANGED <<task, in_flight>> PROVE OneTaskPerPage'
    BY <2>2, NoNewTask DEF Running
  <2> QED BY <2>1, <2>2, TaskKeepsSlot DEF Next, vars, Ask, MakeEdit, Ingest
<1> QED BY <1>1, <1>2, TypeCorrect, PTL DEF Spec
-----------------------------------------------------------------------------
(* A page that is on disk is served from there.                            *)

(* The oldest revision of no page is vandalism.  Without this a cold build *)
(* for that revision can replace a newer snapshot by one that has nothing  *)
(* to serve as the latest.                                                 *)
FirstRevisionGood == \A p \in Page : 1 \notin Spam[p]

(* A rev_content request for a page that was on disk when it came. *)
Knows(r) == req[r].endpoint \notin WhoColor /\ req[r].on_disk

(* What a fetch goes through exists.                                       *)
EndsExist ==
  /\ \A p \in Page : wiki[p] > 0
  /\ \A r \in Request : req[r].pc \in {"recheck", "claim"} => req[r].end > 0
  /\ \A r \in Request : task[r].pc \in {"fetch", "persist"} => task[r].end > 0

(* A snapshot stays, and a request that could have been served from it has *)
(* not passed the point where it would have been.                          *)
StaysOnDisk == \A r \in Request : req[r].on_disk => disk[req[r].page] > 0
NotPast(r) ==
  /\ req[r].pc # "claim"
  /\ req[r].endpoint = "page_id" => req[r].pc \notin {"resolve", "mw"}
  /\ req[r].answer = "processing" => req[r].mw_failed
ServedInv == EndsExist /\ StaysOnDisk /\ \A r \in Request : Knows(r) => NotPast(r)

(* A snapshot has revision 1, so there is a latest one to serve.           *)
LEMMA OnDiskServes ==
  ASSUME TypeOK, FirstRevisionGood, NEW r \in Request, disk[req[r].page] > 0
  PROVE  /\ Serves(r)
         /\ req[r].endpoint \notin WhoColor => Rendered(r) # "processing"
<1> DEFINE p == req[r].page
<1>1. req[r] \in RequestType
  BY TypeParts
<1>2. p \in Page /\ req[r].rev \in Rev /\ disk[p] \in Rev
  BY <1>1, TypeParts DEF RequestType, Upto
<1>3. 1 \in Stored(p)
  BY <1>2 DEF Stored, FirstRevisionGood, Rev
<1>4. LatestStored(p) > 0
  BY <1>2, <1>3, StoredBounds
<1>5. Target(r) > 0
  BY <1>2, <1>4 DEF Target
<1> QED BY <1>5 DEF Serves, Rendered

(* Snapshots are never taken away: what a task persists has a revision.    *)
LEMMA DiskStays ==
  ASSUME TypeOK, EndsExist, Next
  PROVE  \A p \in Page : disk[p] > 0 => disk'[p] > 0
<1>1. ASSUME NEW p \in Page, Ingest(p), NEW q \in Page, disk[q] > 0
      PROVE  disk'[q] > 0
  <2>1. disk[p] \in Nat /\ wiki[p] \in Nat /\ disk' = [disk EXCEPT ![p] = wiki[p]]
    BY <1>1, ServerAssumption, TypeParts DEF Ingest, Upto, Rev
  <2> QED BY <1>1, <2>1, TypeParts DEF Ingest, Upto
<1>2. ASSUME NEW r \in Request, Persist(r), NEW q \in Page, disk[q] > 0
      PROVE  disk'[q] > 0
  <2>1. task[r].end > 0
    BY <1>2 DEF EndsExist, Persist, Step
  <2>2. task[r].page \in Page
    BY TypeParts DEF TaskType
  <2>3. disk' \in {disk, [disk EXCEPT ![task[r].page] = task[r].end]}
    BY <1>2 DEF Persist
  <2> QED BY <1>2, <2>1, <2>2, <2>3, TypeParts DEF Upto
<1>3. CASE disk' = disk
  BY <1>3
<1>4. disk' = disk \/ (\E p \in Page : Ingest(p)) \/ \E r \in Request : Persist(r)
  <2>1. ASSUME NEW r \in Request, Handler(r) PROVE disk' = disk
    BY <2>1 DEF Handler, Resolve, TryDisk, AskMw, Recheck, InsertIndex, Claim
  <2>2. ASSUME NEW r \in Request, Task(r) PROVE disk' = disk \/ Persist(r)
    BY <2>2 DEF Task, Fetch, TitleBuild, TitleInsert, RevBuild, RevInsert, Release
  <2>3. ASSUME NEW p \in Page, MakeEdit(p) PROVE disk' = disk
    BY <2>3 DEF MakeEdit
  <2>4. ASSUME NEW r \in Request, NEW e \in Endpoint, NEW p \in Page, NEW n \in Rev,
               NEW a \in Alias, Ask(r, e, p, n, a)
        PROVE  disk' = disk
    BY <2>4 DEF Ask
  <2> QED BY <2>1, <2>2, <2>3, <2>4 DEF Next
<1> QED BY <1>1, <1>2, <1>3, <1>4

(* What a step of a handler does to its own record, and that it does       *)
(* nothing to the others.                                                  *)
LEMMA HandlerStep ==
  ASSUME TypeOK, FirstRevisionGood, ServedInv, NEW r \in Request, Handler(r)
  PROVE  /\ \A s \in Request : s # r => req'[s] = req[s]
         /\ req'[r].on_disk = req[r].on_disk /\ req'[r].page = req[r].page
         /\ req'[r].endpoint = req[r].endpoint
         /\ req'[r].pc \in {"recheck", "claim"} => req'[r].end > 0
         /\ Knows(r) => NotPast(r)'
<1>1. req[r] \in RequestType /\ r \in DOMAIN req
  BY TypeParts
<1>2. req[r].on_disk => Serves(r) /\ (req[r].endpoint \notin WhoColor => Rendered(r) # "processing")
  BY OnDiskServes DEF ServedInv, StaysOnDisk
<1>3. Knows(r) => NotPast(r)
  BY DEF ServedInv
<1>4. req[r].pc \in {"recheck", "claim"} => req[r].end > 0
  BY DEF ServedInv, EndsExist
<1>5. CASE Resolve(r)
  <2>1. PICK step \in {"disk", "mw"} : req' = [req EXCEPT ![r].pc = step]
    BY <1>5 DEF Resolve, Goto
  <2>2. Knows(r) => req[r].endpoint # "page_id"
    BY <1>3, <1>5 DEF Resolve, NotPast
  <2> QED BY <1>1, <1>3, <2>1, <2>2, TypeParts DEF RequestType, Knows, NotPast
<1>6. ASSUME NEW a, NEW n, Respond(r, a, n), Knows(r) => a # "processing"
      PROVE  /\ \A s \in Request : s # r => req'[s] = req[s]
             /\ req'[r].on_disk = req[r].on_disk /\ req'[r].page = req[r].page
             /\ req'[r].endpoint = req[r].endpoint /\ req'[r].pc = "done"
             /\ Knows(r) => NotPast(r)'
  <2>1. req' = [req EXCEPT ![r] = [@ EXCEPT !.pc = "done", !.answer = a, !.served = n]]
    BY <1>6 DEF Respond
  <2>2. /\ req'[r].on_disk = req[r].on_disk /\ req'[r].page = req[r].page
        /\ req'[r].endpoint = req[r].endpoint /\ req'[r].pc = "done"
        /\ req'[r].answer = a
    BY <1>1, <2>1 DEF RequestType
  <2>3. \A s \in Request : s # r => req'[s] = req[s]
    BY <2>1, TypeParts
  <2> QED BY <1>6, <2>2, <2>3 DEF NotPast
<1>7. CASE TryDisk(r)
  <2>1. CASE Respond(r, Rendered(r), Target(r)) /\ Serves(r)
    BY <1>2, <1>6, <2>1 DEF Knows
  <2>2. CASE Respond(r, "unavailable", 0)
    BY <1>6, <2>2
  <2>3. CASE ~ Serves(r) /\ Goto(r, "mw")
    <3>1. ~ Knows(r)
      BY <1>2, <2>3 DEF Knows
    <3>2. req' = [req EXCEPT ![r].pc = "mw"]
      BY <2>3 DEF Goto
    <3> QED BY <1>1, <3>1, <3>2, TypeParts DEF RequestType
  <2> QED BY <1>7, <2>1, <2>2, <2>3 DEF TryDisk
<1>8. CASE AskMw(r)
  <2> DEFINE f == [req[r] EXCEPT !.pc = AfterMw(req[r].endpoint), !.end = EndRev(r)]
             g == [req[r] EXCEPT !.pc = "done", !.answer = "processing", !.mw_failed = TRUE]
  <2>1. req' = [req EXCEPT ![r] = f] \/ req' = [req EXCEPT ![r] = g]
    BY <1>8 DEF AskMw
  <2>2. EndRev(r) > 0
    BY <1>1, ServerAssumption, TypeParts
       DEF EndRev, ServedInv, EndsExist, RequestType, Rev
  <2>3. /\ f.on_disk = req[r].on_disk /\ f.page = req[r].page
        /\ f.endpoint = req[r].endpoint /\ f.pc = AfterMw(req[r].endpoint)
        /\ f.end = EndRev(r) /\ f.answer = req[r].answer /\ f.mw_failed = req[r].mw_failed
    BY <1>1 DEF RequestType
  <2>4. /\ g.on_disk = req[r].on_disk /\ g.page = req[r].page
        /\ g.endpoint = req[r].endpoint /\ g.pc = "done" /\ g.mw_failed
    BY <1>1 DEF RequestType
  <2>5. Knows(r) => req[r].endpoint # "page_id" /\ AfterMw(req[r].endpoint) = "recheck"
    BY <1>3, <1>8 DEF AskMw, NotPast, Knows, AfterMw
  <2> HIDE DEF f, g
  <2>6. \A s \in Request : s # r => req'[s] = req[s]
    BY <2>1, TypeParts
  <2>7. req'[r] = f \/ req'[r] = g
    BY <1>1, <2>1
  <2> QED BY <1>3, <2>2, <2>3, <2>4, <2>5, <2>6, <2>7 DEF NotPast
<1>9. CASE Recheck(r)
  <2> DEFINE f == [req[r] EXCEPT !.pc = "insert", !.answer = Rendered(r),
                     !.served = Target(r), !.titles = OnDisk, !.revs = sidecar]
  <2>1. CASE Serves(r)
    <3>1. req' = [req EXCEPT ![r] = f]
      BY <1>9, <2>1 DEF Recheck
    <3>2. /\ f.on_disk = req[r].on_disk /\ f.page = req[r].page
          /\ f.endpoint = req[r].endpoint /\ f.pc = "insert" /\ f.answer = Rendered(r)
      BY <1>1 DEF RequestType
    <3> HIDE DEF f
    <3> QED BY <1>1, <1>2, <3>1, <3>2, TypeParts DEF Knows, NotPast
  <2>2. CASE ~ Serves(r)
    <3>1. ~ Knows(r) /\ req[r].end > 0
      BY <1>2, <1>4, <1>9, <2>2 DEF Knows, Recheck
    <3>2. req' = [req EXCEPT ![r].pc = "claim"]
      BY <1>9, <2>2 DEF Recheck, Goto
    <3> QED BY <1>1, <3>1, <3>2, TypeParts DEF RequestType
  <2> QED BY <2>1, <2>2
<1>10. CASE InsertIndex(r)
  <2>1. Respond(r, req[r].answer, req[r].served)
    BY <1>10 DEF InsertIndex
  <2>2. req' = [req EXCEPT ![r] = [@ EXCEPT !.pc = "done", !.answer = req[r].answer,
                                            !.served = req[r].served]]
    BY <2>1 DEF Respond
  <2>3. /\ req'[r].on_disk = req[r].on_disk /\ req'[r].page = req[r].page
        /\ req'[r].endpoint = req[r].endpoint /\ req'[r].pc = "done"
        /\ req'[r].answer = req[r].answer /\ req'[r].mw_failed = req[r].mw_failed
    BY <1>1, <2>2 DEF RequestType
  <2>4. \A s \in Request : s # r => req'[s] = req[s]
    BY <2>2, TypeParts
  <2> QED BY <1>3, <2>3, <2>4 DEF NotPast
<1>11. CASE Claim(r)
  <2>1. ~ Knows(r)
    BY <1>3, <1>11 DEF Claim, NotPast
  <2> QED BY <1>6, <1>11, <2>1 DEF Claim
<1> QED BY <1>5, <1>7, <1>8, <1>9, <1>10, <1>11 DEF Handler

(* The steps of tasks, which fetch and persist what was claimed.           *)
LEMMA EndsStay ==
  ASSUME TypeOK, FirstRevisionGood, ServedInv, Next
  PROVE  EndsExist'
<1>1. \A p \in Page : wiki'[p] > 0
  <2>1. ASSUME NEW p \in Page, MakeEdit(p) PROVE \A q \in Page : wiki'[q] > 0
    BY <2>1, ServerAssumption, TypeParts DEF MakeEdit, ServedInv, EndsExist, Upto, Rev
  <2>2. wiki' = wiki \/ \E p \in Page : MakeEdit(p)
    BY DEF Next, Ingest, Ask, Handler, Task, Resolve, TryDisk, AskMw, Recheck,
       InsertIndex, Claim, Fetch, Persist, TitleBuild, TitleInsert, RevBuild,
       RevInsert, Release
  <2> QED BY <2>1, <2>2 DEF ServedInv, EndsExist
<1>2. \A r \in Request : req'[r].pc \in {"recheck", "claim"} => req'[r].end > 0
  <2>1. ASSUME NEW r \in Request, Handler(r)
        PROVE  \A s \in Request : req'[s].pc \in {"recheck", "claim"} => req'[s].end > 0
    BY <2>1, HandlerStep DEF ServedInv, EndsExist
  <2>2. ASSUME NEW r \in Request, NEW e, NEW p, NEW n, NEW a, Ask(r, e, p, n, a)
        PROVE  \A s \in Request : req'[s].pc \in {"recheck", "claim"} => req'[s].end > 0
    <3> DEFINE f == [NoRequest EXCEPT
          !.pc = IF e = "page_id" THEN "disk" ELSE "resolve",
          !.endpoint = e, !.page = p, !.rev = n, !.alias = a,
          !.floor = known[p], !.on_disk = LatestStored(p) > 0]
    <3>1. req' = [req EXCEPT ![r] = f]
      BY <2>2 DEF Ask
    <3>2. f.pc \in {"disk", "resolve"}
      BY DEF NoRequest
    <3> HIDE DEF f
    <3> QED BY <3>1, <3>2, TypeParts DEF ServedInv, EndsExist
  <2>3. req' = req \/ (\E r \in Request : Handler(r))
          \/ \E r \in Request, e \in Endpoint, p \in Page, n \in Rev, a \in Alias :
               Ask(r, e, p, n, a)
    BY DEF Next, MakeEdit, Ingest, Task, Fetch, Persist, TitleBuild, TitleInsert,
       RevBuild, RevInsert, Release
  <2> QED BY <2>1, <2>2, <2>3 DEF ServedInv, EndsExist
<1>3. \A r \in Request : task'[r].pc \in {"fetch", "persist"} => task'[r].end > 0
  <2> DEFINE P(t) == t.pc \in {"fetch", "persist"} => t.end > 0
  <2>1. ASSUME NEW r \in Request, Claim(r) PROVE \A s \in Request : P(task'[s])
    <3> DEFINE f == [NoTask EXCEPT !.pc = "fetch", !.page = req[r].page, !.end = req[r].end]
    <3>1. task' = task \/ task' = [task EXCEPT ![r] = f]
      BY <2>1 DEF Claim
    <3>2. f.end = req[r].end /\ req[r].end > 0
      BY <2>1 DEF NoTask, Claim, ServedInv, EndsExist
    <3> HIDE DEF f
    <3> QED BY <3>1, <3>2, TypeParts DEF ServedInv, EndsExist
  <2>2. ASSUME NEW r \in Request, Task(r) PROVE \A s \in Request : P(task'[s])
    <3>1. \A s \in Request : s # r => task'[s] = task[s]
      BY <2>2, TypeParts DEF Task, Fetch, Persist, TitleBuild, TitleInsert, RevBuild,
         RevInsert, Release, Step
    <3>2. P(task'[r])
      <4>1. task[r] \in TaskType /\ r \in DOMAIN task
        BY TypeParts
      <4>2. CASE Fetch(r)
        BY <4>1, <4>2 DEF Fetch, Step, NoTask, TaskType, ServedInv, EndsExist, AfterFailure
      <4>3. CASE Persist(r)
        BY <4>1, <4>3 DEF Persist, Step, TaskType, AfterFailure
      <4>4. CASE TitleInsert(r) \/ RevInsert(r) \/ Release(r)
        BY <4>1, <4>4 DEF TitleInsert, RevInsert, Release, Step, TaskType, NoTask
      <4>5. CASE TitleBuild(r)
        BY <4>1, <4>5 DEF TitleBuild, Step, TaskType
      <4>6. CASE RevBuild(r)
        BY <4>1, <4>6 DEF RevBuild, Step, TaskType
      <4> QED BY <2>2, <4>2, <4>3, <4>4, <4>5, <4>6 DEF Task
    <3> QED BY <3>1, <3>2 DEF ServedInv, EndsExist
  <2>3. task' = task \/ (\E r \in Request : Claim(r)) \/ \E r \in Request : Task(r)
    BY DEF Next, MakeEdit, Ingest, Ask, Handler, Resolve, TryDisk, AskMw, Recheck,
       InsertIndex
  <2> QED BY <2>1, <2>2, <2>3 DEF ServedInv, EndsExist
<1> QED BY <1>1, <1>2, <1>3 DEF EndsExist

(* No step takes a request that can be served past the disk.               *)
LEMMA ServedStep ==
  ASSUME TypeOK, FirstRevisionGood, ServedInv, Next
  PROVE  ServedInv'
<1>1. EndsExist'
  BY EndsStay
<1>2. \A p \in Page : disk[p] > 0 => disk'[p] > 0
  BY DiskStays DEF ServedInv
<1>3. \A r \in Request : req[r].page \in Page
  BY TypeParts DEF RequestType
<1>4. CASE req' = req
  BY <1>1, <1>2, <1>3, <1>4 DEF ServedInv, StaysOnDisk, Knows, NotPast
<1>5. ASSUME NEW r \in Request, Handler(r) PROVE ServedInv'
  <2>1. /\ \A s \in Request : s # r => req'[s] = req[s]
        /\ req'[r].on_disk = req[r].on_disk /\ req'[r].page = req[r].page
        /\ req'[r].endpoint = req[r].endpoint
        /\ Knows(r) => NotPast(r)'
    BY <1>5, HandlerStep
  <2> QED BY <1>1, <1>2, <1>3, <2>1 DEF ServedInv, StaysOnDisk, Knows, NotPast
<1>6. ASSUME NEW r \in Request, NEW e \in Endpoint, NEW p \in Page, NEW n \in Rev,
             NEW a \in Alias, Ask(r, e, p, n, a)
      PROVE  ServedInv'
  <2> DEFINE f == [NoRequest EXCEPT
        !.pc = IF e = "page_id" THEN "disk" ELSE "resolve",
        !.endpoint = e, !.page = p, !.rev = n, !.alias = a,
        !.floor = known[p], !.on_disk = LatestStored(p) > 0]
  <2>1. req' = [req EXCEPT ![r] = f] /\ disk' = disk
    BY <1>6 DEF Ask
  <2>2. /\ f.pc \in {"disk", "resolve"} /\ f.page = p /\ f.answer = "none"
        /\ f.on_disk = (LatestStored(p) > 0)
        /\ f.endpoint = e /\ (e = "page_id" => f.pc = "disk")
    BY DEF NoRequest
  <2>3. LatestStored(p) > 0 => disk[p] > 0
    <3>1. disk[p] \in Nat
      BY ServerAssumption, TypeParts DEF Upto, Rev
    <3>2. LatestStored(p) > 0 => \E n1 \in 1 .. disk[p] : TRUE
      BY StoredBounds DEF Stored
    <3> QED BY <3>1, <3>2
  <2> HIDE DEF f
  <2>4. \A s \in Request : req'[s] = IF s = r THEN f ELSE req[s]
    BY <2>1, TypeParts
  <2>5. StaysOnDisk'
    BY <2>1, <2>2, <2>3, <2>4 DEF ServedInv, StaysOnDisk
  <2>6. \A s \in Request : Knows(s)' => NotPast(s)'
    BY <2>2, <2>4 DEF ServedInv, Knows, NotPast
  <2> QED BY <1>1, <2>5, <2>6 DEF ServedInv
<1> QED BY <1>4, <1>5, <1>6 DEF Next, MakeEdit, Ingest, Task, Fetch, Persist,
     TitleBuild, TitleInsert, RevBuild, RevInsert, Release

(* A rev_content request for a page that was on disk when it came is       *)
(* answered from the disk whatever the in-memory indexes know, as the      *)
(* second look at the disk, after MediaWiki was asked, comes before any    *)
(* claim: provided no page begins with vandalism.                          *)
THEOREM MissesServe == FirstRevisionGood => (Spec => []IndexMissStillServes)
<1> SUFFICES ASSUME FirstRevisionGood PROVE Spec => []IndexMissStillServes
  OBVIOUS
<1>1. Init => ServedInv
  BY DEF Init, ServedInv, EndsExist, StaysOnDisk, Knows, NotPast, NoRequest, NoTask
<1>2. TypeOK /\ ServedInv /\ [Next]_vars => ServedInv'
  <2>1. TypeOK /\ ServedInv /\ UNCHANGED vars => ServedInv'
    BY DEF vars, ServedInv, EndsExist, StaysOnDisk, Knows, NotPast
  <2> QED BY <2>1, ServedStep
<1>3. ServedInv => IndexMissStillServes
  BY DEF ServedInv, IndexMissStillServes, Knows, NotPast
<1> QED BY <1>1, <1>2, <1>3, TypeCorrect, PTL DEF Spec
=============================================================================
