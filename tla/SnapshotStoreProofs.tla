-------------------------- MODULE SnapshotStoreProofs --------------------------
(***************************************************************************)
(* Proofs about SnapshotStore for any number of pages, writers, readers    *)
(* and versions, and at the end that a rebuild of the index restores it,   *)
(* whatever calls that died have left on the disk.                         *)
(***************************************************************************)
EXTENDS IndexRebuild, DataLemmas

(* The groups of variables, for steps that leave them alone.               *)
USE DEF files, sidecar, writer

(* A call in progress has a page and one of its versions; the next one     *)
(* begins with the first file.                                             *)
JobOK ==
  \A w \in Writer :
    /\ pc[w] # "idle" => job[w].page \in Page /\ job[w].version \in Version
    /\ pc[w] = "idle" => at[w] = 1

TypeInv == TypeOK /\ JobOK

(* The write order goes through all the files. *)
LEMMA OrderIsComplete ==
  /\ Len(WriteOrder) = 7
  /\ \A n \in 1 .. 7 : WriteOrder[n] \in File
  /\ \A f \in File : \E n \in 1 .. 7 : WriteOrder[n] = f
<1>1. Len(WriteOrder) = 7
  BY DEF WriteOrder
<1>2. \A n \in 1 .. 7 : WriteOrder[n] \in File
  BY DEF WriteOrder, File
<1>3. \A f \in File : \E n \in 1 .. 7 : WriteOrder[n] = f
  <2>1. /\ WriteOrder[1] = "strings" /\ WriteOrder[2] = "tokens"
        /\ WriteOrder[3] = "revisions" /\ WriteOrder[4] = "paragraphs"
        /\ WriteOrder[5] = "sentences" /\ WriteOrder[6] = "hashtables"
        /\ WriteOrder[7] = "meta"
    BY DEF WriteOrder
  <2> QED BY <2>1 DEF File
<1> QED BY <1>1, <1>2, <1>3

(* There is an inode for a new temporary file when none is in the          *)
(* directory: the index and the writers' descriptors leave one free.       *)
LEMMA FreshIsFree ==
  ASSUME TypeOK, tmp = NoInode
  PROVE  FreshTemporary \in Inode /\ FreshTemporary \notin InUse
<1> DEFINE T == { fd[w] : w \in Writer }
<1> DEFINE n == Cardinality(Writer)
<1>1. IsFiniteSet(Writer) /\ n \in Nat
  BY StoreAssumption, FS_CardinalityType
<1>2. IsFiniteSet(T) /\ Cardinality(T) <= n /\ Cardinality(T) \in Nat
  <2>1. fd \in Surjection(Writer, T)
    BY DEF TypeOK, Surjection
  <2> QED BY <2>1, <1>1, FS_Surjection, FS_CardinalityType
<1>3. IsFiniteSet(T \cup {index}) /\ Cardinality(T \cup {index}) <= n + 1
      /\ Cardinality(T \cup {index}) \in Nat
  BY <1>1, <1>2, FS_AddElement, FS_CardinalityType
<1>4. Cardinality(Inode) = n + 2
  BY <1>1, FS_Interval DEF Inode
<1>5. ~ (Inode \subseteq T \cup {index})
  <2> SUFFICES ASSUME Inode \in SUBSET (T \cup {index}) PROVE FALSE
    OBVIOUS
  <2>1. Cardinality(Inode) <= Cardinality(T \cup {index})
    BY <1>3, FS_Subset
  <2> QED BY <2>1, <1>1, <1>3, <1>4
<1>6. \E i \in Inode : i \notin InUse
  BY <1>5 DEF InUse, Inode, NoInode
<1> QED BY <1>6 DEF FreshTemporary

(* The temporary file is given an inode there is. *)
LEMMA TemporaryIsInode ==
  ASSUME TypeOK
  PROVE  TemporaryFile \in Inode
BY FreshIsFree DEF TemporaryFile, TypeOK

(* The end of a call leaves the writer's variables well typed. *)
LEMMA ReturnType ==
  ASSUME TypeInv, NEW w \in Writer, pc[w] # "idle", NEW ok \in BOOLEAN, Return(w, ok)
  PROVE  /\ pc' \in [Writer -> {"idle", "create", "fill", "load", "tmp", "body", "rename"}]
         /\ job' \in [Writer -> [page : Page \cup {NoPage}, version : 0 .. MaxVersion]]
         /\ at' \in [Writer -> 1 .. Len(WriteOrder)]
         /\ fd' \in [Writer -> Inode \cup {NoInode}]
         /\ loaded' \in [Writer -> SUBSET Entry]
         /\ lastCall' \in [Page -> [version : 0 .. MaxVersion, ok : BOOLEAN]]
         /\ JobOK'
<1> USE StoreAssumption, OrderIsComplete
<1>1. pc' = [pc EXCEPT ![w] = "idle"]
  BY DEF Return, Goto
<1>2. NoJob \in [page : Page \cup {NoPage}, version : 0 .. MaxVersion]
  BY DEF NoJob
<1>3. job[w].version \in 0 .. MaxVersion
  BY DEF TypeInv, TypeOK
<1>4. JobOK'
  BY <1>1 DEF TypeInv, TypeOK, JobOK, Return
<1>5. lastCall' \in [Page -> [version : 0 .. MaxVersion, ok : BOOLEAN]]
  BY <1>3 DEF TypeInv, TypeOK, Return
<1> QED BY <1>1, <1>2, <1>4, <1>5 DEF TypeInv, TypeOK, Return

(* An empty volume with idle writers is well typed. *)
LEMMA TypeInit == Init => TypeInv
<1> SUFFICES ASSUME Init PROVE TypeInv
  OBVIOUS
<1> USE StoreAssumption, OrderIsComplete
<1>1. Cardinality(Writer) \in Nat
  BY FS_CardinalityType
<1>2. NoJob \in [page : Page \cup {NoPage}, version : 0 .. MaxVersion]
  BY DEF NoJob
<1>3. Closed \in [page : Page \cup {NoPage}, open : BOOLEAN, got : Seq(Version)]
  BY DEF Closed
<1>4. NoBytes \in [entries : SUBSET Entry, ok : BOOLEAN]
  BY DEF NoBytes
<1> QED BY <1>1, <1>2, <1>3, <1>4 DEF Init, TypeInv, TypeOK, JobOK

(* Every action keeps the types, and a call keeps its page and version.    *)
LEMMA TypeNext == TypeInv /\ [Next]_vars => TypeInv'
<1> SUFFICES ASSUME TypeInv, [Next]_vars PROVE TypeInv'
  OBVIOUS
<1> USE StoreAssumption, OrderIsComplete
<1>a. MaxVersion \in Nat /\ Version \subseteq 0 .. MaxVersion
  BY DEF Version
<1>1. ASSUME NEW w \in Writer, NEW p \in Page, WriteArticle(w, p) PROVE TypeInv'
  <2>1. started[p] + 1 \in Version /\ started[p] + 1 \in 0 .. MaxVersion
    BY <1>1 DEF WriteArticle, TypeInv, TypeOK, Version
  <2> QED BY <1>1, <2>1 DEF WriteArticle, Goto, TypeInv, TypeOK, JobOK
<1>2. ASSUME NEW w \in Writer, CreateFile(w) PROVE TypeInv'
  BY <1>2 DEF CreateFile, Goto, TypeInv, TypeOK, JobOK
<1>3. ASSUME NEW w \in Writer, FillFile(w) PROVE TypeInv'
  <2>1. job[w].version \in Version /\ job[w].page \in Page
    BY <1>3 DEF FillFile, TypeInv, JobOK
  <2>2. PICK new \in Filled(file[job[w].page][WriteOrder[at[w]]], job[w].version) :
          file' = [file EXCEPT ![job[w].page][WriteOrder[at[w]]] = new]
    BY <1>3 DEF FillFile
  <2>3. new \in Version \cup {Absent, Truncated, Garbled}
    BY <2>1, <2>2 DEF Filled
  <2>4. file' \in [Page -> [File -> Version \cup {Absent, Truncated, Garbled}]]
    BY <2>2, <2>3 DEF TypeInv, TypeOK
  <2>5. AfterFile(w) \in {"create", "load"}
        /\ (AfterFile(w) = "create" => at[w] + 1 \in 1 .. Len(WriteOrder))
    BY DEF AfterFile, TypeInv, TypeOK
  <2>6. at' \in [Writer -> 1 .. Len(WriteOrder)]
    BY <1>3, <2>5 DEF FillFile, TypeInv, TypeOK
  <2> QED BY <1>3, <2>4, <2>5, <2>6 DEF FillFile, Goto, TypeInv, TypeOK, JobOK
<1>4. ASSUME NEW w \in Writer, LoadIndex(w) PROVE TypeInv'
  <2>1. CASE index # NoInode /\ ~ bytes[index].ok
    <3>1. Return(w, FALSE) /\ pc[w] # "idle"
      BY <1>4, <2>1 DEF LoadIndex
    <3> QED BY <1>4, <3>1, ReturnType DEF LoadIndex, TypeInv, TypeOK
  <2>2. CASE ~ (index # NoInode /\ ~ bytes[index].ok)
    <3> DEFINE E == IF index = NoInode THEN {} ELSE bytes[index].entries
    <3>1. E \subseteq Entry
      BY DEF TypeInv, TypeOK
    <3>2. job[w].version \in Version /\ job[w].page \in Page
      BY <1>4 DEF LoadIndex, TypeInv, JobOK
    <3>3. Revisions(job[w].page, job[w].version) \subseteq Entry
      BY <3>2, <1>a DEF Revisions, Entry, Version
    <3>4. replace_article(E, job[w].page, job[w].version) \subseteq Entry
      BY <3>1, <3>3 DEF replace_article
    <3>5. loaded' \in [Writer -> SUBSET Entry]
      BY <1>4, <2>2, <3>4 DEF LoadIndex, TypeInv, TypeOK
    <3> QED BY <1>4, <2>2, <3>5 DEF LoadIndex, Goto, TypeInv, TypeOK, JobOK
  <2> QED BY <2>1, <2>2
<1>5. ASSUME NEW w \in Writer, CreateTmp(w) PROVE TypeInv'
  <2>1. TemporaryFile \in Inode
    BY TemporaryIsInode DEF TypeInv
  <2>2. NoBytes \in [entries : SUBSET Entry, ok : BOOLEAN]
    BY DEF NoBytes
  <2> QED BY <1>5, <2>1, <2>2 DEF CreateTmp, Goto, TypeInv, TypeOK, JobOK
<1>6. ASSUME NEW w \in Writer, WriteBody(w) PROVE TypeInv'
  <2> DEFINE new == IF Cardinality(loaded[w]) >= Cardinality(bytes[fd[w]].entries)
                      THEN [entries |-> loaded[w], ok |-> TRUE]
                      ELSE [bytes[fd[w]] EXCEPT !.ok = FALSE]
  <2>1. bytes' \in [Inode -> [entries : SUBSET Entry, ok : BOOLEAN]]
    <3>1. bytes' = [bytes EXCEPT ![fd[w]] = new]
      BY <1>6 DEF WriteBody
    <3>2. fd[w] \in Inode => new \in [entries : SUBSET Entry, ok : BOOLEAN]
      <4> SUFFICES ASSUME fd[w] \in Inode PROVE new \in [entries : SUBSET Entry, ok : BOOLEAN]
        OBVIOUS
      <4>1. /\ bytes[fd[w]] \in [entries : SUBSET Entry, ok : BOOLEAN]
            /\ loaded[w] \in SUBSET Entry
        BY DEF TypeInv, TypeOK
      <4>2. [entries |-> loaded[w], ok |-> TRUE] \in [entries : SUBSET Entry, ok : BOOLEAN]
        BY <4>1
      <4>3. [bytes[fd[w]] EXCEPT !.ok = FALSE] \in [entries : SUBSET Entry, ok : BOOLEAN]
        BY <4>1
      <4> QED BY <4>2, <4>3
    <3> HIDE DEF new
    <3> QED BY <3>1, <3>2 DEF TypeInv, TypeOK
  <2> QED BY <1>6, <2>1 DEF WriteBody, Goto, TypeInv, TypeOK, JobOK
<1>7. ASSUME NEW w \in Writer, RenameTmp(w) PROVE TypeInv'
  <2>1. pc[w] # "idle" /\ \E ok \in BOOLEAN : Return(w, ok)
    BY <1>7 DEF RenameTmp
  <2>2. index' \in Inode \cup {NoInode} /\ tmp' \in Inode \cup {NoInode}
    BY <1>7 DEF RenameTmp, TypeInv, TypeOK, NoInode
  <2>3. UNCHANGED <<file, bytes, reading, started>>
    BY <1>7 DEF RenameTmp
  <2>4. /\ pc' \in [Writer -> {"idle", "create", "fill", "load", "tmp", "body", "rename"}]
        /\ job' \in [Writer -> [page : Page \cup {NoPage}, version : 0 .. MaxVersion]]
        /\ at' \in [Writer -> 1 .. Len(WriteOrder)]
        /\ fd' \in [Writer -> Inode \cup {NoInode}]
        /\ loaded' \in [Writer -> SUBSET Entry]
        /\ lastCall' \in [Page -> [version : 0 .. MaxVersion, ok : BOOLEAN]]
        /\ JobOK' /\ TypeOK
    BY <2>1, ReturnType DEF TypeInv
  <2>5. TypeOK'
    BY <2>2, <2>3, <2>4, SMTT(20) DEF TypeOK
  <2> QED BY <2>4, <2>5 DEF TypeInv
<1>8. ASSUME NEW w \in Writer, Crash(w) PROVE TypeInv'
  BY <1>8, ReturnType DEF Crash, TypeInv, TypeOK
<1>9. ASSUME NEW r \in Reader, NEW p \in Page, OpenSnapshot(r, p) PROVE TypeInv'
  BY <1>9 DEF OpenSnapshot, TypeInv, TypeOK, JobOK
<1>10. ASSUME NEW r \in Reader, ReadFile(r) PROVE TypeInv'
  <2> DEFINE n == Len(reading[r].got) + 1
  <2> DEFINE v == file[reading[r].page][ReadOrder[n]]
  <2>1. Closed \in [page : Page \cup {NoPage}, open : BOOLEAN, got : Seq(Version)]
    BY DEF Closed
  <2>2. v \in Version => Append(reading[r].got, v) \in Seq(Version)
    BY DEF TypeInv, TypeOK
  <2>4. reading' \in [Reader -> [page : Page \cup {NoPage}, open : BOOLEAN, got : Seq(Version)]]
    <3>1. CASE v \in Version
      <4> DEFINE new == [page |-> reading[r].page, open |-> n < Len(ReadOrder),
                         got |-> Append(reading[r].got, v)]
      <4>1. reading[r].page \in Page \cup {NoPage}
        BY DEF TypeInv, TypeOK
      <4>2. new \in [page : Page \cup {NoPage}, open : BOOLEAN, got : Seq(Version)]
        BY <4>1, <2>2, <3>1
      <4>3. reading' = [reading EXCEPT ![r] = new]
        BY <1>10, <3>1 DEF ReadFile
      <4> HIDE DEF new
      <4> QED BY <4>2, <4>3 DEF TypeInv, TypeOK
    <3>2. CASE v \notin Version
      <4>1. reading' = [reading EXCEPT ![r] = Closed]
        BY <1>10, <3>2 DEF ReadFile
      <4> QED BY <4>1, <2>1 DEF TypeInv, TypeOK
    <3> QED BY <3>1, <3>2
  <2> QED BY <1>10, <2>4 DEF ReadFile, TypeInv, TypeOK, JobOK
<1>11. CASE UNCHANGED vars
  BY <1>11 DEF vars, TypeInv, TypeOK, JobOK
<1> QED BY <1>1, <1>2, <1>3, <1>4, <1>5, <1>6, <1>7, <1>8, <1>9, <1>10, <1>11 DEF Next

(* Every variable keeps its type, any number of writers and readers at     *)
(* work: in particular there always is an inode for the temporary file.    *)
THEOREM TypeCorrect == Spec => []TypeOK
<1>1. TypeInv => TypeOK
  BY DEF TypeInv
<1> QED BY TypeInit, TypeNext, <1>1, PTL DEF Spec
-----------------------------------------------------------------------------
(* The inductive invariant of PublishedArticleExists: a call has created   *)
(* the files it is past, all of them once it turns to the index; and the   *)
(* entries in any inode or in any writer's memory are of pages that have   *)
(* all their files.                                                        *)
Exists(p) == \A f \in File : file[p][f] # Absent
Backed(entries) == \A e \in entries : Exists(e[1])

FilesBehind ==
  \A w \in Writer :
    /\ pc[w] = "create" =>
         \A n \in 1 .. 7 : n < at[w] => file[job[w].page][WriteOrder[n]] # Absent
    /\ pc[w] = "fill" =>
         \A n \in 1 .. 7 : n <= at[w] => file[job[w].page][WriteOrder[n]] # Absent
    /\ pc[w] \in {"load", "tmp", "body", "rename"} => Exists(job[w].page)

EntriesBacked ==
  /\ \A i \in Inode : Backed(bytes[i].entries)
  /\ \A w \in Writer : Backed(loaded[w])

(* No step removes a file: a page that has all its files keeps them. *)
LEMMA FilesStay ==
  ASSUME TypeInv, [Next]_vars
  PROVE  \A p \in Page, f \in File : file[p][f] # Absent => file'[p][f] # Absent
<1> USE DEF TypeInv, TypeOK
<1>1. ASSUME NEW w \in Writer, CreateFile(w)
      PROVE  \A p \in Page, f \in File : file[p][f] # Absent => file'[p][f] # Absent
  BY <1>1 DEF CreateFile, Absent, Truncated
<1>2. ASSUME NEW w \in Writer, FillFile(w)
      PROVE  \A p \in Page, f \in File : file[p][f] # Absent => file'[p][f] # Absent
  <2>1. job[w].version \in Version
    BY <1>2 DEF FillFile, JobOK
  <2>2. PICK new \in Filled(file[job[w].page][WriteOrder[at[w]]], job[w].version) :
          file' = [file EXCEPT ![job[w].page][WriteOrder[at[w]]] = new]
    BY <1>2 DEF FillFile
  <2>3. new # Absent
    BY <2>1, <2>2, StoreAssumption DEF Filled, Absent, Garbled, Version
  <2> QED BY <2>2, <2>3
<1>3. CASE UNCHANGED file
  BY <1>3
<1> QED
  BY <1>1, <1>2, <1>3 DEF Next, vars, WriteArticle, LoadIndex, CreateTmp, WriteBody,
     RenameTmp, Crash, OpenSnapshot, ReadFile

(* Entries that are backed by files stay so. *)
LEMMA BackedStays ==
  ASSUME TypeInv, [Next]_vars, NEW E \in SUBSET Entry, Backed(E)
  PROVE  Backed(E)'
BY FilesStay DEF Backed, Exists, Entry

(* The files a call is past. *)
LEMMA FilesBehindNext ==
  ASSUME TypeInv, TypeInv', FilesBehind, [Next]_vars
  PROVE  FilesBehind'
<1> USE OrderIsComplete
<1>a. \A w \in Writer : pc[w] # "idle" => job[w].page \in Page
  BY DEF TypeInv, JobOK
<1>b. \A p \in Page : Exists(p) => Exists(p)'
  BY FilesStay DEF Exists
<1>c. /\ at \in [Writer -> 1 .. 7] /\ DOMAIN pc = Writer /\ DOMAIN job = Writer
  BY DEF TypeInv, TypeOK
(* A writer that the step leaves where it was. *)
<1> DEFINE Behind(w) ==
      /\ pc[w] = "create" =>
           \A n \in 1 .. 7 : n < at[w] => file[job[w].page][WriteOrder[n]] # Absent
      /\ pc[w] = "fill" =>
           \A n \in 1 .. 7 : n <= at[w] => file[job[w].page][WriteOrder[n]] # Absent
      /\ pc[w] \in {"load", "tmp", "body", "rename"} => Exists(job[w].page)
<1>d. \A w \in Writer : Behind(w)
  BY DEF FilesBehind
<1>e. ASSUME NEW w \in Writer, pc'[w] = pc[w], at'[w] = at[w], job'[w] = job[w]
      PROVE  Behind(w)'
  <2>1. pc[w] # "idle" => \A n \in 1 .. 7 :
          file[job[w].page][WriteOrder[n]] # Absent
            => file'[job[w].page][WriteOrder[n]] # Absent
    BY <1>a, FilesStay
  <2>2. pc[w] \in {"load", "tmp", "body", "rename"} /\ Exists(job[w].page)
          => Exists(job[w].page)'
    BY <1>a, <1>b, <1>e
  <2> QED BY <2>1, <2>2, <1>d, <1>e
<1>f. ASSUME NEW w \in Writer, pc'[w] = "idle" PROVE Behind(w)'
  BY <1>f
(* The other writers, in a step of one. *)
<1> DEFINE Others(w) == \A x \in Writer \ {w} :
      pc'[x] = pc[x] /\ at'[x] = at[x] /\ job'[x] = job[x]
<1>g. ASSUME NEW w \in Writer, Others(w), Behind(w)' PROVE FilesBehind'
  BY <1>e, <1>g DEF FilesBehind
<1>1. ASSUME NEW w \in Writer, NEW p \in Page, WriteArticle(w, p) PROVE FilesBehind'
  <2>1. Others(w) /\ pc'[w] = "create" /\ at'[w] = at[w]
    BY <1>1, <1>c DEF WriteArticle, Goto
  <2>2. at[w] = 1
    BY <1>1 DEF WriteArticle, TypeInv, JobOK
  <2> QED BY <2>1, <2>2, <1>g
<1>2. ASSUME NEW w \in Writer, CreateFile(w) PROVE FilesBehind'
  <2>1. Others(w) /\ pc'[w] = "fill" /\ at'[w] = at[w] /\ job'[w] = job[w]
    BY <1>2, <1>c DEF CreateFile, Goto
  <2>2. file'[job[w].page][WriteOrder[at[w]]] # Absent
    BY <1>2, <1>a, <1>c DEF CreateFile, Absent, Truncated, TypeInv, TypeOK
  <2>3. \A n \in 1 .. 7 : n < at[w] => file'[job[w].page][WriteOrder[n]] # Absent
    BY <1>2, <1>a, <1>d, FilesStay DEF CreateFile
  <2>4. \A n \in 1 .. 7 : n <= at[w] => n < at[w] \/ n = at[w]
    BY <1>c
  <2> QED BY <2>1, <2>2, <2>3, <2>4, <1>g, SMTT(20)
<1>3. ASSUME NEW w \in Writer, FillFile(w) PROVE FilesBehind'
  <2>1. Others(w) /\ job'[w] = job[w] /\ pc'[w] = AfterFile(w)
    BY <1>3, <1>c DEF FillFile, Goto
  <2>2. \A n \in 1 .. 7 : n <= at[w] => file'[job[w].page][WriteOrder[n]] # Absent
    BY <1>3, <1>a, <1>d, FilesStay DEF FillFile
  <2>3. CASE at[w] < 7
    <3>1. pc'[w] = "create" /\ at'[w] = at[w] + 1
      BY <1>3, <2>1, <2>3, <1>c DEF FillFile, AfterFile
    <3> QED BY <2>1, <2>2, <3>1, <1>c, <1>g
  <2>4. CASE at[w] = 7
    <3>1. pc'[w] = "load"
      BY <2>1, <2>4 DEF AfterFile
    <3>2. Exists(job[w].page)'
      BY <2>1, <2>2, <2>4 DEF Exists
    <3> QED BY <2>1, <3>1, <3>2, <1>g
  <2> QED BY <2>3, <2>4, <1>c
<1>4. ASSUME NEW w \in Writer, \E ok \in BOOLEAN : Return(w, ok) PROVE FilesBehind'
  <2>1. Others(w) /\ pc'[w] = "idle"
    BY <1>4, <1>c DEF Return, Goto, TypeInv, TypeOK
  <2> QED BY <2>1, <1>f, <1>g
(* Past the files, a call goes on with the same page. *)
<1>5. ASSUME NEW w \in Writer, pc[w] \in {"load", "tmp", "body"},
             \E step \in {"tmp", "body", "rename"} : Goto(w, step),
             UNCHANGED <<job, at>>
      PROVE  FilesBehind'
  <2>1. Others(w) /\ job'[w] = job[w] /\ pc'[w] \in {"tmp", "body", "rename"}
    BY <1>5, <1>c DEF Goto
  <2>2. Exists(job[w].page)'
    BY <1>5, <1>a, <1>b, <1>d
  <2> QED BY <2>1, <2>2, <1>g
<1>6. CASE UNCHANGED <<pc, job, at>>
  BY <1>6, <1>e DEF FilesBehind
<1> QED
  BY <1>1, <1>2, <1>3, <1>4, <1>5, <1>6 DEF Next, vars, LoadIndex, CreateTmp, WriteBody,
     RenameTmp, Crash, OpenSnapshot, ReadFile

(* The entries of the index, of the temporary files and of the writers. *)
LEMMA EntriesBackedNext ==
  ASSUME TypeInv, TypeInv', FilesBehind, EntriesBacked, [Next]_vars
  PROVE  EntriesBacked'
<1>a. /\ \A i \in Inode : bytes[i].entries \in SUBSET Entry /\ Backed(bytes[i].entries)
      /\ \A w \in Writer : loaded[w] \in SUBSET Entry /\ Backed(loaded[w])
      /\ bytes \in [Inode -> [entries : SUBSET Entry, ok : BOOLEAN]]
      /\ loaded \in [Writer -> SUBSET Entry]
  BY DEF TypeInv, TypeOK, EntriesBacked
<1>b. /\ \A i \in Inode : Backed(bytes[i].entries)'
           \/ ~ (bytes'[i].entries = bytes[i].entries)
      /\ \A w \in Writer : Backed(loaded[w])' \/ loaded'[w] # loaded[w]
  BY <1>a, BackedStays DEF Backed
<1>c. Backed({})'
  BY DEF Backed
<1>1. ASSUME NEW w \in Writer, LoadIndex(w), ~ (index # NoInode /\ ~ bytes[index].ok)
      PROVE  EntriesBacked'
  <2> DEFINE E == IF index = NoInode THEN {} ELSE bytes[index].entries
             new == replace_article(E, job[w].page, job[w].version)
  <2>1. E \in SUBSET Entry /\ Backed(E)
    BY <1>a DEF TypeInv, TypeOK, Backed
  <2>2. \A e \in E : \A f \in File : file'[e[1]][f] # Absent
    BY <2>1, FilesStay DEF Backed, Exists, Entry
  <2>3. \A f \in File : file'[job[w].page][f] # Absent
    <3>1. pc[w] = "load"
      BY <1>1 DEF LoadIndex
    <3>2. job[w].page \in Page /\ Exists(job[w].page)
      BY <3>1 DEF FilesBehind, TypeInv, JobOK
    <3> QED BY <3>2, FilesStay DEF Exists
  <2>4. \A e \in new : \A f \in File : file'[e[1]][f] # Absent
    <3> SUFFICES ASSUME NEW e \in new PROVE \A f \in File : file'[e[1]][f] # Absent
      OBVIOUS
    <3>1. CASE e \in E
      BY <3>1, <2>2
    <3>2. CASE e \in Revisions(job[w].page, job[w].version)
      <4>1. e[1] = job[w].page
        BY <3>2 DEF Revisions
      <4> QED BY <4>1, <2>3
    <3> QED BY <3>1, <3>2 DEF replace_article
  <2>5. loaded' = [loaded EXCEPT ![w] = new] /\ UNCHANGED bytes
    BY <1>1 DEF LoadIndex
  <2>6. \A x \in Writer : Backed(loaded[x])'
    BY <2>4, <2>5, <1>a, <1>b DEF Backed, Exists
  <2> QED BY <2>5, <2>6, <1>b DEF EntriesBacked
<1>2. ASSUME NEW w \in Writer, CreateTmp(w) PROVE EntriesBacked'
  BY <1>2, <1>a, <1>b, <1>c DEF CreateTmp, EntriesBacked, NoBytes
<1>3. ASSUME NEW w \in Writer, WriteBody(w) PROVE EntriesBacked'
  <2>1. UNCHANGED loaded
    BY <1>3 DEF WriteBody
  <2>2. \A i \in Inode : bytes'[i].entries \in {bytes[i].entries, loaded[w]}
    <3>1. CASE Cardinality(loaded[w]) >= Cardinality(bytes[fd[w]].entries)
      <4>1. bytes' = [bytes EXCEPT ![fd[w]] = [entries |-> loaded[w], ok |-> TRUE]]
        BY <1>3, <3>1 DEF WriteBody
      <4> QED BY <4>1, <1>a
    <3>2. CASE ~ (Cardinality(loaded[w]) >= Cardinality(bytes[fd[w]].entries))
      <4>1. bytes' = [bytes EXCEPT ![fd[w]] = [bytes[fd[w]] EXCEPT !.ok = FALSE]]
        BY <1>3, <3>2 DEF WriteBody
      <4> QED BY <4>1, <1>a
    <3> QED BY <3>1, <3>2
  <2>3. Backed(loaded[w])'
    BY <2>1, <1>b
  <2> QED BY <2>1, <2>2, <2>3, <1>b DEF EntriesBacked, Backed
<1>4. ASSUME NEW w \in Writer, \E ok \in BOOLEAN : Return(w, ok), UNCHANGED bytes
      PROVE  EntriesBacked'
  <2>1. \A x \in Writer : loaded'[x] \in {loaded[x], {}}
    BY <1>4, <1>a DEF Return
  <2> QED BY <2>1, <1>4, <1>b, <1>c DEF EntriesBacked
<1>5. CASE UNCHANGED <<bytes, loaded>>
  BY <1>5, <1>b DEF EntriesBacked
<1> QED
  BY <1>1, <1>2, <1>3, <1>4, <1>5 DEF Next, vars, WriteArticle, CreateFile, FillFile,
     LoadIndex, RenameTmp, Crash, OpenSnapshot, ReadFile

(* An index entry never names an article that is not on disk, for any      *)
(* number of writers, in any interleaving, through crashes and failed      *)
(* operations: "a concurrent reader chasing a new rev_id always finds the  *)
(* article files on disk" (writer.rs).                                     *)
THEOREM IndexedArticlesExist == Spec => []PublishedArticleExists
<1> DEFINE IInv == TypeInv /\ FilesBehind /\ EntriesBacked
<1>1. Init => IInv
  <2> SUFFICES ASSUME Init PROVE IInv
    OBVIOUS
  <2>1. FilesBehind /\ EntriesBacked
    BY DEF Init, FilesBehind, EntriesBacked, Backed, NoBytes
  <2> QED BY <2>1, TypeInit
<1>2. IInv /\ [Next]_vars => IInv'
  BY TypeNext, FilesBehindNext, EntriesBackedNext
<1>3. IInv => PublishedArticleExists
  <2> SUFFICES ASSUME IInv PROVE PublishedArticleExists
    OBVIOUS
  <2>1. index # NoInode => Backed(bytes[index].entries)
    BY DEF EntriesBacked, TypeInv, TypeOK
  <2> QED BY <2>1 DEF PublishedArticleExists, Indexed, Backed, Exists
<1> QED BY <1>1, <1>2, <1>3, PTL DEF Spec
-----------------------------------------------------------------------------
(* One writer at a time.  What the code hopes for and does not enforce:    *)
(* with two, TLC finds each of the following violated (the configurations  *)
(* SnapshotStoreMixedWrites, SnapshotStorePartialIndex and                 *)
(* SnapshotStoreLostUpdate).                                               *)
OneWriter == \A v, w \in Writer : v = w

Indexing == {"load", "tmp", "body", "rename"}

(* A call works on the newest version: it has written the files it is      *)
(* past, and nobody has put bytes into the one it has truncated.           *)
CallOK(w) ==
  /\ job[w].version = started[job[w].page]
  /\ \A n \in 1 .. 7 : n < at[w] \/ pc[w] \in Indexing
                         => file[job[w].page][WriteOrder[n]] = job[w].version
  /\ pc[w] = "fill" => file[job[w].page][WriteOrder[at[w]]] = Truncated
FilesHold == \A w \in Writer : pc[w] # "idle" => CallOK(w)

(* No file is newer than the newest call, and no file that can be read is  *)
(* older than a meta.json that can be.                                     *)
MetaOldest ==
  \A p \in Page : \A f \in File :
    /\ file[p][f] <= started[p]
    /\ file[p][f] \in Version => file[p]["meta"] <= file[p][f]

(* What a reader has still to read is not older than the meta.json it read. *)
Reads(r) ==
  /\ reading[r].open \/ reading[r].got # << >> => reading[r].page \in Page
  /\ reading[r].open => Len(reading[r].got) < Len(ReadOrder)
  /\ reading[r].got # << >> =>
       /\ \A n \in DOMAIN reading[r].got : reading[r].got[n] >= reading[r].got[1]
       /\ reading[r].got[1] <= started[reading[r].page]
       /\ \A f \in File : file[reading[r].page][f] \in Version
                            => reading[r].got[1] <= file[reading[r].page][f]
ReadersBehind == \A r \in Reader : Reads(r)

FilesInv == FilesHold /\ MetaOldest /\ FinishedWriteIsWhole /\ ReadersBehind

LEMMA FilesInit == Init => FilesInv
<1> SUFFICES ASSUME Init PROVE FilesInv
  OBVIOUS
<1>1. FilesHold /\ MetaOldest
  BY StoreAssumption DEF Init, FilesHold, MetaOldest, Absent, Version
<1>2. FinishedWriteIsWhole
  BY DEF Init, FinishedWriteIsWhole
<1>3. ReadersBehind
  BY DEF Init, ReadersBehind, Reads, Closed
<1> QED BY <1>1, <1>2, <1>3 DEF FilesInv

LEMMA FileIsNumber ==
  ASSUME TypeInv
  PROVE  \A p \in Page : started[p] \in Nat /\ \A f \in File : file[p][f] \in Int
<1>1. Version \cup {Absent, Truncated, Garbled} \subseteq Int /\ 0 .. MaxVersion \subseteq Nat
  BY StoreAssumption DEF Absent, Truncated, Garbled, Version
<1> HIDE DEF Version, Absent, Truncated, Garbled
<1> QED BY <1>1 DEF TypeInv, TypeOK

LEMMA WriteArticleKeeps ==
  ASSUME TypeInv, OneWriter, FilesInv, NEW w \in Writer, NEW q \in Page, WriteArticle(w, q)
  PROVE  FilesInv'
<1>1. /\ pc' = [pc EXCEPT ![w] = "create"] /\ pc[w] = "idle" /\ at[w] = 1
      /\ job' = [job EXCEPT ![w] = [page |-> q, version |-> started[q] + 1]]
      /\ started' = [started EXCEPT ![q] = @ + 1]
      /\ UNCHANGED <<file, at, reading, lastCall>>
  BY DEF WriteArticle, Goto, TypeInv, JobOK
<1>2. /\ pc'[w] = "create" /\ job'[w].page = q /\ job'[w].version = started[q] + 1
      /\ started'[q] = started[q] + 1 /\ \A p \in Page : started'[p] >= started[p]
      /\ \A p \in Page : started[p] \in Nat
  BY <1>1, StoreAssumption DEF TypeInv, TypeOK
<1>3. FilesHold'
  BY <1>1, <1>2 DEF OneWriter, FilesHold, CallOK, Indexing
<1>3a. \A p \in Page, f \in File : file[p][f] \in Int
  BY FileIsNumber
<1>4. MetaOldest'
  BY <1>1, <1>2, <1>3a DEF FilesInv, MetaOldest
<1>5. FinishedWriteIsWhole'
  BY <1>1, <1>2 DEF OneWriter, FilesInv, FinishedWriteIsWhole, Idle, Whole
<1>6. ReadersBehind'
  <2> SUFFICES ASSUME NEW r \in Reader PROVE Reads(r)'
    BY DEF ReadersBehind
  <2>1. reading[r].got \in Seq(Version) /\ Version \subseteq Nat
    BY StoreAssumption DEF TypeInv, TypeOK, Version
  <2>2. reading[r].got # << >> => reading[r].got[1] \in Nat
    BY <2>1, NonEmptySeq
  <2> QED BY <1>1, <1>2, <2>2 DEF FilesInv, ReadersBehind, Reads
<1> QED BY <1>3, <1>4, <1>5, <1>6 DEF FilesInv

(* One file of a call gets a new content, not older than what is there.    *)
LEMMA OneFileKeepsReaders ==
  ASSUME TypeInv, ReadersBehind, NEW p \in Page, NEW f \in File, NEW v,
         file' = [file EXCEPT ![p][f] = v], UNCHANGED <<reading, started>>,
         v \notin Version \/ v = started[p]
  PROVE  ReadersBehind'
<1> SUFFICES ASSUME NEW r \in Reader PROVE Reads(r)'
  BY DEF ReadersBehind
<1>1. \A q \in Page, g \in File :
        file'[q][g] = file[q][g] \/ (q = p /\ file'[q][g] = v)
  BY DEF TypeInv, TypeOK
<1> QED BY <1>1 DEF ReadersBehind, Reads

LEMMA CreateFileKeeps ==
  ASSUME TypeInv, OneWriter, FilesInv, NEW w \in Writer, CreateFile(w)
  PROVE  FilesInv'
<1> USE OrderIsComplete
<1> DEFINE p == job[w].page
           f == WriteOrder[at[w]]
<1>1. p \in Page /\ at[w] \in 1 .. 7 /\ f \in File /\ pc[w] = "create"
  BY DEF CreateFile, TypeInv, TypeOK, JobOK
<1>2. /\ file' = [file EXCEPT ![p][f] = Truncated]
      /\ pc' = [pc EXCEPT ![w] = "fill"]
      /\ UNCHANGED <<job, at, reading, started, lastCall>>
  BY DEF CreateFile, Goto
<1>3. \A q \in Page, g \in File :
        file'[q][g] = IF q = p /\ g = f THEN Truncated ELSE file[q][g]
  BY <1>1, <1>2 DEF TypeInv, TypeOK
<1>4. \A n \in 1 .. 7 : n < at[w] => WriteOrder[n] # f
  BY <1>1 DEF WriteOrder
<1>5. pc'[w] = "fill"
  BY <1>2 DEF TypeInv, TypeOK
<1>6. FilesHold'
  BY <1>1, <1>2, <1>3, <1>4, <1>5 DEF OneWriter, FilesInv, FilesHold, CallOK, Indexing
<1>7. \A q \in Page : started[q] \in Nat
  BY DEF TypeInv, TypeOK
<1>8. Truncated \notin Version /\ \A n \in Nat : Truncated <= n
  BY StoreAssumption DEF Truncated, Version
<1>9. MetaOldest'
  <2> SUFFICES ASSUME NEW q \in Page, NEW g \in File
               PROVE  /\ file'[q][g] <= started[q]
                      /\ file'[q][g] \in Version => file'[q]["meta"] <= file'[q][g]
    BY <1>2 DEF MetaOldest
  <2>1. "meta" \in File
    BY DEF File
  <2>2. \A v \in Version : Truncated <= v
    BY StoreAssumption DEF Truncated, Version
  <2> QED BY <1>3, <1>7, <1>8, <2>1, <2>2 DEF FilesInv, MetaOldest
<1>10. FinishedWriteIsWhole'
  BY <1>1, <1>2, <1>3, <1>5 DEF OneWriter, FilesInv, FinishedWriteIsWhole, Idle, Whole
<1>11. ReadersBehind'
  BY <1>1, <1>2, <1>8, OneFileKeepsReaders DEF FilesInv
<1> QED BY <1>6, <1>9, <1>10, <1>11 DEF FilesInv

LEMMA FillFileKeeps ==
  ASSUME TypeInv, OneWriter, FilesInv, NEW w \in Writer, FillFile(w)
  PROVE  FilesInv'
<1> USE OrderIsComplete
<1> DEFINE p == job[w].page
           f == WriteOrder[at[w]]
           v == job[w].version
<1>1. p \in Page /\ at[w] \in 1 .. 7 /\ f \in File /\ pc[w] = "fill" /\ v \in Version
  BY DEF FillFile, TypeInv, TypeOK, JobOK
<1>2. CallOK(w) /\ file[p][f] = Truncated /\ v = started[p]
  BY <1>1 DEF FilesInv, FilesHold, CallOK
<1>3. /\ file' = [file EXCEPT ![p][f] = v]
      /\ pc' = [pc EXCEPT ![w] = AfterFile(w)]
      /\ at' = [at EXCEPT ![w] = IF AfterFile(w) = "create" THEN @ + 1 ELSE @]
      /\ UNCHANGED <<job, reading, started, lastCall>>
  BY <1>2 DEF FillFile, Goto, Filled
<1>4. \A q \in Page, g \in File :
        file'[q][g] = IF q = p /\ g = f THEN v ELSE file[q][g]
  BY <1>1, <1>3 DEF TypeInv, TypeOK
<1>5. /\ pc'[w] = AfterFile(w)
      /\ at'[w] = IF AfterFile(w) = "create" THEN at[w] + 1 ELSE at[w]
  BY <1>3 DEF TypeInv, TypeOK
<1>6. \A n \in 1 .. 7 : n <= at[w] => file'[p][WriteOrder[n]] = v
  BY <1>1, <1>2, <1>4 DEF CallOK
<1>7. AfterFile(w) = IF at[w] < 7 THEN "create" ELSE "load"
  BY DEF AfterFile
<1>8. FilesHold'
  <2>1. CallOK(w)'
    <3>1. job'[w] = job[w] /\ started' = started
      BY <1>3
    <3>2. \A n \in 1 .. 7 : n < at'[w] \/ pc'[w] \in Indexing => n <= at[w]
      BY <1>1, <1>5, <1>7 DEF Indexing
    <3>3. pc'[w] # "fill"
      BY <1>5, <1>7
    <3> QED BY <1>2, <1>6, <3>1, <3>2, <3>3 DEF CallOK
  <2> QED BY <2>1 DEF OneWriter, FilesHold
<1>9. \A q \in Page, g \in File : file[q][g] \in Int /\ started[q] \in Nat
  BY FileIsNumber
<1>10. MetaOldest'
  <2> SUFFICES ASSUME NEW q \in Page, NEW g \in File
               PROVE  /\ file'[q][g] <= started[q]
                      /\ file'[q][g] \in Version => file'[q]["meta"] <= file'[q][g]
    BY <1>3 DEF MetaOldest
  <2>1. "meta" \in File /\ WriteOrder[7] = "meta" /\ \A n \in 1 .. 6 : WriteOrder[n] # "meta"
    BY DEF File, WriteOrder
  <2>2. CASE q # p
    BY <1>4, <2>1, <2>2 DEF FilesInv, MetaOldest
  <2>3. CASE q = p /\ f # "meta"
    BY <1>2, <1>4, <1>9, <2>1, <2>3 DEF FilesInv, MetaOldest
  <2>4. CASE q = p /\ f = "meta"
    <3>1. at[w] = 7
      BY <1>1, <2>1, <2>4
    <3>2. \A h \in File : file'[p][h] = v
      BY <1>6, <3>1
    <3> QED BY <1>2, <1>9, <2>1, <2>4, <3>2
  <2> QED BY <2>2, <2>3, <2>4
<1>11. FinishedWriteIsWhole'
  BY <1>1, <1>3, <1>4, <1>5, <1>7 DEF OneWriter, FilesInv, FinishedWriteIsWhole, Idle, Whole
<1>12. ReadersBehind'
  BY <1>1, <1>2, <1>3, OneFileKeepsReaders DEF FilesInv
<1> QED BY <1>8, <1>10, <1>11, <1>12 DEF FilesInv

(* The end of a call: one that ends with Ok has written every file.        *)
LEMMA ReturnKeepsFiles ==
  ASSUME TypeInv, OneWriter, FilesInv, NEW w \in Writer, NEW ok \in BOOLEAN,
         Return(w, ok), pc[w] # "idle", ok => pc[w] \in Indexing,
         UNCHANGED <<file, reading, started>>
  PROVE  FilesInv'
<1> USE OrderIsComplete
<1> DEFINE p == job[w].page
           v == job[w].version
<1>1. p \in Page
  BY DEF TypeInv, JobOK
<1>2. /\ pc' = [pc EXCEPT ![w] = "idle"]
      /\ lastCall' = [lastCall EXCEPT ![p] = [version |-> v, ok |-> ok]]
  BY DEF Return, Goto
<1>3. pc'[w] = "idle" /\ lastCall'[p].version = v /\ lastCall'[p].ok = ok
  BY <1>1, <1>2 DEF TypeInv, TypeOK
<1>4. \A q \in Page : q # p => lastCall'[q] = lastCall[q]
  BY <1>2 DEF TypeInv, TypeOK
<1>5. ok => Whole(p, v)
  BY DEF FilesInv, FilesHold, CallOK, Whole
<1>6. FinishedWriteIsWhole'
  <2> SUFFICES ASSUME NEW q \in Page, Idle(q)', lastCall'[q].ok, lastCall'[q].version > 0
               PROVE  Whole(q, lastCall[q].version)'
    BY DEF FinishedWriteIsWhole
  <2>1. CASE q = p
    BY <1>3, <1>5, <2>1 DEF Whole
  <2>2. CASE q # p
    <3>1. Idle(q)
      BY <2>2 DEF OneWriter, Idle
    <3> QED BY <1>4, <2>2, <3>1 DEF FilesInv, FinishedWriteIsWhole, Whole
  <2> QED BY <2>1, <2>2
<1>7. FilesHold'
  BY <1>3 DEF OneWriter, FilesHold
<1> QED BY <1>6, <1>7 DEF FilesInv, MetaOldest, ReadersBehind, Reads

(* From the files on, a call that has not ended has written all of them.   *)
LEMMA IndexStepKeepsFiles ==
  ASSUME TypeInv, OneWriter, FilesInv, NEW w \in Writer, pc[w] \in Indexing,
         NEW step \in Indexing, Goto(w, step),
         UNCHANGED <<file, job, at, reading, started, lastCall>>
  PROVE  FilesInv'
<1>1. pc'[w] = step /\ step # "fill" /\ step # "idle" /\ pc[w] # "idle"
  BY DEF Goto, TypeInv, TypeOK, Indexing
<1>2. FilesHold'
  BY <1>1 DEF OneWriter, FilesInv, FilesHold, CallOK
<1>3. FinishedWriteIsWhole'
  BY <1>1 DEF OneWriter, FilesInv, FinishedWriteIsWhole, Idle, Whole
<1> QED BY <1>2, <1>3 DEF FilesInv, MetaOldest, ReadersBehind, Reads

LEMMA ReaderKeepsFiles ==
  ASSUME TypeInv, FilesInv, NEW r \in Reader,
         ReadFile(r) \/ \E p \in Page : OpenSnapshot(r, p)
  PROVE  FilesInv'
<1> DEFINE got == reading[r].got
           q == reading[r].page
           n == Len(got) + 1
           v == file[q][ReadOrder[n]]
<1>1. UNCHANGED <<file, pc, job, at, started, lastCall>>
  BY DEF ReadFile, OpenSnapshot
<1>2. FilesHold' /\ MetaOldest' /\ FinishedWriteIsWhole'
  BY <1>1 DEF FilesInv, FilesHold, CallOK, MetaOldest, FinishedWriteIsWhole, Idle, Whole
<1>3. ASSUME NEW new, reading' = [reading EXCEPT ![r] = new],
             /\ new.open \/ new.got # << >> => new.page \in Page
             /\ new.open => Len(new.got) < Len(ReadOrder)
             /\ new.got # << >> =>
                  /\ \A i \in DOMAIN new.got : new.got[i] >= new.got[1]
                  /\ new.got[1] <= started[new.page]
                  /\ \A f \in File : file[new.page][f] \in Version
                                       => new.got[1] <= file[new.page][f]
      PROVE  ReadersBehind'
  <2> SUFFICES ASSUME NEW s \in Reader PROVE Reads(s)'
    BY DEF ReadersBehind
  <2>1. reading'[s] = IF s = r THEN new ELSE reading[s]
    BY <1>3 DEF TypeInv, TypeOK
  <2> QED BY <1>1, <1>3, <2>1 DEF FilesInv, ReadersBehind, Reads
<1>4. ASSUME NEW p \in Page, OpenSnapshot(r, p) PROVE ReadersBehind'
  <2> DEFINE new == [page |-> p, open |-> TRUE, got |-> << >>]
  <2>1. reading' = [reading EXCEPT ![r] = new] /\ new.page = p /\ new.got = << >>
    BY <1>4 DEF OpenSnapshot
  <2>2. Len(new.got) < Len(ReadOrder)
    BY <2>1 DEF ReadOrder
  <2> HIDE DEF new
  <2> QED BY <1>3, <2>1, <2>2
<1>5. CASE ReadFile(r) /\ v \notin Version
  <2>1. reading' = [reading EXCEPT ![r] = Closed] /\ ~ Closed.open /\ Closed.got = << >>
    BY <1>5 DEF ReadFile, Closed
  <2> QED BY <1>2, <1>3, <2>1 DEF FilesInv
<1>6. CASE ReadFile(r) /\ v \in Version
  <2> DEFINE h == Append(got, v)
             new == [page |-> q, open |-> n < Len(ReadOrder), got |-> h]
  <2>1. reading' = [reading EXCEPT ![r] = new] /\ reading[r].open
    BY <1>6 DEF ReadFile
  <2>2. q \in Page /\ got \in Seq(Version) /\ Version \subseteq Nat
        /\ n - 1 < Len(ReadOrder)
    BY <2>1, StoreAssumption DEF FilesInv, ReadersBehind, Reads, TypeInv, TypeOK, Version
  <2>3. /\ Len(got) \in Nat /\ DOMAIN got = 1 .. Len(got)
        /\ Len(h) = n /\ DOMAIN h = 1 .. n /\ h[n] = v
        /\ \A i \in 1 .. Len(got) : h[i] = got[i] /\ got[i] \in Version
    <3> DEFINE g == got
    <3> HIDE DEF g
    <3>1. g \in Seq(Version)
      BY <2>2 DEF g
    <3> QED BY <1>6, <3>1, AppendProperties, LenProperties DEF g
  <2>4. new.page = q /\ new.got = h /\ (new.open => n < Len(ReadOrder))
    OBVIOUS
  <2>5. v \in Nat /\ n \in Nat /\ n - 1 = Len(got) /\ Len(ReadOrder) = 7 /\ n \in 1 .. 7
    <3>1. Len(ReadOrder) = 7
      BY DEF ReadOrder
    <3>2. v \in Nat
      BY <1>6, <2>2, Zenon
    <3>3. Len(got) \in Nat
      BY <2>3
    <3>4. n - 1 < 7
      BY <2>2, <3>1
    <3>5. \A l \in Nat : l + 1 \in Nat /\ (l + 1) - 1 = l /\ (l < 7 => l + 1 \in 1 .. 7)
      OBVIOUS
    <3>6. n \in Nat /\ n - 1 = Len(got) /\ (Len(got) < 7 => n \in 1 .. 7)
      BY <3>3, <3>5
    <3> QED BY <3>1, <3>2, <3>4, <3>6
  <2>6. ReadOrder[n] \in File /\ (n = 1 => ReadOrder[n] = "meta")
    BY <2>5 DEF ReadOrder, File
  <2> HIDE DEF h, new
  <2>7. /\ \A i \in 1 .. n : h[i] >= h[1]
        /\ h[1] <= started[q]
        /\ \A f \in File : file[q][f] \in Version => h[1] <= file[q][f]
    <3>1. CASE n = 1
      <4>1. h[1] = v /\ v = file[q]["meta"] /\ \A i \in 1 .. n : i = 1
        BY <2>3, <2>5, <2>6, <3>1
      <4> QED BY <1>6, <2>2, <2>5, <4>1 DEF FilesInv, MetaOldest, File
    <3>2. CASE n # 1
      <4>1. got # << >> /\ h[1] = got[1] /\ 1 \in DOMAIN got
        BY <2>3, <2>5, <3>2
      <4>2. /\ \A i \in DOMAIN got : got[i] >= got[1]
            /\ got[1] <= started[q]
            /\ \A f \in File : file[q][f] \in Version => got[1] <= file[q][f]
        BY <4>1 DEF FilesInv, ReadersBehind, Reads
      <4>3. got[1] <= v /\ got[1] \in Nat
        BY <1>6, <2>2, <2>3, <2>6, <4>1, <4>2
      <4>4. \A i \in 1 .. n : i = n \/ i \in DOMAIN got
        BY <2>3, <2>5
      <4>5. \A i \in 1 .. n : h[i] >= h[1]
        BY <2>3, <2>5, <4>1, <4>2, <4>3, <4>4
      <4> QED BY <4>1, <4>2, <4>5
    <3> QED BY <3>1, <3>2
  <2>8. ReadersBehind'
    <3>1. Len(new.got) = n /\ DOMAIN new.got = 1 .. n /\ new.page \in Page
      BY <2>2, <2>3, <2>4
    <3> QED BY <1>3, <2>1, <2>4, <2>7, <3>1
  <2> QED BY <1>2, <2>8 DEF FilesInv
<1> QED BY <1>2, <1>4, <1>5, <1>6 DEF FilesInv

LEMMA FilesNext ==
  ASSUME TypeInv, OneWriter, FilesInv, [Next]_vars
  PROVE  FilesInv'
<1>1. ASSUME NEW w \in Writer, LoadIndex(w) PROVE FilesInv'
  BY <1>1, ReturnKeepsFiles, IndexStepKeepsFiles DEF LoadIndex, Indexing
<1>2. ASSUME NEW w \in Writer, CreateTmp(w) \/ WriteBody(w) PROVE FilesInv'
  BY <1>2, IndexStepKeepsFiles DEF CreateTmp, WriteBody, Indexing
<1>3. ASSUME NEW w \in Writer, RenameTmp(w) \/ Crash(w) PROVE FilesInv'
  BY <1>3, ReturnKeepsFiles DEF RenameTmp, Crash, Indexing
<1>4. CASE UNCHANGED vars
  BY <1>4 DEF vars, FilesInv, FilesHold, CallOK, MetaOldest, FinishedWriteIsWhole,
     Idle, Whole, ReadersBehind, Reads
<1> QED BY <1>1, <1>2, <1>3, <1>4, WriteArticleKeeps, CreateFileKeeps, FillFileKeeps,
     ReaderKeepsFiles DEF Next

(* A write that returned Ok leaves one version of the article on disk,     *)
(* whatever the calls that failed before it left there.                    *)
THEOREM FinishedIsWhole == OneWriter => (Spec => []FinishedWriteIsWhole)
<1> SUFFICES ASSUME OneWriter PROVE Spec => []FinishedWriteIsWhole
  OBVIOUS
<1>1. TypeInv /\ FilesInv /\ [Next]_vars => FilesInv'
  BY FilesNext
<1>2. FilesInv => FinishedWriteIsWhole
  BY DEF FilesInv
<1> QED BY <1>1, <1>2, TypeInit, TypeNext, FilesInit, PTL DEF Spec

(* A reader never gets a meta.json newer than the tables it describes,     *)
(* even of an article that is being written or that a crash left half      *)
(* written: the writer writes it last and the reader reads it first.       *)
THEOREM MetaIsNotAhead == OneWriter => (Spec => []MetaNotAhead)
<1> SUFFICES ASSUME OneWriter PROVE Spec => []MetaNotAhead
  OBVIOUS
<1>1. TypeInv /\ FilesInv /\ [Next]_vars => FilesInv'
  BY FilesNext
<1>2. TypeInv /\ FilesInv => MetaNotAhead
  BY DEF FilesInv, ReadersBehind, Reads, MetaNotAhead, TypeInv, TypeOK
<1> QED BY <1>1, <1>2, TypeInit, TypeNext, FilesInit, PTL DEF Spec
-----------------------------------------------------------------------------
(* The read-modify-write of the index.                                     *)

(* The call that saves the index holds what the index had, with its own    *)
(* article replaced, and its temporary file is the one in the directory.   *)
Saving(w) ==
  /\ pc[w] \in {"tmp", "body", "rename"} =>
       loaded[w] = replace_article(Indexed, job[w].page, job[w].version)
  /\ pc[w] \in {"body", "rename"} => tmp # NoInode /\ fd[w] = tmp
  /\ pc[w] = "body" => bytes[tmp] = NoBytes
  /\ pc[w] = "rename" => bytes[tmp] = [entries |-> loaded[w], ok |-> TRUE]

AckedInIndex ==
  \A p \in Page : lastCall[p].ok => Revisions(p, lastCall[p].version) \subseteq Indexed

SidecarInv ==
  /\ \A i \in Inode : IsFiniteSet(bytes[i].entries)
  /\ \A w \in Writer : IsFiniteSet(loaded[w])
  /\ tmp # NoInode => tmp # index
  /\ NoPartialIndex
  /\ \A w \in Writer : Saving(w)
  /\ AckedInIndex

LEMMA RevisionsFinite ==
  ASSUME NEW p, NEW v \in Nat
  PROVE  IsFiniteSet(Revisions(p, v))
<1>1. IsFiniteSet(1 .. v)
  BY FS_Interval
<1>2. IsFiniteSet({p})
  BY FS_Singleton
<1> QED BY <1>1, <1>2, FS_Product DEF Revisions

LEMMA ReplaceFinite ==
  ASSUME NEW E, IsFiniteSet(E), NEW p, NEW v \in Nat
  PROVE  IsFiniteSet(replace_article(E, p, v))
<1>1. IsFiniteSet({ e \in E : e[1] # p })
  BY FS_Subset
<1> QED BY <1>1, RevisionsFinite, FS_Union DEF replace_article

LEMMA SidecarInit == Init => SidecarInv
<1> SUFFICES ASSUME Init PROVE SidecarInv
  OBVIOUS
<1>1. \A p \in Page : Revisions(p, lastCall[p].version) = {}
  BY DEF Init, Revisions
<1> QED BY <1>1, FS_EmptySet DEF Init, SidecarInv, NoPartialIndex, Saving, AckedInIndex, NoBytes

(* What the index holds is of use to the steps that leave it alone. *)
LEMMA IndexStays ==
  ASSUME UNCHANGED index, index # NoInode => bytes'[index] = bytes[index]
  PROVE  Indexed' = Indexed /\ (NoPartialIndex => NoPartialIndex')
BY DEF Indexed, NoPartialIndex

LEMMA ReturnKeepsSidecar ==
  ASSUME TypeInv, OneWriter, SidecarInv, NEW w \in Writer, pc[w] # "idle",
         Return(w, FALSE), UNCHANGED <<index, tmp, bytes>>
  PROVE  SidecarInv'
<1>1. /\ pc'[w] = "idle" /\ loaded'[w] = {}
      /\ lastCall' = [lastCall EXCEPT ![job[w].page] = [version |-> job[w].version, ok |-> FALSE]]
  BY DEF Return, Goto, TypeInv, TypeOK
<1>2. Indexed' = Indexed /\ NoPartialIndex'
  BY IndexStays DEF SidecarInv
<1>3. \A x \in Writer : x = w
  BY DEF OneWriter
<1>4. AckedInIndex'
  BY <1>1, <1>2 DEF SidecarInv, AckedInIndex, TypeInv, TypeOK
<1>5. \A x \in Writer : Saving(x)' /\ IsFiniteSet(loaded[x])'
  BY <1>1, <1>3, FS_EmptySet DEF Saving
<1> QED BY <1>2, <1>4, <1>5 DEF SidecarInv

LEMMA LoadKeepsSidecar ==
  ASSUME TypeInv, OneWriter, SidecarInv, NEW w \in Writer, LoadIndex(w)
  PROVE  SidecarInv'
<1> DEFINE new == replace_article(Indexed, job[w].page, job[w].version)
<1>1. pc[w] = "load" /\ UNCHANGED <<index, tmp, bytes>>
  BY DEF LoadIndex
<1>2. CASE Return(w, FALSE)
  BY <1>1, <1>2, ReturnKeepsSidecar
<1>3. CASE ~ Return(w, FALSE)
  <2>1. /\ loaded' = [loaded EXCEPT ![w] = new] /\ pc' = [pc EXCEPT ![w] = "tmp"]
        /\ UNCHANGED <<job, at, fd, lastCall>>
    BY <1>3 DEF LoadIndex, Goto, Indexed
  <2>2. Indexed' = Indexed /\ NoPartialIndex'
    BY <1>1, IndexStays DEF SidecarInv
  <2>3. IsFiniteSet(new)
    <3>1. IsFiniteSet(Indexed)
      BY FS_EmptySet DEF Indexed, SidecarInv, TypeInv, TypeOK
    <3>2. job[w].version \in Nat
      BY <1>1, StoreAssumption DEF TypeInv, JobOK, Version
    <3> QED BY <3>1, <3>2, ReplaceFinite
  <2>4. pc'[w] = "tmp" /\ loaded'[w] = new /\ \A x \in Writer : x = w
    BY <2>1 DEF TypeInv, TypeOK, OneWriter
  <2> HIDE DEF new
  <2>5. \A x \in Writer : Saving(x)' /\ IsFiniteSet(loaded[x])'
    BY <2>1, <2>2, <2>3, <2>4 DEF Saving, new
  <2> QED BY <1>1, <2>1, <2>2, <2>5 DEF SidecarInv, AckedInIndex
<1> QED BY <1>2, <1>3

LEMMA CreateTmpKeepsSidecar ==
  ASSUME TypeInv, OneWriter, SidecarInv, NEW w \in Writer, CreateTmp(w)
  PROVE  SidecarInv'
<1> DEFINE t == TemporaryFile
<1>1. /\ tmp' = t /\ fd' = [fd EXCEPT ![w] = t] /\ pc' = [pc EXCEPT ![w] = "body"]
      /\ bytes' = [bytes EXCEPT ![t] = NoBytes] /\ pc[w] = "tmp"
      /\ UNCHANGED <<index, job, at, loaded, lastCall>>
  BY DEF CreateTmp, Goto
<1>2. t \in Inode /\ t # NoInode
  BY TemporaryIsInode DEF TypeInv, Inode, NoInode
<1>3. t # index
  <2>1. CASE tmp # NoInode
    BY <2>1 DEF TemporaryFile, SidecarInv
  <2>2. CASE tmp = NoInode
    BY <2>2, FreshIsFree DEF TemporaryFile, TypeInv, InUse
  <2> QED BY <2>1, <2>2
<1> HIDE DEF t
<1>4. /\ pc'[w] = "body" /\ fd'[w] = t /\ \A x \in Writer : x = w
      /\ \A i \in Inode : bytes'[i] = IF i = t THEN NoBytes ELSE bytes[i]
  BY <1>1 DEF TypeInv, TypeOK, OneWriter
<1>5. Indexed' = Indexed /\ NoPartialIndex'
  <2>1. index # NoInode => bytes'[index] = bytes[index]
    BY <1>3, <1>4 DEF TypeInv, TypeOK
  <2> QED BY <1>1, <2>1, IndexStays DEF SidecarInv
<1>6. \A x \in Writer : Saving(x)'
  BY <1>1, <1>2, <1>4, <1>5 DEF Saving, SidecarInv
<1>7. \A i \in Inode : IsFiniteSet(bytes'[i].entries)
  BY <1>4, FS_EmptySet DEF SidecarInv, NoBytes
<1> QED BY <1>1, <1>3, <1>5, <1>6, <1>7 DEF SidecarInv, AckedInIndex

LEMMA WriteBodyKeepsSidecar ==
  ASSUME TypeInv, OneWriter, SidecarInv, NEW w \in Writer, WriteBody(w)
  PROVE  SidecarInv'
<1> DEFINE new == [entries |-> loaded[w], ok |-> TRUE]
<1>1. pc[w] = "body" /\ tmp # NoInode /\ fd[w] = tmp /\ tmp # index /\ tmp \in Inode
      /\ bytes[tmp] = NoBytes
  BY DEF WriteBody, SidecarInv, Saving, TypeInv, TypeOK
<1>2. Cardinality(loaded[w]) >= Cardinality(bytes[tmp].entries)
  BY <1>1, FS_EmptySet, FS_CardinalityType DEF SidecarInv, NoBytes
<1>3. /\ bytes' = [bytes EXCEPT ![tmp] = new] /\ pc' = [pc EXCEPT ![w] = "rename"]
      /\ UNCHANGED <<index, tmp, job, at, fd, loaded, lastCall>>
  BY <1>1, <1>2 DEF WriteBody, Goto
<1>4. /\ pc'[w] = "rename" /\ \A x \in Writer : x = w
      /\ \A i \in Inode : bytes'[i] = IF i = tmp THEN new ELSE bytes[i]
  BY <1>3 DEF TypeInv, TypeOK, OneWriter
<1>5. Indexed' = Indexed /\ NoPartialIndex'
  <2>1. index # NoInode => bytes'[index] = bytes[index]
    BY <1>1, <1>4 DEF TypeInv, TypeOK
  <2> QED BY <1>3, <2>1, IndexStays DEF SidecarInv
<1>6. \A x \in Writer : Saving(x)'
  BY <1>1, <1>3, <1>4, <1>5 DEF Saving, SidecarInv
<1>7. \A i \in Inode : IsFiniteSet(bytes'[i].entries)
  BY <1>4 DEF SidecarInv
<1> QED BY <1>1, <1>3, <1>5, <1>6, <1>7 DEF SidecarInv, AckedInIndex

LEMMA RenameKeepsSidecar ==
  ASSUME TypeInv, OneWriter, SidecarInv, NEW w \in Writer, RenameTmp(w)
  PROVE  SidecarInv'
<1> DEFINE p == job[w].page
           v == job[w].version
<1>1. /\ tmp # NoInode /\ tmp \in Inode /\ pc[w] = "rename" /\ p \in Page
      /\ bytes[tmp] = [entries |-> loaded[w], ok |-> TRUE]
      /\ loaded[w] = replace_article(Indexed, p, v)
  BY DEF RenameTmp, SidecarInv, Saving, TypeInv, TypeOK, JobOK
<1>2. /\ index' = tmp /\ tmp' = NoInode /\ Return(w, TRUE) /\ UNCHANGED bytes
  BY <1>1 DEF RenameTmp
<1>3. /\ pc'[w] = "idle" /\ loaded'[w] = {} /\ \A x \in Writer : x = w
      /\ lastCall' = [lastCall EXCEPT ![p] = [version |-> v, ok |-> TRUE]]
  BY <1>2 DEF Return, Goto, TypeInv, TypeOK, OneWriter
<1>4. Indexed' = replace_article(Indexed, p, v) /\ NoPartialIndex'
  BY <1>1, <1>2 DEF Indexed, NoPartialIndex
<1>5. AckedInIndex'
  <2> SUFFICES ASSUME NEW q \in Page, lastCall'[q].ok
               PROVE  Revisions(q, lastCall'[q].version) \subseteq Indexed'
    BY DEF AckedInIndex
  <2>1. CASE q = p
    BY <1>3, <1>4, <2>1 DEF replace_article, TypeInv, TypeOK
  <2>2. CASE q # p
    <3>1. lastCall'[q] = lastCall[q]
      BY <1>3, <2>2 DEF TypeInv, TypeOK
    <3>2. Revisions(q, lastCall[q].version) \subseteq Indexed
      BY <3>1 DEF SidecarInv, AckedInIndex
    <3>3. \A e \in Revisions(q, lastCall[q].version) : e[1] # p
      BY <2>2 DEF Revisions
    <3> QED BY <1>4, <3>1, <3>2, <3>3 DEF replace_article
  <2> QED BY <2>1, <2>2
<1>6. \A x \in Writer : Saving(x)' /\ IsFiniteSet(loaded[x])'
  BY <1>3, FS_EmptySet DEF Saving
<1> QED BY <1>2, <1>4, <1>5, <1>6 DEF SidecarInv

LEMMA SidecarNext ==
  ASSUME TypeInv, OneWriter, SidecarInv, [Next]_vars
  PROVE  SidecarInv'
<1>1. ASSUME NEW w \in Writer, UNCHANGED <<index, tmp, bytes, loaded, fd, lastCall>>,
             \A x \in Writer : pc'[x] \notin {"tmp", "body", "rename"}
      PROVE  SidecarInv'
  BY <1>1 DEF SidecarInv, Saving, AckedInIndex, NoPartialIndex, Indexed
<1>2. ASSUME NEW w \in Writer, NEW p \in Page, WriteArticle(w, p) PROVE SidecarInv'
  <2>1. \A x \in Writer : pc'[x] = "create"
    BY <1>2 DEF WriteArticle, Goto, OneWriter, TypeInv, TypeOK
  <2> QED BY <1>1, <1>2, <2>1 DEF WriteArticle
<1>3. ASSUME NEW w \in Writer, CreateFile(w) PROVE SidecarInv'
  <2>1. \A x \in Writer : pc'[x] = "fill"
    BY <1>3 DEF CreateFile, Goto, OneWriter, TypeInv, TypeOK
  <2> QED BY <1>1, <1>3, <2>1 DEF CreateFile
<1>4. ASSUME NEW w \in Writer, FillFile(w) PROVE SidecarInv'
  <2>1. \A x \in Writer : pc'[x] \in {"create", "load"}
    BY <1>4 DEF FillFile, Goto, AfterFile, OneWriter, TypeInv, TypeOK
  <2> QED BY <1>1, <1>4, <2>1 DEF FillFile
<1>5. ASSUME NEW w \in Writer, Crash(w) PROVE SidecarInv'
  BY <1>5, ReturnKeepsSidecar DEF Crash
<1>6. CASE UNCHANGED <<index, tmp, bytes, writer, lastCall>>
  BY <1>6 DEF SidecarInv, Saving, AckedInIndex, NoPartialIndex, Indexed
<1> QED BY <1>2, <1>3, <1>4, <1>5, <1>6, LoadKeepsSidecar, CreateTmpKeepsSidecar,
     WriteBodyKeepsSidecar, RenameKeepsSidecar DEF Next, vars, OpenSnapshot, ReadFile

(* With one writer the rename never puts a partial index in place of a     *)
(* good one, although a temporary file a crash left behind is taken over.  *)
THEOREM IndexIsWhole == OneWriter => (Spec => []NoPartialIndex)
<1> SUFFICES ASSUME OneWriter PROVE Spec => []NoPartialIndex
  OBVIOUS
<1>1. TypeInv /\ SidecarInv /\ [Next]_vars => SidecarInv'
  BY SidecarNext
<1>2. SidecarInv => NoPartialIndex
  BY DEF SidecarInv
<1> QED BY <1>1, <1>2, TypeInit, TypeNext, SidecarInit, PTL DEF Spec

(* With one writer the index has the revisions of every write that         *)
(* returned Ok, however many articles and crashed calls came since.        *)
THEOREM AckedAreIndexed == OneWriter => (Spec => []AckedRevisionsIndexed)
<1> SUFFICES ASSUME OneWriter PROVE Spec => []AckedRevisionsIndexed
  OBVIOUS
<1>1. TypeInv /\ SidecarInv /\ [Next]_vars => SidecarInv'
  BY SidecarNext
<1>2. SidecarInv => AckedRevisionsIndexed
  BY DEF SidecarInv, AckedInIndex, AckedRevisionsIndexed
<1> QED BY <1>1, <1>2, TypeInit, TypeNext, SidecarInit, PTL DEF Spec

-----------------------------------------------------------------------------
(* The rebuild of the index: the groups of variables it adds. *)
USE DEF rebuildVars

(* The process of the tool has no article of its own while it saves, so    *)
(* JobOK is for the times when the services run.                           *)
RebuildType ==
  /\ TypeOK
  /\ rebuild \in {"off", "walk", "save"}
  /\ walk \subseteq Page
  /\ \A w \in Writer : pc[w] = "idle" => at[w] = 1
  /\ rebuild = "off" => JobOK

(* While the tool works nobody else does. *)
Alone ==
  /\ rebuild # "off" => \A w \in Writer \ {Rebuilder} : pc[w] = "idle"
  /\ rebuild # "save" => pc[Rebuilder] = "idle"
  /\ rebuild = "save" => pc[Rebuilder] \in {"tmp", "body", "rename"}

(* What the tool takes from the directories S, and that it can read them.  *)
Scanned(S) == { e \in Entry : e[1] \in S /\ IsArticle(e[1]) /\ e[2] <= file[e[1]]["revisions"] }
Readable(S) ==
  \A p \in S : IsArticle(p) => file[p]["meta"] \in Version /\ file[p]["revisions"] \in Version

Walked ==
  /\ IsFiniteSet(loaded[Rebuilder])
  /\ rebuild = "off"  => loaded[Rebuilder] = {}
  /\ rebuild # "off" => loaded[Rebuilder] = Scanned(Page \ walk) /\ Readable(Page \ walk)
  /\ rebuild = "save" => walk = {}

(* The temporary file holds nothing, then what was scanned.                *)
Saved ==
  rebuild = "save" =>
    /\ pc[Rebuilder] \in {"body", "rename"} => tmp # NoInode /\ fd[Rebuilder] = tmp
    /\ pc[Rebuilder] = "body" => bytes[tmp] = NoBytes
    /\ pc[Rebuilder] = "rename" => bytes[tmp] = [entries |-> loaded[Rebuilder], ok |-> TRUE]

RebuildInv == RebuildType /\ Alone /\ Walked /\ Saved /\ (restored => rebuild = "off") /\ RebuildRestores

(* What is scanned of all directories is what a reader can open.           *)
LEMMA ScannedIsOnDisk ==
  ASSUME TypeOK, Readable(Page)
  PROVE  Scanned(Page) = { e \in OnDisk : file[e[1]]["meta"] # Absent }
<1>1. ASSUME NEW e \in Scanned(Page) PROVE e \in OnDisk /\ file[e[1]]["meta"] # Absent
  <2>1. /\ e \in Page \X Version /\ e[1] \in Page /\ IsArticle(e[1])
        /\ e[2] <= file[e[1]]["revisions"]
    BY DEF Scanned, Entry
  <2>2. file[e[1]]["revisions"] \in Version
    BY <2>1 DEF Readable
  <2>3. e \in Revisions(e[1], file[e[1]]["revisions"])
    BY <2>1, <2>2, StoreAssumption DEF Revisions, Version
  <2> QED BY <2>1, <2>2, <2>3 DEF OnDisk, IsArticle
<1>2. ASSUME NEW e \in OnDisk, file[e[1]]["meta"] # Absent PROVE e \in Scanned(Page)
  <2>1. PICK p \in Page : /\ file[p]["revisions"] \in Version
                          /\ e \in Revisions(p, file[p]["revisions"])
    BY DEF OnDisk
  <2>2. e[1] = p /\ e \in Page \X Version /\ e[2] <= file[p]["revisions"]
    BY <2>1, StoreAssumption DEF Revisions, Version
  <2> QED BY <1>2, <2>2 DEF Scanned, Entry, IsArticle
<1> QED BY <1>1, <1>2

LEMMA RebuildInitOK == RebuildInit => RebuildInv
<1> SUFFICES ASSUME RebuildInit PROVE RebuildInv
  OBVIOUS
<1>1. TypeInv
  BY TypeInit DEF RebuildInit
<1> QED BY <1>1, RebuildAssumption, FS_EmptySet
     DEF RebuildInit, Init, TypeInv, RebuildInv, RebuildType, JobOK, Alone, Walked,
         Saved, RebuildRestores

(* The services: a step of SnapshotStore in which the tool has no part.    *)
LEMMA ServicesKeep == ASSUME RebuildInv, Services PROVE RebuildInv'
<1> USE RebuildAssumption
<1>1. /\ rebuild = "off" /\ rebuild' = "off" /\ walk' = walk /\ restored' = FALSE
      /\ TypeInv
  BY DEF Services, RebuildInv, RebuildType, TypeInv
<1>2. [Next]_vars
  BY DEF Services, Next
<1>3. TypeInv'
  BY <1>1, <1>2, TypeNext
<1>4. pc'[Rebuilder] = pc[Rebuilder] /\ loaded'[Rebuilder] = loaded[Rebuilder]
  <2>1. ASSUME NEW w \in Writer \ {Rebuilder},
               \/ \E p \in Page : WriteArticle(w, p)
               \/ CreateFile(w) \/ FillFile(w) \/ LoadIndex(w)
               \/ CreateTmp(w) \/ WriteBody(w) \/ RenameTmp(w) \/ Crash(w)
        PROVE  /\ \E step : pc' = [pc EXCEPT ![w] = step]
               /\ loaded' = loaded \/ \E E : loaded' = [loaded EXCEPT ![w] = E]
    BY <2>1 DEF WriteArticle, CreateFile, FillFile, LoadIndex, CreateTmp, WriteBody,
       RenameTmp, Crash, Return, Goto
  <2>2. ASSUME NEW w \in Writer \ {Rebuilder},
               /\ \E step : pc' = [pc EXCEPT ![w] = step]
               /\ loaded' = loaded \/ \E E : loaded' = [loaded EXCEPT ![w] = E]
        PROVE  pc'[Rebuilder] = pc[Rebuilder] /\ loaded'[Rebuilder] = loaded[Rebuilder]
    BY <1>1, <2>2 DEF TypeInv, TypeOK
  <2>3. ASSUME NEW r \in Reader, ReadFile(r) \/ \E p \in Page : OpenSnapshot(r, p)
        PROVE  pc'[Rebuilder] = pc[Rebuilder] /\ loaded'[Rebuilder] = loaded[Rebuilder]
    BY <2>3 DEF ReadFile, OpenSnapshot
  <2> QED BY <2>1, <2>2, <2>3 DEF Services
<1> QED BY <1>1, <1>3, <1>4
     DEF RebuildInv, RebuildType, TypeInv, JobOK, Alone, Walked, Saved, RebuildRestores

LEMMA LoseKeeps == ASSUME RebuildInv, LoseIndex PROVE RebuildInv'
<1>1. TypeOK /\ index \in Inode /\ bytes[index] \in [entries : SUBSET Entry, ok : BOOLEAN]
  BY DEF LoseIndex, RebuildInv, RebuildType, TypeOK
<1>2. bytes' = bytes \/ bytes' = [bytes EXCEPT ![index] = [bytes[index] EXCEPT !.ok = FALSE]]
  BY DEF LoseIndex
<1>3. [bytes[index] EXCEPT !.ok = FALSE] \in [entries : SUBSET Entry, ok : BOOLEAN]
  BY <1>1
<1>4. bytes' \in [Inode -> [entries : SUBSET Entry, ok : BOOLEAN]]
  BY <1>1, <1>2, <1>3 DEF TypeOK
<1>5. TypeOK'
  BY <1>1, <1>4 DEF LoseIndex, TypeOK
<1>6. /\ rebuild' = "off" /\ restored' = FALSE
      /\ UNCHANGED <<walk, pc, job, at, loaded>> /\ rebuild = "off"
  BY DEF LoseIndex
<1> QED BY <1>5, <1>6 DEF RebuildInv, RebuildType, JobOK, Alone, Walked, Saved, RebuildRestores

(* The tool begins: all writers are idle, and stay so until it ends.       *)
LEMMA BeginKeeps == ASSUME RebuildInv, rebuild_one_language PROVE RebuildInv'
<1>1. UNCHANGED vars /\ rebuild = "off" /\ rebuild' = "walk" /\ walk' = Page
      /\ restored' = FALSE /\ \A w \in Writer : pc[w] = "idle"
  BY DEF rebuild_one_language
<1>2. Scanned(Page \ walk)' = {} /\ Readable(Page \ walk)'
  BY <1>1 DEF Scanned, Readable
<1>3. RebuildType'
  BY <1>1 DEF vars, RebuildInv, RebuildType, TypeOK
<1>4. Alone' /\ Saved'
  BY <1>1, RebuildAssumption DEF vars, Alone, Saved
<1>5. Walked'
  BY <1>1, <1>2, FS_EmptySet DEF vars, RebuildInv, Walked
<1> QED BY <1>1, <1>3, <1>4, <1>5 DEF RebuildInv, RebuildRestores

(* An error of the walk, or the end of the tool in it.                     *)
LEMMA AbortKeeps ==
  ASSUME RebuildInv, rebuild = "walk", Abort,
         UNCHANGED <<file, index, tmp, bytes, pc, job, at, fd, reading, started, lastCall>>
  PROVE  RebuildInv'
<1> USE RebuildAssumption
<1>1. rebuild' = "off" /\ walk' = {} /\ restored' = restored /\ ~ restored
      /\ loaded' = [loaded EXCEPT ![Rebuilder] = {}]
  BY DEF Abort, RebuildInv
<1>2. TypeOK' /\ loaded'[Rebuilder] = {}
  BY <1>1 DEF RebuildInv, RebuildType, TypeOK
<1>3. \A w \in Writer : pc[w] = "idle"
  BY DEF RebuildInv, Alone
<1>4. RebuildType'
  BY <1>1, <1>2, <1>3 DEF RebuildInv, RebuildType, JobOK
<1>5. Alone' /\ Saved' /\ Walked'
  BY <1>1, <1>2, <1>3, FS_EmptySet DEF Alone, Saved, Walked
<1> QED BY <1>1, <1>4, <1>5 DEF RebuildInv, RebuildRestores

(* One directory of the walk. *)
LEMMA WalkKeeps == ASSUME RebuildInv, NEW p \in Page, walk_shards(p) PROVE RebuildInv'
<1> USE RebuildAssumption
<1> DEFINE bad == IsArticle(p) /\ ~ ({file[p]["meta"], file[p]["revisions"]} \subseteq Version)
           more == IF IsArticle(p) THEN scan_article(p) ELSE {}
<1>1. CASE bad
  BY <1>1, AbortKeeps DEF walk_shards
<1>2. CASE ~ bad
  <2>1. /\ loaded' = [loaded EXCEPT ![Rebuilder] = loaded[Rebuilder] \cup more]
        /\ walk' = walk \ {p} /\ p \in walk
        /\ rebuild = "walk" /\ rebuild' = "walk" /\ restored' = restored /\ ~ restored
        /\ UNCHANGED <<file, index, tmp, bytes, pc, job, at, fd, reading, started, lastCall>>
    BY <1>2 DEF walk_shards, RebuildInv
  <2>2. IsArticle(p) => file[p]["meta"] \in Version /\ file[p]["revisions"] \in Version
    BY <1>2
  <2>3. more = { e \in Entry : e[1] = p /\ IsArticle(p) /\ e[2] <= file[p]["revisions"] }
    BY <2>2, StoreAssumption DEF scan_article, Revisions, Entry, Version
  <2>4. IsFiniteSet(more)
    BY <2>2, RevisionsFinite, FS_EmptySet, StoreAssumption DEF scan_article, Version
  <2>5. Scanned((Page \ walk) \cup {p}) = Scanned(Page \ walk) \cup more
    BY <2>3 DEF Scanned
  <2>6. (Page \ walk)' = (Page \ walk) \cup {p}
    BY <2>1 DEF RebuildInv, RebuildType
  <2>7. Scanned(Page \ walk)' = Scanned(Page \ walk) \cup more
    BY <2>1, <2>5, <2>6 DEF Scanned, IsArticle
  <2>8. Readable(Page \ walk)'
    BY <2>1, <2>2, <2>6 DEF RebuildInv, Walked, Readable, IsArticle
  <2>9. loaded'[Rebuilder] = loaded[Rebuilder] \cup more /\ more \subseteq Entry
    BY <2>1, <2>3 DEF RebuildInv, RebuildType, TypeOK
  <2>10. IsFiniteSet(loaded'[Rebuilder])
    BY <2>4, <2>9, FS_Union DEF RebuildInv, Walked
  <2>11. Walked'
    BY <2>1, <2>7, <2>8, <2>9, <2>10 DEF RebuildInv, Walked
  <2>12. loaded' \in [Writer -> SUBSET Entry]
    <3> HIDE DEF more
    <3> QED BY <2>1, <2>9 DEF RebuildInv, RebuildType, TypeOK
  <2>13. RebuildType' /\ Alone' /\ Saved'
    BY <2>1, <2>12 DEF RebuildInv, RebuildType, TypeOK, Alone, Saved
  <2> QED BY <2>1, <2>11, <2>13 DEF RebuildInv, RebuildRestores
<1> QED BY <1>1, <1>2

LEMMA SaveIndexKeeps == ASSUME RebuildInv, SaveIndex PROVE RebuildInv'
<1> USE RebuildAssumption
<1>1. /\ rebuild = "walk" /\ walk = {} /\ rebuild' = "save" /\ ~ restored
      /\ pc' = [pc EXCEPT ![Rebuilder] = "tmp"]
      /\ UNCHANGED <<file, index, tmp, bytes, job, at, fd, loaded, reading, started,
                     lastCall, walk, restored>>
  BY DEF SaveIndex, Goto, RebuildInv
<1>2. /\ pc'[Rebuilder] = "tmp" /\ \A w \in Writer \ {Rebuilder} : pc'[w] = pc[w]
      /\ TypeOK'
  BY <1>1 DEF RebuildInv, RebuildType, TypeOK
<1>3. RebuildType' /\ Alone' /\ Saved'
  BY <1>1, <1>2 DEF RebuildInv, RebuildType, Alone, Saved
<1>4. Walked'
  BY <1>1 DEF RebuildInv, Walked, Scanned, Readable, IsArticle
<1> QED BY <1>1, <1>3, <1>4 DEF RebuildInv, RebuildRestores

LEMMA CreateKeeps ==
  ASSUME RebuildInv, rebuild = "save", CreateTmp(Rebuilder), UNCHANGED rebuildVars
  PROVE  RebuildInv'
<1> USE RebuildAssumption
<1> DEFINE t == TemporaryFile
<1>1. /\ tmp' = t /\ fd' = [fd EXCEPT ![Rebuilder] = t]
      /\ pc' = [pc EXCEPT ![Rebuilder] = "body"]
      /\ bytes' = [bytes EXCEPT ![t] = NoBytes] /\ ~ restored
      /\ UNCHANGED <<file, index, job, at, loaded, reading, started, lastCall>>
  BY DEF CreateTmp, Goto, RebuildInv
<1>2. t \in Inode /\ t # NoInode /\ NoBytes \in [entries : SUBSET Entry, ok : BOOLEAN]
  BY TemporaryIsInode DEF RebuildInv, RebuildType, Inode, NoInode, NoBytes
<1> HIDE DEF t
<1>3. /\ pc'[Rebuilder] = "body" /\ fd'[Rebuilder] = t /\ bytes'[t] = NoBytes
      /\ \A w \in Writer \ {Rebuilder} : pc'[w] = pc[w]
      /\ TypeOK'
  BY <1>1, <1>2 DEF RebuildInv, RebuildType, TypeOK
<1>4. RebuildType' /\ Alone' /\ Saved'
  BY <1>1, <1>2, <1>3 DEF RebuildInv, RebuildType, Alone, Saved
<1>5. Walked'
  BY <1>1 DEF RebuildInv, Walked, Scanned, Readable, IsArticle
<1> QED BY <1>1, <1>4, <1>5 DEF RebuildInv, RebuildRestores

LEMMA BodyKeeps ==
  ASSUME RebuildInv, rebuild = "save", WriteBody(Rebuilder), UNCHANGED rebuildVars
  PROVE  RebuildInv'
<1> USE RebuildAssumption
<1> DEFINE new == [entries |-> loaded[Rebuilder], ok |-> TRUE]
<1>1. /\ pc[Rebuilder] = "body" /\ tmp # NoInode /\ fd[Rebuilder] = tmp /\ tmp \in Inode
      /\ bytes[tmp] = NoBytes
  BY DEF WriteBody, RebuildInv, RebuildType, Saved, TypeOK
<1>2. Cardinality(loaded[Rebuilder]) >= Cardinality(bytes[tmp].entries)
  BY <1>1, FS_EmptySet, FS_CardinalityType DEF RebuildInv, Walked, NoBytes
<1>3. /\ bytes' = [bytes EXCEPT ![tmp] = new] /\ pc' = [pc EXCEPT ![Rebuilder] = "rename"]
      /\ ~ restored
      /\ UNCHANGED <<file, index, tmp, job, at, fd, loaded, reading, started, lastCall>>
  BY <1>1, <1>2 DEF WriteBody, Goto, RebuildInv
<1>4. new \in [entries : SUBSET Entry, ok : BOOLEAN]
  BY DEF RebuildInv, RebuildType, TypeOK
<1> HIDE DEF new
<1>5. /\ pc'[Rebuilder] = "rename" /\ bytes'[tmp] = new
      /\ \A w \in Writer \ {Rebuilder} : pc'[w] = pc[w]
      /\ TypeOK'
  BY <1>1, <1>3, <1>4 DEF RebuildInv, RebuildType, TypeOK
<1>6. RebuildType' /\ Alone' /\ Saved'
  BY <1>1, <1>3, <1>5 DEF RebuildInv, RebuildType, Alone, Saved, new
<1>7. Walked'
  BY <1>3 DEF RebuildInv, Walked, Scanned, Readable, IsArticle
<1> QED BY <1>3, <1>6, <1>7 DEF RebuildInv, RebuildRestores

(* The end of the save, in success or not: the tool is idle again.         *)
LEMMA SaveEnds ==
  ASSUME RebuildInv, rebuild = "save", NEW ok \in BOOLEAN, Return(Rebuilder, ok),
         rebuild' = "off", walk' = walk,
         index' \in Inode \cup {NoInode}, tmp' \in Inode \cup {NoInode},
         UNCHANGED <<file, bytes, reading, started>>
  PROVE  RebuildType' /\ Alone' /\ Walked' /\ Saved'
<1> USE RebuildAssumption
<1>1. /\ pc' = [pc EXCEPT ![Rebuilder] = "idle"]
      /\ job' = [job EXCEPT ![Rebuilder] = NoJob]
      /\ at' = [at EXCEPT ![Rebuilder] = 1]
      /\ fd' = [fd EXCEPT ![Rebuilder] = NoInode]
      /\ loaded' = [loaded EXCEPT ![Rebuilder] = {}]
  BY DEF Return, Goto
<1>2. \A w \in Writer : pc'[w] = "idle" /\ at'[w] = 1 /\ loaded'[Rebuilder] = {}
  BY <1>1 DEF RebuildInv, RebuildType, TypeOK, Alone
<1>3. lastCall' \in [Page -> [version : 0 .. MaxVersion, ok : BOOLEAN]]
  <2> DEFINE c == [version |-> job[Rebuilder].version, ok |-> ok]
  <2>1. lastCall' = [lastCall EXCEPT ![job[Rebuilder].page] = c]
    BY DEF Return
  <2>2. c \in [version : 0 .. MaxVersion, ok : BOOLEAN]
    BY DEF RebuildInv, RebuildType, TypeOK
  <2> HIDE DEF c
  <2> QED BY <2>1, <2>2 DEF RebuildInv, RebuildType, TypeOK
<1>4. NoJob \in [page : Page \cup {NoPage}, version : 0 .. MaxVersion]
  BY StoreAssumption DEF NoJob
<1>5. TypeOK'
  BY <1>1, <1>3, <1>4, OrderIsComplete, SMTT(20) DEF RebuildInv, RebuildType, TypeOK
<1>6. RebuildType'
  BY <1>2, <1>5 DEF RebuildInv, RebuildType, JobOK
<1> QED BY <1>2, <1>6, FS_EmptySet DEF RebuildInv, Alone, Walked, Saved

LEMMA SaveKeeps == ASSUME RebuildInv, Save PROVE RebuildInv'
<1>1. CASE (CreateTmp(Rebuilder) \/ WriteBody(Rebuilder)) /\ UNCHANGED rebuildVars
  BY <1>1, CreateKeeps, BodyKeeps DEF Save
<1>2. CASE RenameTmp(Rebuilder)
  <2>1. /\ rebuild = "save" /\ pc[Rebuilder] = "rename" /\ tmp # NoInode /\ tmp \in Inode
        /\ bytes[tmp] = [entries |-> loaded[Rebuilder], ok |-> TRUE]
        /\ loaded[Rebuilder] = Scanned(Page) /\ Readable(Page)
    BY <1>2 DEF Save, RenameTmp, RebuildInv, RebuildType, TypeOK, Walked, Saved
  <2>2. /\ index' = tmp /\ tmp' = NoInode /\ Return(Rebuilder, TRUE)
        /\ rebuild' = "off" /\ walk' = walk /\ UNCHANGED <<file, bytes, reading, started>>
    BY <1>2, <2>1 DEF Save, RenameTmp, CreateTmp, WriteBody
  <2>3. RebuildRestores'
    BY <2>1, <2>2, ScannedIsOnDisk
       DEF RebuildRestores, Indexed, OnDisk, RebuildInv, RebuildType
  <2> QED BY <2>1, <2>2, <2>3, SaveEnds DEF RebuildInv
<1> QED BY <1>1, <1>2 DEF Save

LEMMA CrashKeeps == ASSUME RebuildInv, CrashRebuild PROVE RebuildInv'
<1>1. CASE /\ rebuild = "walk" /\ Abort
           /\ UNCHANGED <<files, sidecar, pc, job, at, fd, reading, started, lastCall>>
  BY <1>1, AbortKeeps
<1>2. CASE /\ rebuild = "save" /\ Crash(Rebuilder)
           /\ rebuild' = "off" /\ UNCHANGED <<walk, restored>>
  <2>1. Return(Rebuilder, FALSE) /\ UNCHANGED <<file, index, tmp, bytes, reading, started>>
    BY <1>2 DEF Crash
  <2>2. walk' = walk /\ restored' = restored /\ ~ restored
    BY <1>2 DEF RebuildInv, RebuildType, Saved
  <2>3. ~ restored' /\ walk' = walk
    BY <2>2
  <2> QED BY <1>2, <2>1, <2>3, SaveEnds DEF RebuildInv, RebuildType, TypeOK, RebuildRestores
<1> QED BY <1>1, <1>2 DEF CrashRebuild

(* A rebuild that returned Ok leaves an index that can be read and names   *)
(* exactly the revisions of the articles a reader can open, whatever the   *)
(* services wrote, whatever calls died in the middle and whatever became   *)
(* of the index before.                                                    *)
THEOREM RestoresIndex == RebuildSpec => []RebuildRestores
<1>1. RebuildInv /\ [RebuildNext]_allVars => RebuildInv'
  <2> SUFFICES ASSUME RebuildInv, [RebuildNext]_allVars PROVE RebuildInv'
    OBVIOUS
  <2>1. CASE UNCHANGED allVars
    BY <2>1 DEF allVars, vars, RebuildInv, RebuildType, TypeOK, JobOK, Alone, Walked, Saved,
       RebuildRestores, Scanned, Readable, IsArticle, Indexed, OnDisk
  <2> QED BY <2>1, ServicesKeep, LoseKeeps, BeginKeeps, WalkKeeps, SaveIndexKeeps,
       SaveKeeps, CrashKeeps DEF RebuildNext
<1>2. RebuildInv => RebuildRestores
  BY DEF RebuildInv
<1> QED BY <1>1, <1>2, RebuildInitOK, PTL DEF RebuildSpec
=============================================================================
