---------------------------- MODULE SnapshotStore ----------------------------
(***************************************************************************)
(* The on-disk snapshots of crates/wikiwho-storage: write_article          *)
(* (writer.rs), SnapshotReader::open_dir (reader.rs) and the per-language  *)
(* RevIdIndex sidecar (rev_id_index.rs), file by file.                     *)
(*                                                                         *)
(* A writer is whoever calls write_article: a cache-miss task of the       *)
(* server or the ingest daemon.  Nothing in the crate serialises them.     *)
(* An article is known by its version, the number of revisions it holds;   *)
(* revision n of page p is <<p, n>>.  A file holds one version, or bytes   *)
(* no parser accepts: File::create truncates in place, and the encoder     *)
(* fills the file afterwards.  A path names an inode, which a rename       *)
(* moves and an open descriptor keeps.                                     *)
(***************************************************************************)
EXTENDS Integers, Sequences, FiniteSets

CONSTANTS
  Page, NoPage,
  Writer,               \* concurrent callers of write_article
  Reader,               \* concurrent callers of SnapshotReader::open
  MaxVersion            \* bound: versions written of one page

ASSUME StoreAssumption ==
  MaxVersion \in Nat /\ NoPage \notin Page /\ IsFiniteSet(Writer)

Absent    == 0
Truncated == -1         \* created or still being filled
Garbled   == -2         \* two writers' bytes, one over the other

Version == 1 .. MaxVersion
File    == {"strings", "tokens", "revisions", "paragraphs", "sentences",
            "hashtables", "meta"}

(* Seeded faults of WriteOrder: meta.json first; a table never written.     *)
MetaFirst  == <<"meta", "strings", "tokens", "revisions", "paragraphs",
                "sentences", "hashtables">>
NoTables   == <<"strings", "tokens", "revisions", "paragraphs", "sentences", "meta">>
WriteOrder == <<"strings", "tokens", "revisions", "paragraphs",
                "sentences", "hashtables", "meta">>
ReadOrder  == <<"meta", "strings", "tokens", "revisions", "paragraphs",
                "sentences", "hashtables">>

Entry == Page \X Version       \* (rev_id, page_id): the page is in the rev_id
NoInode == 0
Inode   == 1 .. Cardinality(Writer) + 2

VARIABLES
  file,         \* file[p][f]: what the file f of page p holds
  index, tmp,   \* inodes of rev_id_index.bin and rev_id_index.bin.tmp
  bytes,        \* bytes[i]: the entries inode i holds, and whether they parse
  pc, job, at,  \* a writer: its step, its article, the file it is on
  fd, loaded,   \* its descriptor of the temporary file, its RevIdIndex
  reading,      \* a reader: its page and the versions read so far
  started,      \* started[p]: the newest version a call was made for
  lastCall      \* lastCall[p]: version and result of the last call to end

files    == <<file>>
sidecar  == <<index, tmp, bytes>>
writer   == <<pc, job, at, fd, loaded>>
vars == <<file, index, tmp, bytes, pc, job, at, fd, loaded, reading, started,
          lastCall>>

NoBytes == [entries |-> {}, ok |-> FALSE]
NoJob   == [page |-> NoPage, version |-> 0]
Closed  == [page |-> NoPage, open |-> FALSE, got |-> << >>]

(* The revisions of a version, as the index lists them. *)
Revisions(p, v) == {p} \X (1 .. v)

TypeOK ==
  /\ file \in [Page -> [File -> Version \cup {Absent, Truncated, Garbled}]]
  /\ index \in Inode \cup {NoInode}
  /\ tmp \in Inode \cup {NoInode}
  /\ bytes \in [Inode -> [entries : SUBSET Entry, ok : BOOLEAN]]
  /\ pc \in [Writer -> {"idle", "create", "fill", "load", "tmp", "body", "rename"}]
  /\ job \in [Writer -> [page : Page \cup {NoPage}, version : 0 .. MaxVersion]]
  /\ at \in [Writer -> 1 .. Len(WriteOrder)]
  /\ fd \in [Writer -> Inode \cup {NoInode}]
  /\ loaded \in [Writer -> SUBSET Entry]
  /\ reading \in [Reader -> [page : Page \cup {NoPage}, open : BOOLEAN, got : Seq(Version)]]
  /\ started \in [Page -> 0 .. MaxVersion]
  /\ lastCall \in [Page -> [version : 0 .. MaxVersion, ok : BOOLEAN]]

Init ==
  /\ file = [p \in Page |-> [f \in File |-> Absent]]
  /\ index = NoInode /\ tmp = NoInode
  /\ bytes = [i \in Inode |-> NoBytes]
  /\ pc = [w \in Writer |-> "idle"]
  /\ job = [w \in Writer |-> NoJob]
  /\ at = [w \in Writer |-> 1]
  /\ fd = [w \in Writer |-> NoInode]
  /\ loaded = [w \in Writer |-> {}]
  /\ reading = [r \in Reader |-> Closed]
  /\ started = [p \in Page |-> 0]
  /\ lastCall = [p \in Page |-> [version |-> 0, ok |-> TRUE]]
-----------------------------------------------------------------------------
(* write_article.                                                          *)

Goto(w, step) == pc' = [pc EXCEPT ![w] = step]

(* The end of a call, with Ok or an error; its locals go.                  *)
Return(w, ok) ==
  /\ Goto(w, "idle")
  /\ lastCall' = [lastCall EXCEPT ![job[w].page] =
                    [version |-> job[w].version, ok |-> ok]]
  /\ job' = [job EXCEPT ![w] = NoJob]
  /\ at' = [at EXCEPT ![w] = 1]
  /\ fd' = [fd EXCEPT ![w] = NoInode]
  /\ loaded' = [loaded EXCEPT ![w] = {}]

(* A call with the page's next version: articles only grow here.           *)
WriteArticle(w, p) ==
  /\ pc[w] = "idle"
  /\ started[p] < MaxVersion
  /\ started' = [started EXCEPT ![p] = @ + 1]
  /\ job' = [job EXCEPT ![w] = [page |-> p, version |-> started[p] + 1]]
  /\ Goto(w, "create")
  /\ UNCHANGED <<files, sidecar, at, fd, loaded, reading, lastCall>>

(* File::create, and the first half of fs::write for meta.json. *)
CreateFile(w) ==
  /\ pc[w] = "create"
  /\ file' = [file EXCEPT ![job[w].page][WriteOrder[at[w]]] = Truncated]
  /\ Goto(w, "fill")
  /\ UNCHANGED <<sidecar, job, at, fd, loaded, reading, started, lastCall>>

(* What a file holds once a writer's bytes are in it: bytes another writer *)
(* put there since the truncation stick out past the end of shorter ones.  *)
Filled(old, v) == IF old = Truncated THEN {v} ELSE {v, Garbled}

(* Seeded faults of AfterFile: published before meta.json; one file too many. *)
PublishedEarly(w) == IF at[w] < Len(WriteOrder) - 1 THEN "create" ELSE "load"
OneTooMany(w)     == IF at[w] <= Len(WriteOrder) THEN "create" ELSE "load"

(* The next file in order; the index once all are written. *)
AfterFile(w) == IF at[w] < Len(WriteOrder) THEN "create" ELSE "load"

FillFile(w) ==
  /\ pc[w] = "fill"
  /\ LET p == job[w].page
         f == WriteOrder[at[w]]
     IN  \E new \in Filled(file[p][f], job[w].version) :
           file' = [file EXCEPT ![p][f] = new]
  /\ Goto(w, AfterFile(w))
  /\ at' = [at EXCEPT ![w] = IF AfterFile(w) = "create" THEN @ + 1 ELSE @]
  /\ UNCHANGED <<sidecar, job, fd, loaded, reading, started, lastCall>>

(* The process dies, or an I/O operation of the call fails.                *)
Crash(w) ==
  /\ pc[w] # "idle"
  /\ Return(w, FALSE)
  /\ UNCHANGED <<files, sidecar, reading, started>>
-----------------------------------------------------------------------------
(* RevIdIndex::update_for_article: load, replace_article, save.            *)

(* Seeded fault of replace_article: the other pages' entries are dropped.  *)
KeepsOwnOnly(entries, p, v) == Revisions(p, v)

replace_article(entries, p, v) ==
  { e \in entries : e[1] # p } \cup Revisions(p, v)

LoadIndex(w) ==
  /\ pc[w] = "load"
  /\ IF index # NoInode /\ ~ bytes[index].ok
       THEN Return(w, FALSE)
       ELSE /\ loaded' = [loaded EXCEPT ![w] =
                 replace_article(IF index = NoInode THEN {} ELSE bytes[index].entries,
                                 job[w].page, job[w].version)]
            /\ Goto(w, "tmp")
            /\ UNCHANGED <<job, at, fd, lastCall>>
  /\ UNCHANGED <<files, sidecar, reading, started>>

InUse == {index, tmp} \cup { fd[w] : w \in Writer }

(* File::create of the temporary file, whose path all writers share. *)
FreshTemporary == CHOOSE i \in Inode : i \notin InUse
InPlace        == IF index = NoInode THEN FreshTemporary ELSE index  \* seeded fault of TemporaryFile
TemporaryFile  == IF tmp = NoInode THEN FreshTemporary ELSE tmp

CreateTmp(w) ==
  /\ pc[w] = "tmp"
  /\ tmp' = TemporaryFile
  /\ fd' = [fd EXCEPT ![w] = TemporaryFile]
  /\ bytes' = [bytes EXCEPT ![TemporaryFile] = NoBytes]
  /\ Goto(w, "body")
  /\ UNCHANGED <<files, index, job, at, loaded, reading, started, lastCall>>

(* The entries have one width, so a body that is not shorter covers what   *)
(* the descriptor's file holds, and a shorter one breaks its checksum.     *)
WriteBody(w) ==
  /\ pc[w] = "body"
  /\ bytes' = [bytes EXCEPT ![fd[w]] =
       IF Cardinality(loaded[w]) >= Cardinality(@.entries)
         THEN [entries |-> loaded[w], ok |-> TRUE]
         ELSE [@ EXCEPT !.ok = FALSE]]
  /\ Goto(w, "rename")
  /\ UNCHANGED <<files, index, tmp, job, at, fd, loaded, reading, started, lastCall>>

(* fs::rename moves whatever now has the temporary name; NotFound when     *)
(* another writer has moved it already.                                    *)
RenameTmp(w) ==
  /\ pc[w] = "rename"
  /\ IF tmp = NoInode
       THEN UNCHANGED <<index, tmp>> /\ Return(w, FALSE)
       ELSE index' = tmp /\ tmp' = NoInode /\ Return(w, TRUE)
  /\ UNCHANGED <<files, bytes, reading, started>>
-----------------------------------------------------------------------------
(* SnapshotReader::open_dir: meta.json first, then the six binaries.       *)

OpenSnapshot(r, p) ==
  /\ ~ reading[r].open
  /\ reading' = [reading EXCEPT ![r] = [page |-> p, open |-> TRUE, got |-> << >>]]
  /\ UNCHANGED <<files, sidecar, writer, started, lastCall>>

(* One file; a missing or unreadable one ends the call with an error, the  *)
(* last one ends it with a snapshot.                                       *)
ReadFile(r) ==
  LET n == Len(reading[r].got) + 1
      v == file[reading[r].page][ReadOrder[n]]
  IN  /\ reading[r].open
      /\ reading' = [reading EXCEPT ![r] =
           IF v \in Version
             THEN [page |-> reading[r].page, open |-> n < Len(ReadOrder),
                   got |-> Append(reading[r].got, v)]
             ELSE Closed]
      /\ UNCHANGED <<files, sidecar, writer, started, lastCall>>

Next ==
  \/ \E w \in Writer, p \in Page : WriteArticle(w, p)
  \/ \E w \in Writer : CreateFile(w)
  \/ \E w \in Writer : FillFile(w)
  \/ \E w \in Writer : LoadIndex(w)
  \/ \E w \in Writer : CreateTmp(w)
  \/ \E w \in Writer : WriteBody(w)
  \/ \E w \in Writer : RenameTmp(w)
  \/ \E w \in Writer : Crash(w)
  \/ \E r \in Reader, p \in Page : OpenSnapshot(r, p)
  \/ \E r \in Reader : ReadFile(r)

Spec == Init /\ [][Next]_vars
-----------------------------------------------------------------------------
Idle(p) == \A w \in Writer : pc[w] = "idle" \/ job[w].page # p
Whole(p, v) == \A f \in File : file[p][f] = v
Indexed == IF index = NoInode THEN {} ELSE bytes[index].entries

(* "the article's per-article files must exist before we publish its       *)
(* rev_ids to the index, so a concurrent reader chasing a new rev_id       *)
(* always finds the article files on disk" (writer.rs).  Through crashes.  *)
PublishedArticleExists ==
  \A e \in Indexed : \A f \in File : file[e[1]][f] # Absent

(* "Uses a tmp file + rename so a partial write never replaces a good      *)
(* index file" (rev_id_index.rs, save).                                    *)
NoPartialIndex == index # NoInode => bytes[index].ok

(* A call that returned Ok leaves one version on disk, whatever the calls  *)
(* that failed before it left there ("a half-written update should not     *)
(* corrupt the article", STORAGE.md).                                      *)
FinishedWriteIsWhole ==
  \A p \in Page : (Idle(p) /\ lastCall[p].ok /\ lastCall[p].version > 0) =>
    Whole(p, lastCall[p].version)

(* The index is the authoritative map of endpoint 1: once a write of a     *)
(* page has returned Ok, an index that can be read has its revisions (the  *)
(* read-modify-write of update_for_article is a "transaction").            *)
AckedRevisionsIndexed ==
  (index # NoInode => bytes[index].ok) =>
    \A p \in Page : lastCall[p].ok =>
      Revisions(p, lastCall[p].version) \subseteq Indexed

(* A reader that overlaps a write, or comes after one that died, never     *)
(* gets a meta.json newer than the data it describes: the writer writes it *)
(* last, the reader reads it first.                                        *)
MetaNotAhead ==
  \A r \in Reader : \A n \in DOMAIN reading[r].got :
    reading[r].got[n] >= reading[r].got[1]

Opened(r) == Len(reading[r].got) = Len(ReadOrder)

(* "a half-written update should not corrupt the article" (STORAGE.md):    *)
(* a snapshot that opens is one version of the article.                    *)
OpensOneVersion ==
  \A r \in Reader : Opened(r) =>
    \A n \in DOMAIN reading[r].got : reading[r].got[n] = reading[r].got[1]
=============================================================================
