----------------------------- MODULE IndexRebuild -----------------------------
(***************************************************************************)
(* rebuild_one_language (crates/wikiwho-storage/src/rebuild.rs): a fresh   *)
(* rev_id_index.bin from the article tree, "to bootstrap the sidecar (...) *)
(* or to recover from corruption" (bin/rebuild_rev_index.rs), over the     *)
(* files SnapshotStore describes.                                          *)
(*                                                                         *)
(* The tool is one more process: it saves through the steps of             *)
(* RevIdIndex::save, those of a writer.  It is run with the services       *)
(* stopped, so no call of write_article is under way while it works; what  *)
(* calls that died left on the disk is there for it to find.               *)
(***************************************************************************)
EXTENDS SnapshotStore

CONSTANT Rebuilder      \* the process of the tool, which writes no article

ASSUME RebuildAssumption == Rebuilder \in Writer

VARIABLES
  rebuild,      \* "off", or the step of rebuild_one_language
  walk,         \* the article directories it has still to visit
  restored      \* it has returned Ok and no service has started since

rebuildVars == <<rebuild, walk, restored>>
allVars == <<vars, rebuildVars>>

RebuildInit == Init /\ rebuild = "off" /\ walk = {} /\ restored = FALSE
-----------------------------------------------------------------------------
(* What the revisions.bin of each article names.                           *)
OnDisk == UNION { Revisions(p, file[p]["revisions"]) :
                  p \in { q \in Page : file[q]["revisions"] \in Version } }

(* The calls and the readers of SnapshotStore, between two rebuilds.       *)
Services ==
  /\ rebuild = "off"
  /\ \/ \E w \in Writer \ {Rebuilder}, p \in Page : WriteArticle(w, p)
     \/ \E w \in Writer \ {Rebuilder} :
          \/ CreateFile(w) \/ FillFile(w) \/ LoadIndex(w)
          \/ CreateTmp(w) \/ WriteBody(w) \/ RenameTmp(w) \/ Crash(w)
     \/ \E r \in Reader, p \in Page : OpenSnapshot(r, p)
     \/ \E r \in Reader : ReadFile(r)
  /\ restored' = FALSE
  /\ UNCHANGED <<rebuild, walk>>

(* The sidecar is lost, or its bytes fail their checksum.                  *)
LoseIndex ==
  /\ rebuild = "off"
  /\ index # NoInode
  /\ \/ index' = NoInode /\ UNCHANGED bytes
     \/ bytes' = [bytes EXCEPT ![index].ok = FALSE] /\ UNCHANGED index
  /\ restored' = FALSE
  /\ UNCHANGED <<files, tmp, writer, reading, started, lastCall, rebuild, walk>>

rebuild_one_language ==
  /\ rebuild = "off"
  /\ \A w \in Writer : pc[w] = "idle"
  /\ rebuild' = "walk"
  /\ walk' = Page
  /\ restored' = FALSE
  /\ UNCHANGED vars

(* Some error of the walk: nothing has been written. *)
Abort ==
  /\ rebuild' = "off"
  /\ walk' = {}
  /\ loaded' = [loaded EXCEPT ![Rebuilder] = {}]
  /\ UNCHANGED restored

(* Seeded fault of scan_article: the revisions the old index names.        *)
FromIndex(p) == { e \in Indexed : e[1] = p }
scan_article(p) == Revisions(p, file[p]["revisions"])

IsArticle(p) == file[p]["meta"] # Absent

(* One directory: one without meta.json holds no article, one whose        *)
(* meta.json or revisions.bin cannot be read ends the rebuild.             *)
walk_shards(p) ==
  /\ rebuild = "walk"
  /\ p \in walk
  /\ IF IsArticle(p) /\ ~ {file[p]["meta"], file[p]["revisions"]} \subseteq Version
       THEN Abort
       ELSE /\ loaded' = [loaded EXCEPT ![Rebuilder] =
                            @ \cup (IF IsArticle(p) THEN scan_article(p) ELSE {})]
            /\ walk' = walk \ {p}
            /\ UNCHANGED <<rebuild, restored>>
  /\ UNCHANGED <<files, sidecar, pc, job, at, fd, reading, started, lastCall>>

(* The walk is over: index.save takes the entries. *)
SaveIndex ==
  /\ rebuild = "walk"
  /\ walk = {}
  /\ rebuild' = "save"
  /\ Goto(Rebuilder, "tmp")
  /\ UNCHANGED <<files, sidecar, job, at, fd, loaded, reading, started, lastCall,
                 walk, restored>>

(* RevIdIndex::save, its last step with the Ok of the rebuild. *)
Save ==
  /\ rebuild = "save"
  /\ \/ (CreateTmp(Rebuilder) \/ WriteBody(Rebuilder)) /\ UNCHANGED rebuildVars
     \/ /\ RenameTmp(Rebuilder)
        /\ rebuild' = "off"
        /\ restored' = (tmp # NoInode)
        /\ UNCHANGED walk

(* The tool is killed, in the walk or in the save. *)
CrashRebuild ==
  \/ /\ rebuild = "walk" /\ Abort
     /\ UNCHANGED <<files, sidecar, pc, job, at, fd, reading, started, lastCall>>
  \/ /\ rebuild = "save" /\ Crash(Rebuilder)
     /\ rebuild' = "off" /\ UNCHANGED <<walk, restored>>

RebuildNext ==
  \/ Services
  \/ LoseIndex
  \/ rebuild_one_language
  \/ \E p \in Page : walk_shards(p)
  \/ SaveIndex
  \/ Save
  \/ CrashRebuild

RebuildSpec == RebuildInit /\ [][RebuildNext]_allVars
-----------------------------------------------------------------------------
(* A rebuild that returned Ok has left an index that can be read and names *)
(* exactly the revisions of the articles a reader can open, whatever calls *)
(* that died, or a damaged index, left before it; a directory the writer   *)
(* had only begun is not in it.                                            *)
RebuildRestores ==
  restored => /\ index # NoInode /\ bytes[index].ok
              /\ Indexed = { e \in OnDisk : file[e[1]]["meta"] # Absent }

=============================================================================
