------------------------- MODULE AttributionSnapshot -------------------------
(***************************************************************************)
(* Attribution and the snapshot files together: what the ingest daemon     *)
(* does with every edit is open_dir, analyse_revision, write_article       *)
(* (crates/wikiwho-ingest/src/apply.rs), so the article a call starts from *)
(* is the one that went through the files.  The Article of Attribution is  *)
(* put in the form of SnapshotTables: ids count from 0, a map from hash to *)
(* ids beside each list of hashes, strings as bytes.                       *)
(***************************************************************************)
EXTENDS Attribution

CONSTANTS
  bytes,                \* the bytes of a token value, a hash, an editor or a time
  saved_id              \* RevId -> its rev_id on the wiki, in no special order

Bucket(ids, hash_of, h) ==
  LET own == SelectSeq(ids, LAMBDA x : hash_of[x] = h) IN [k \in DOMAIN own |-> own[k] - 1]
Buckets(ids, hash_of) ==
  [b \in { bytes[hash_of[x]] : x \in Ids(ids) } |->
     Bucket(ids, hash_of, CHOOSE h \in { hash_of[x] : x \in Ids(ids) } : bytes[h] = b)]
HashList(ids, hash_of) == [i \in DOMAIN ids |-> bytes[hash_of[ids[i]]]]

paragraph_hash == [p \in Pids |-> paragraphs[p].hash_value]
sentence_hash  == [s \in Sids |-> sentences[s].hash_value]
SavedIds(rs)   == [i \in DOMAIN rs |-> saved_id[rs[i]]]

(* original_adds: the words this revision brought in. *)
OriginalAdds(r) == Cardinality({ w \in Tids : words[w].origin_rev_id = r })

ArticleOnDisk ==
  [words |-> [w \in DOMAIN words |->
                [value |-> bytes[words[w].value],
                 origin_rev_id |-> saved_id[words[w].origin_rev_id],
                 last_rev_id |-> saved_id[words[w].last_rev_id],
                 inbound |-> SavedIds(words[w].inbound),
                 outbound |-> SavedIds(words[w].outbound)]],
   sentences |-> [s \in Sids |->
                    [hash_value |-> bytes[sentences[s].hash_value],
                     words |-> [k \in DOMAIN sentences[s].words |-> sentences[s].words[k] - 1]]],
   paragraphs |-> [p \in Pids |->
                     [hash_value |-> bytes[paragraphs[p].hash_value],
                      sentences |-> Buckets(paragraphs[p].sentences, sentence_hash),
                      ordered_sentences |-> HashList(paragraphs[p].sentences, sentence_hash)]],
   paragraphs_ht |-> Buckets(paragraphs_ht, paragraph_hash),
   sentences_ht |-> Buckets(sentences_ht, sentence_hash),
   revisions |-> [id \in { saved_id[r] : r \in Stored } |->
                    LET r == CHOOSE x \in Stored : saved_id[x] = id
                    IN  [timestamp |-> << >>, editor |-> << >>,
                         length |-> LengthOf(revisions[r].text), original_adds |-> OriginalAdds(r),
                         paragraphs |-> Buckets(revisions[r].paragraphs, paragraph_hash),
                         ordered_paragraphs |-> HashList(revisions[r].paragraphs, paragraph_hash)]],
   ordered_revisions |-> SavedIds(ordered_revisions),
   last_good_rev_id |-> IF ordered_revisions = << >> THEN 0 ELSE saved_id[last_good_rev_id],
   next_token_id |-> Len(words),
   spam_ids |-> SavedIds(spam_ids), spam_hashes |-> spam_hashes]

Disk == INSTANCE SnapshotTables WITH
          Payload <- 4, U32 <- 31, I64 <- 63, Article <- {}, Probe <- {},
          article <- ArticleOnDisk, files <- {}, opened <- {}, lookup <- {}

(* Between calls, whatever the history, the article that is saved is the   *)
(* one that is opened: the arenas, the buckets of equal hashes, the tables *)
(* and the spam list are all an interrupted feed needs, and the tokens     *)
(* written for each revision are those the rebuilt article walks to.       *)
ResumeLosesNothing ==
  pc = "idle" =>
    LET art    == ArticleOnDisk
        files  == Disk!FilesOf(art)
        rows   == Disk!parse_revisions_blob(files.revisions).value
    IN  /\ Disk!open_dir(files) = {art}
        /\ \A i \in DOMAIN rows :
             rows[i].token_sequence = Disk!TokensOf(art, art.revisions[rows[i].rev_id])
=============================================================================
