---------------------------- MODULE SnapshotTables ----------------------------
(***************************************************************************)
(* What crates/wikiwho-storage puts into the files of an article and gets  *)
(* back out of them: the projections of writer.rs, the encoders and        *)
(* parsers of the six .bin files, the rehydration of reader.rs, and the    *)
(* random access of RevisionsIndex and StringsIndex.                       *)
(*                                                                         *)
(* A file is a header's counts and a sequence of bytes.  A byte carries    *)
(* Payload values and a continuation flag (128 in the code); the widths of *)
(* the integers are constants, so that their edges are reached.  Magic,    *)
(* version and CRC are taken to accept exactly the files that were written *)
(* whole (SnapshotStore is about those that were not).  A string is the    *)
(* sequence of its bytes, an id counts from 0 as in the code.  The value   *)
(* of a sentence or paragraph travels like its hash and is left out.       *)
(***************************************************************************)
EXTENDS Integers, Sequences, FiniteSets, FiniteSetsExt, SequencesExt

CONSTANTS
  Payload,              \* values of a varint byte without its flag (2^7)
  U32, I64,             \* u32::MAX and i64::MAX
  Article,              \* the articles to be saved
  Probe                 \* the rev_ids to be looked up

U64 == 2 * I64 + 1

ASSUME WidthAssumption ==
  /\ Payload \in Nat \ {0, 1}
  /\ U32 \in Nat \ {0} /\ I64 \in Nat /\ U32 < I64

VARIABLES
  article,              \* the Article in memory
  files,                \* its files: {} before write_article
  opened,               \* what SnapshotReader::open made of them: an article, or none
  lookup                \* a call of RevisionsIndex::get

vars == <<article, files, opened, lookup>>
-----------------------------------------------------------------------------
(* codec.rs.                                                               *)
zigzag_encode(v) == IF v >= 0 THEN 2 * v ELSE -2 * v - 1
zigzag_decode(u) == IF u % 2 = 0 THEN u \div 2 ELSE -((u + 1) \div 2)

write_varint_u64(value) ==
  LET enc[v \in 0 .. U64] ==
        IF v < Payload THEN <<v>>
        ELSE <<Payload + (v % Payload)>> \o enc[v \div Payload]
  IN  enc[value]
write_varint_i64(v) == write_varint_u64(zigzag_encode(v))

(* The bytes a u64 needs; one more and the shift reaches the width. *)
MaxBytes == Len(write_varint_u64(U64))

(* A parser returns what it read and where the next one starts, or fails;  *)
(* then the parsers after it are not called. *)
Failed == [ok |-> FALSE]
Read(value, at) == [ok |-> TRUE, value |-> value, at |-> at]
Keyed(value, at, key) == [ok |-> TRUE, value |-> value, at |-> at, key |-> key]
Then(r, Continue(_)) == IF r.ok THEN Continue(r) ELSE Failed

Bytes(bytes, at, n) ==
  LET sum[i \in 0 .. n] ==
        IF i = 0 THEN 0 ELSE sum[i - 1] + (bytes[at + i - 1] % Payload) * Payload^(i - 1)
  IN  IF n > MaxBytes THEN Failed ELSE Read(sum[n] % (U64 + 1), at + n)
read_varint_u64(bytes, at) ==
  LET ends == { k \in at .. Len(bytes) : bytes[k] < Payload }
  IN  IF ends = {} THEN Failed ELSE Bytes(bytes, at, Min(ends) - at + 1)

(* n records one after the other, each read by ReadOne from where the last *)
(* one ended and with the last one's key. *)
ReadMany(ReadOne(_, _, _), bytes, start, n, key) ==
  LET upto[i \in 0 .. n] ==
        IF i = 0 THEN Keyed(<<>>, start, key)
        ELSE Then(upto[i - 1], LAMBDA prev :
             Then(ReadOne(bytes, prev.at, prev.key), LAMBDA one :
             Keyed(Append(prev.value, one.value), one.at, one.key)))
  IN  upto[n]

(* A signed delta from the previous id, and the check of its range. *)
InRange(v, max, at) == IF v \in 0 .. max THEN Keyed(v, at, v) ELSE Failed
ReadDelta(bytes, at, prev, max) ==
  Then(read_varint_u64(bytes, at), LAMBDA d : InRange(prev + zigzag_decode(d.value), max, d.at))
ReadU32(bytes, at, prev)   == ReadDelta(bytes, at, prev, U32)
ReadRevId(bytes, at, prev) == ReadDelta(bytes, at, prev, I64)

(* read_utf8: a length, then that many bytes. *)
write_str(s) == write_varint_u64(Len(s)) \o s
read_str(bytes, at) ==
  Then(read_varint_u64(bytes, at), LAMBDA n :
    IF n.at + n.value - 1 > Len(bytes) THEN Failed
    ELSE Read(SubSeq(bytes, n.at, n.at + n.value - 1), n.at + n.value))

(* A list of ids: its length, then the deltas. *)
Deltas(ids, first) ==
  FlattenSeq([i \in DOMAIN ids |->
                write_varint_i64(ids[i] - (IF i = 1 THEN first ELSE ids[i - 1]))])
write_ids(ids, first) == write_varint_u64(Len(ids)) \o Deltas(ids, first)
read_ids(ReadOne(_, _, _), bytes, at, first) ==
  Then(read_varint_u64(bytes, at), LAMBDA n : ReadMany(ReadOne, bytes, n.at, n.value, first))

(* A list of (hash, id) pairs in document order. *)
write_refs(refs) ==
  write_varint_u64(Len(refs))
    \o FlattenSeq([i \in DOMAIN refs |->
         write_str(refs[i].hash)
           \o write_varint_i64(refs[i].id - (IF i = 1 THEN 0 ELSE refs[i - 1].id))])
ReadRef(bytes, at, prev) ==
  Then(read_str(bytes, at), LAMBDA hash :
  Then(ReadU32(bytes, hash.at, prev), LAMBDA id :
  Keyed([hash |-> hash.value, id |-> id.value], id.at, id.key)))
read_refs(bytes, at) ==
  Then(read_varint_u64(bytes, at), LAMBDA n : ReadMany(ReadRef, bytes, n.at, n.value, 0))
-----------------------------------------------------------------------------
(* tokens.bin: signed deltas from the previous token and from the origin.  *)
(* A rev_id above i64::MAX is refused, and with it the file. *)
RevIds(tok) == {tok.origin_rev_id, tok.last_rev_id} \cup Range(tok.inbound) \cup Range(tok.outbound)
Encodable(tokens) == \A i \in DOMAIN tokens : \A r \in RevIds(tokens[i]) : r <= I64

write_token(tok, prev) ==
  write_varint_i64(tok.string_id - prev.string_id)
    \o write_varint_i64(tok.origin_rev_id - prev.origin_rev_id)
    \o write_varint_i64(tok.last_rev_id - tok.origin_rev_id)
    \o write_ids(tok.inbound, tok.origin_rev_id)
    \o write_ids(tok.outbound, tok.origin_rev_id)
NoToken == [string_id |-> 0, origin_rev_id |-> 0]
write_tokens(tokens) ==
  [n |-> Len(tokens),
   data |-> FlattenSeq([i \in DOMAIN tokens |->
              write_token(tokens[i], IF i = 1 THEN NoToken ELSE tokens[i - 1])])]

StoredToken(string, origin, last, ins, outs) ==
  [string_id |-> string, origin_rev_id |-> origin, last_rev_id |-> last,
   inbound |-> ins, outbound |-> outs]
read_token(bytes, at, prev) ==
  Then(ReadU32(bytes, at, prev.string_id), LAMBDA string :
  Then(ReadRevId(bytes, string.at, prev.origin_rev_id), LAMBDA origin :
  Then(ReadRevId(bytes, origin.at, origin.value), LAMBDA last :
  Then(read_ids(ReadRevId, bytes, last.at, origin.value), LAMBDA ins :
  Then(read_ids(ReadRevId, bytes, ins.at, origin.value), LAMBDA outs :
  LET tok == StoredToken(string.value, origin.value, last.value, ins.value, outs.value)
  IN  Keyed(tok, outs.at, tok))))))
parse_tokens_blob(file) == ReadMany(read_token, file.data, 1, file.n, NoToken)

(* revisions.bin: the records in processing order, and the index table by  *)
(* rev_id, with offsets into the data.                                     *)
write_revision(rev) ==
  write_varint_u64(rev.rev_id) \o write_str(rev.timestamp) \o write_str(rev.editor)
    \o write_varint_u64(rev.length) \o write_varint_u64(rev.original_adds)
    \o write_ids(rev.token_sequence, 0) \o write_refs(rev.ordered_paragraphs)
FileOrder(revs) ==                                 \* seeded fault of IndexTable
  LET bodies == [i \in DOMAIN revs |-> write_revision(revs[i])]
  IN  [i \in DOMAIN revs |->
         [rev_id |-> revs[i].rev_id, offset |-> Len(FlattenSeq(SubSeq(bodies, 1, i - 1)))]]
IndexTable(revs) ==
  LET bodies == [i \in DOMAIN revs |-> write_revision(revs[i])]
      entry  == [i \in DOMAIN revs |->
                   [rev_id |-> revs[i].rev_id, offset |-> Len(FlattenSeq(SubSeq(bodies, 1, i - 1)))]]
  IN  SortSeq(entry, LAMBDA x, y : x.rev_id < y.rev_id)
write_revisions(revs) ==
  [n |-> Len(revs), index |-> IndexTable(revs),
   data |-> FlattenSeq([i \in DOMAIN revs |-> write_revision(revs[i])])]

read_one_revision(bytes, at, key) ==
  Then(read_varint_u64(bytes, at), LAMBDA id :
  Then(read_str(bytes, id.at), LAMBDA ts :
  Then(read_str(bytes, ts.at), LAMBDA editor :
  Then(read_varint_u64(bytes, editor.at), LAMBDA length :
  Then(read_varint_u64(bytes, length.at), LAMBDA adds :
  Then(IF adds.value > U32 THEN Failed ELSE read_ids(ReadU32, bytes, adds.at, 0), LAMBDA tokens :
  Then(read_refs(bytes, tokens.at), LAMBDA paras :
  Keyed([rev_id |-> id.value, timestamp |-> ts.value, editor |-> editor.value,
         length |-> length.value, original_adds |-> adds.value,
         token_sequence |-> tokens.value, ordered_paragraphs |-> paras.value],
        paras.at, key))))))))
parse_revisions_blob(file) == ReadMany(read_one_revision, file.data, 1, file.n, 0)

rev_ids_sorted(file) == [i \in 1 .. file.n |-> file.index[i].rev_id]
RecordAt(file, i) == read_one_revision(file.data, file.index[i].offset + 1, 0)

(* paragraphs.bin, sentences.bin and the buckets of hashtables.bin: a hash *)
(* and a list.                                                             *)
write_paragraphs(paras) ==
  [n |-> Len(paras),
   data |-> FlattenSeq([i \in DOMAIN paras |->
              write_str(paras[i].hash_value) \o write_refs(paras[i].ordered_sentences)])]
read_one_paragraph(bytes, at, key) ==
  Then(read_str(bytes, at), LAMBDA hash :
  Then(read_refs(bytes, hash.at), LAMBDA refs :
  Keyed([hash_value |-> hash.value, ordered_sentences |-> refs.value], refs.at, key)))
parse_paragraphs_blob(file) == ReadMany(read_one_paragraph, file.data, 1, file.n, 0)

write_bucket(hash, ids) == write_str(hash) \o write_ids(ids, 0)
read_bucket(bytes, at, key) ==
  Then(read_str(bytes, at), LAMBDA hash :
  Then(read_ids(ReadU32, bytes, hash.at, 0), LAMBDA ids :
  Keyed([hash |-> hash.value, arena_ids |-> ids.value], ids.at, key)))

write_sentences(sents) ==
  [n |-> Len(sents),
   data |-> FlattenSeq([i \in DOMAIN sents |-> write_bucket(sents[i].hash_value, sents[i].words)])]
read_one_sentence(bytes, at, key) ==
  Then(read_bucket(bytes, at, key), LAMBDA one :
  Keyed([hash_value |-> one.value.hash, words |-> one.value.arena_ids], one.at, key))
parse_sentences_blob(file) == ReadMany(read_one_sentence, file.data, 1, file.n, 0)

write_hashtables(paragraph_buckets, sentence_buckets) ==
  LET buckets == paragraph_buckets \o sentence_buckets
  IN  [n_p |-> Len(paragraph_buckets), n_s |-> Len(sentence_buckets),
       data |-> FlattenSeq([i \in DOMAIN buckets |->
                  write_bucket(buckets[i].hash, buckets[i].arena_ids)])]
parse_hashtables_blob(file) ==
  Then(ReadMany(read_bucket, file.data, 1, file.n_p, 0), LAMBDA ps :
  Then(ReadMany(read_bucket, file.data, ps.at, file.n_s, 0), LAMBDA ss :
  Read([paragraph_buckets |-> ps.value, sentence_buckets |-> ss.value], ss.at)))

(* strings.bin: offsets and lengths, then the bytes without separators.    *)
write_strings(strings) ==
  [index |-> [i \in DOMAIN strings |->
                [offset |-> Len(FlattenSeq(SubSeq(strings, 1, i - 1))), length |-> Len(strings[i])]],
   data |-> FlattenSeq(strings)]
string_at(file, i) ==
  SubSeq(file.data, file.index[i].offset + 1, file.index[i].offset + file.index[i].length)
parse_strings_blob(file) == [i \in DOMAIN file.index |-> string_at(file, i)]
StringsIndex_get(file, id) ==
  IF id >= Len(file.index) THEN {} ELSE {string_at(file, id + 1)}
-----------------------------------------------------------------------------
(* writer.rs: the projections of an Article.  Words carry their value; the *)
(* paragraphs of a revision and the sentences of a paragraph are a map     *)
(* from hash to ids and the list of hashes in document order.              *)

(* project_tokens: a string's id is the place of its first appearance. *)
Interned(words) ==
  LET upto[i \in 0 .. Len(words)] ==
        IF i = 0 THEN <<>>
        ELSE IF words[i].value \in Range(upto[i - 1]) THEN upto[i - 1]
        ELSE Append(upto[i - 1], words[i].value)
  IN  upto[Len(words)]
project_tokens(words) ==
  LET strings == Interned(words)
  IN  [i \in DOMAIN words |->
         [string_id |-> (CHOOSE k \in DOMAIN strings : strings[k] = words[i].value) - 1,
          origin_rev_id |-> words[i].origin_rev_id, last_rev_id |-> words[i].last_rev_id,
          inbound |-> words[i].inbound, outbound |-> words[i].outbound]]

(* project_rev_ordered_paragraphs and its like: the n-th occurrence of a   *)
(* hash is paired with the n-th id of its bucket, with 0 when there is     *)
(* none. *)
FirstOfBucket(hashes, buckets) ==                  \* seeded fault of Pairs
  [i \in DOMAIN hashes |-> [hash |-> hashes[i], id |-> buckets[hashes[i]][1]]]
Pairs(hashes, buckets) ==
  [i \in DOMAIN hashes |->
     LET h == hashes[i]
         n == Cardinality({ j \in 1 .. i : hashes[j] = h })
     IN  [hash |-> h,
          id |-> IF h \in DOMAIN buckets /\ n \in DOMAIN buckets[h] THEN buckets[h][n] ELSE 0]]

(* iter_rev_tokens, paragraphs to sentences to words. *)
TokensOf(art, rev) ==
  LET paras == Pairs(rev.ordered_paragraphs, rev.paragraphs)
  IN  FlattenSeq([i \in DOMAIN paras |->
        LET p == art.paragraphs[paras[i].id + 1]
            sents == Pairs(p.ordered_sentences, p.sentences)
        IN  FlattenSeq([j \in DOMAIN sents |-> art.sentences[sents[j].id + 1].words])])

project_revisions(art) ==
  [i \in DOMAIN art.ordered_revisions |->
     LET r == art.ordered_revisions[i]
         rev == art.revisions[r]
     IN  [rev_id |-> r, timestamp |-> rev.timestamp, editor |-> rev.editor,
          length |-> rev.length, original_adds |-> rev.original_adds,
          token_sequence |-> TokensOf(art, rev),
          ordered_paragraphs |-> Pairs(rev.ordered_paragraphs, rev.paragraphs)]]
project_paragraphs(paras) ==
  [i \in DOMAIN paras |->
     [hash_value |-> paras[i].hash_value,
      ordered_sentences |-> Pairs(paras[i].ordered_sentences, paras[i].sentences)]]

(* project_hashtables sorts the buckets by hash; any order of them will do *)
(* here, since the reader puts them into a map. *)
project_buckets(table) ==
  LET hashes == SetToSeq(DOMAIN table)
  IN  [i \in DOMAIN hashes |-> [hash |-> hashes[i], arena_ids |-> table[hashes[i]]]]

project_meta(art) ==
  [last_processed_revid |-> art.last_good_rev_id, next_token_id |-> art.next_token_id,
   spam_revisions |-> art.spam_ids, spam_hashes |-> SetToSeq(art.spam_hashes)]

FilesOf(art) ==
  [strings |-> write_strings(Interned(art.words)),
   tokens |-> write_tokens(project_tokens(art.words)),
   revisions |-> write_revisions(project_revisions(art)),
   paragraphs |-> write_paragraphs(project_paragraphs(art.paragraphs)),
   sentences |-> write_sentences(art.sentences),
   hashtables |-> write_hashtables(project_buckets(art.paragraphs_ht),
                                   project_buckets(art.sentences_ht)),
   meta |-> project_meta(art)]
-----------------------------------------------------------------------------
(* reader.rs: open_dir rebuilds the Article.                               *)

(* The ids of a hash in the order of the list. *)
Grouped(refs) ==
  [h \in { refs[i].hash : i \in DOMAIN refs } |->
     LET own == SelectSeq(refs, LAMBDA ref : ref.hash = h)
     IN  [k \in DOMAIN own |-> own[k].id]]
Hashes(refs) == [i \in DOMAIN refs |-> refs[i].hash]

Rehydrated(strings, tokens, revs, paras, sents, tables, meta) ==
  [words |-> [i \in DOMAIN tokens |->
                [value |-> strings[tokens[i].string_id + 1],
                 origin_rev_id |-> tokens[i].origin_rev_id, last_rev_id |-> tokens[i].last_rev_id,
                 inbound |-> tokens[i].inbound, outbound |-> tokens[i].outbound]],
   sentences |-> sents,
   paragraphs |-> [i \in DOMAIN paras |->
                     [hash_value |-> paras[i].hash_value,
                      sentences |-> Grouped(paras[i].ordered_sentences),
                      ordered_sentences |-> Hashes(paras[i].ordered_sentences)]],
   paragraphs_ht |-> [h \in { b.hash : b \in Range(tables.paragraph_buckets) } |->
                        (CHOOSE b \in Range(tables.paragraph_buckets) : b.hash = h).arena_ids],
   sentences_ht |-> [h \in { b.hash : b \in Range(tables.sentence_buckets) } |->
                        (CHOOSE b \in Range(tables.sentence_buckets) : b.hash = h).arena_ids],
   revisions |-> [r \in { rev.rev_id : rev \in Range(revs) } |->
                    LET rev == CHOOSE x \in Range(revs) : x.rev_id = r
                    IN  [timestamp |-> rev.timestamp, editor |-> rev.editor,
                         length |-> rev.length, original_adds |-> rev.original_adds,
                         paragraphs |-> Grouped(rev.ordered_paragraphs),
                         ordered_paragraphs |-> Hashes(rev.ordered_paragraphs)]],
   ordered_revisions |-> [i \in DOMAIN revs |-> revs[i].rev_id],
   last_good_rev_id |-> meta.last_processed_revid,
   next_token_id |-> meta.next_token_id,
   spam_ids |-> meta.spam_revisions, spam_hashes |-> Range(meta.spam_hashes)]

open_dir(fs) ==
  LET strings == parse_strings_blob(fs.strings)
      article_of ==
        Then(parse_tokens_blob(fs.tokens), LAMBDA tokens :
        Then(parse_revisions_blob(fs.revisions), LAMBDA revs :
        Then(parse_paragraphs_blob(fs.paragraphs), LAMBDA paras :
        Then(parse_sentences_blob(fs.sentences), LAMBDA sents :
        Then(parse_hashtables_blob(fs.hashtables), LAMBDA tables :
        IF \E i \in DOMAIN tokens.value : tokens.value[i].string_id >= Len(strings) THEN Failed
        ELSE Read(Rehydrated(strings, tokens.value, revs.value, paras.value, sents.value,
                             tables.value, fs.meta), 0))))))
  IN  { r.value : r \in { x \in {article_of} : x.ok } }
-----------------------------------------------------------------------------
NoLookup == [on |-> FALSE]

Init ==
  /\ article \in Article
  /\ files = {} /\ opened = {} /\ lookup = NoLookup

(* write_article, when every number fits.  When one does not, it stops in  *)
(* front of the file with that number, as a crash would (SnapshotStore).   *)
Save ==
  /\ files = {} /\ Encodable(project_tokens(article.words))
  /\ files' = {FilesOf(article)}
  /\ UNCHANGED <<article, opened, lookup>>

(* SnapshotReader::open. *)
Open ==
  /\ opened = {}
  /\ \E fs \in files : opened' = {open_dir(fs)}
  /\ UNCHANGED <<article, files, lookup>>

(* RevisionsIndex::get: a binary search in the index table. *)
Get(rev_id) ==
  /\ opened # {} /\ ~lookup.on
  /\ \E fs \in files :
       lookup' = [on |-> TRUE, rev_id |-> rev_id, lo |-> 0, hi |-> fs.revisions.n,
                  done |-> FALSE, found |-> {}]
  /\ UNCHANGED <<article, files, opened>>

Mid == (lookup.lo + lookup.hi) \div 2
Searching(fs) == lookup.on /\ ~lookup.done /\ files = {fs}
MidRevId(fs)  == fs.revisions.index[Mid + 1].rev_id

GetEqual ==
  \E fs \in files :
    /\ Searching(fs) /\ lookup.lo < lookup.hi /\ MidRevId(fs) = lookup.rev_id
    /\ lookup' = [lookup EXCEPT !.done = TRUE,
                    !.found = {RecordAt(fs.revisions, Mid + 1)}]
    /\ UNCHANGED <<article, files, opened>>
GetLess ==
  \E fs \in files :
    /\ Searching(fs) /\ lookup.lo < lookup.hi /\ MidRevId(fs) < lookup.rev_id
    /\ lookup' = [lookup EXCEPT !.lo = Mid + 1]
    /\ UNCHANGED <<article, files, opened>>
GetGreater ==
  \E fs \in files :
    /\ Searching(fs) /\ lookup.lo < lookup.hi /\ MidRevId(fs) > lookup.rev_id
    /\ lookup' = [lookup EXCEPT !.hi = Mid]
    /\ UNCHANGED <<article, files, opened>>
GetNone ==
  \E fs \in files :
    /\ Searching(fs) /\ lookup.lo >= lookup.hi
    /\ lookup' = [lookup EXCEPT !.done = TRUE]
    /\ UNCHANGED <<article, files, opened>>

Next == Save \/ Open \/ (\E r \in Probe : Get(r)) \/ GetEqual \/ GetLess \/ GetGreater \/ GetNone
Spec == Init /\ [][Next]_vars
-----------------------------------------------------------------------------
(* Properties.                                                             *)

(* The article that comes back is the one that was saved: ids and rev_ids  *)
(* that go backwards survive the signed deltas, a hash that occurs twice   *)
(* keeps its ids apart and in order, and a number at the end of its range  *)
(* is neither cut nor refused.                                             *)
SnapshotRoundTrips == \A result \in opened : result = {article}

(* Random access answers as the sequential parser does: get finds every    *)
(* revision and nothing else although the file is in processing order and  *)
(* the table in rev_id order, the walk of the index lists each rev_id once *)
(* and in order, and every string resolves by its id.                      *)
RandomAccessAgrees ==
  opened # {} => \A fs \in files :
    LET revs == parse_revisions_blob(fs.revisions).value
        ids  == rev_ids_sorted(fs.revisions)
        strings == parse_strings_blob(fs.strings)
    IN  IF lookup.on
        THEN lookup.done =>
               { x.value : x \in lookup.found } = { rev \in Range(revs) : rev.rev_id = lookup.rev_id }
        ELSE
        /\ Range(ids) = { rev.rev_id : rev \in Range(revs) }
        /\ \A i, j \in DOMAIN ids : i < j => ids[i] < ids[j]
        /\ \A i \in DOMAIN ids : RecordAt(fs.revisions, i).value.rev_id = ids[i]
        /\ \A id \in 0 .. Len(strings) :
             StringsIndex_get(fs.strings, id) =
               (IF id < Len(strings) THEN {strings[id + 1]} ELSE {})
=============================================================================
