--------------------------- MODULE MCSnapshotTables ---------------------------
(***************************************************************************)
(* Instances of SnapshotTables: articles of up to three revisions whose    *)
(* rev_ids go backwards, with two paragraphs and two sentences of the same *)
(* hash.  With Payload = 4, I64 = 15 and U32 = 3 a rev_id is at most two   *)
(* bytes and the widest delta a third one that is half used, as 64 is no   *)
(* multiple of 7.                                                          *)
(***************************************************************************)
EXTENDS SnapshotTables

mc_word(value, origin, last, ins, outs) ==
  [value |-> value, origin_rev_id |-> origin, last_rev_id |-> last,
   inbound |-> ins, outbound |-> outs]

(* The orders in which the algorithm met the revisions. *)
mc_orders == { <<>>, <<9>>, <<9, 2>>, <<2, 5, 9>>, <<9, 15, 2>>, <<15, 2, 0>>, <<5, 16>> }

(* The histories of a token that stays, goes, or comes and goes. *)
mc_histories(o) ==
  LET r(i) == o[IF i <= Len(o) THEN i ELSE Len(o)]
  IN  { mc_word(<<1>>, r(1), r(3), <<>>, <<>>), mc_word(<<1, 6>>, r(1), r(1), <<>>, <<r(2)>>),
        mc_word(<<>>, r(2), r(3), <<>>, <<>>), mc_word(<<1>>, r(1), r(3), <<r(3)>>, <<r(2)>>),
        mc_word(<<7>>, r(3), r(3), <<>>, <<>>) }

mc_hash == <<5>>
mc_other_hash == <<5, 0>>
mc_buckets(hashes, ids) ==
  [h \in Range(hashes) |->
     LET own == SelectSeq([i \in DOMAIN hashes |-> <<hashes[i], ids[i]>>], LAMBDA x : x[1] = h)
     IN  [k \in DOMAIN own |-> own[k][2]]]

(* Four words in three sentences in three paragraphs, two of them alike;   *)
(* the revisions hold them in different orders.                            *)
mc_article(order, words, lists, adds) ==
  [words |-> words,
   sentences |-> << [hash_value |-> mc_hash, words |-> lists],
                    [hash_value |-> mc_other_hash, words |-> <<2, 0>>],
                    [hash_value |-> mc_hash, words |-> <<>>] >>,
   paragraphs |->
     << [hash_value |-> mc_hash, ordered_sentences |-> <<mc_hash, mc_other_hash, mc_hash>>,
         sentences |-> mc_buckets(<<mc_hash, mc_other_hash, mc_hash>>, <<2, 1, 0>>)],
        [hash_value |-> mc_other_hash, ordered_sentences |-> <<>>,
         sentences |-> mc_buckets(<<>>, <<>>)],
        [hash_value |-> mc_hash, ordered_sentences |-> <<mc_hash>>,
         sentences |-> mc_buckets(<<mc_hash>>, <<0>>)] >>,
   paragraphs_ht |-> mc_buckets(<<mc_hash, mc_other_hash, mc_hash>>, <<2, 1, 0>>),
   sentences_ht |-> mc_buckets(<<mc_hash, mc_hash, mc_other_hash>>, <<0, 2, 1>>),
   ordered_revisions |-> order,
   revisions |-> [r \in Range(order) |->
     LET hashes == IF r = 2 THEN <<mc_hash, mc_other_hash, mc_hash>> ELSE <<mc_hash>>
         ids    == IF r = 2 THEN <<2, 1, 0>> ELSE <<IF r = 9 THEN 0 ELSE 2>>
     IN  [timestamp |-> <<3, 3>>, editor |-> IF r = 9 THEN <<>> ELSE <<r % 8>>,
          length |-> U64 - r, original_adds |-> adds,
          ordered_paragraphs |-> hashes, paragraphs |-> mc_buckets(hashes, ids)]],
   last_good_rev_id |-> IF order = <<>> THEN 0 ELSE Last(order),
   next_token_id |-> 4, spam_ids |-> <<7, 3>>, spam_hashes |-> {"h1", "h2"}]

mc_articles ==
  UNION { { mc_article(o, <<w1, w2, w3, w1>>, lists, IF lists = <<>> THEN 0 ELSE U32) :
              w1 \in mc_histories(o), w2 \in mc_histories(o),
              w3 \in { w \in mc_histories(o) : Len(w.outbound) = Len(w.inbound) },
              lists \in { <<>>, <<3, 1, 2>>, <<0, 3>> } } :
            o \in mc_orders \ {<<>>} }
    \cup { [mc_article(<<>>, <<>>, <<>>, 0) EXCEPT !.sentences = <<>>, !.paragraphs = <<>>,
              !.paragraphs_ht = mc_buckets(<<>>, <<>>), !.sentences_ht = mc_buckets(<<>>, <<>>)] }

mc_probe == {0, 2, 5, 8, 9, 15, 16}
=============================================================================
