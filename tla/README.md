# TLA+ models of wikiwho_rust

wikiwho_rust computes who wrote each token of a Wikipedia article. It analyses
an article's revisions in order, keeps the result in a snapshot on disk, keeps
the snapshots current from the wiki's event stream, and answers HTTP requests
from them. This directory holds TLA+ models of its core, the TLC runs that check
them, and TLAPS proofs about them.

Parse a module with `tlasany M.tla`, check a run with
`tlc -workers 2 -config X.cfg M`, check the proofs with `tlapm MProofs.tla`.
`PROJECT.json` lists the runs, the mutants, the hazards, the disagreements
between code and documentation, and, under `map`, the source lines behind every
definition.

## 1. The system

| Component (crate) | State | Operations | Hard to test |
|---|---|---|---|
| Attribution pipeline and cascade (`wikiwho-attribute`: `pipeline.rs`, `cascade.rs`, `structures.rs`, `spam.rs`) | the `Article`: arenas of words, sentences, paragraphs; two hash tables; the revisions; the spam lists | `analyse_revision` | one previous word serving two places; sharing between revisions; roll-back of vandalism found half-way; duplicate or lost inbound/outbound entries |
| difflib port (`differ.rs`) | the matcher's sequences and cached blocks | `differ_compare` | tie-breaking, stale caches, quick bounds that change the result |
| Tokenizer, hashes, Myers diff, rendering (`tokenize.rs`, `diff.rs`, `response.rs`) | none | pure functions | — |
| WhoColor data (`whocolor.rs`) | none | `get_whocolor_data` | events paired by position in two lists |
| WhoColor markup (`whocolor_wikitext.rs`) | the parser: three cursors, the markup entered, an open span, the roster | `inject_spans_into_wikitext` | recursion whose cursors nested calls move; text searched without regard to case and with words for line breaks |
| Tables and codecs (`wikiwho-storage`: `codec.rs`, `tokens.rs`, `revisions.rs`, ...) | none | encoders, parsers, random access | ids that go backwards, equal hashes, ends of ranges, two orders in one file |
| Snapshot files (`wikiwho-storage`: `writer.rs`, `reader.rs`) | seven files per article | `write_article`, `SnapshotReader::open` | crash between files, reader or second writer alongside |
| Sidecar (`rev_id_index.rs`) | `rev_id_index.bin` per language | `load`, `replace_article`, `save` | lost update, shared temporary file, crash before the rename |
| Index rebuild (`rebuild.rs`) | the entries of its walk | `rebuild_one_language` | what crashes left behind |
| Ingest daemon (`wikiwho-ingest`) | the checkpoint in memory and on disk, the stream's last id | `run_ingest`, `apply_event`, `stream_events` | reconnect, crash, batched checkpoint, failed apply, race with a cold build |
| Server (`wikiwho-server`) | in-memory title and rev_id indexes, the in-flight set | request handlers, cache-miss tasks | state read before an await and used after it; slots of failing tasks; index refreshes that cross |
| MediaWiki client (`wikiwho-mwclient`) | a retry loop's counters, a fetcher's `rvcontinue` | `request_json`, `request_json_post`, `request_text`, `next_batch` | mixes of 429, 5xx and transport errors; a history that changes between two pages |

How they interact. The server and the ingest daemon are two processes that share
only the storage volume. The server's cache-miss task fetches an article's whole
history through the client, analyses it and writes the snapshot (a *cold
build*). The daemon, for each event of a page with a snapshot, opens it, fetches
the window after its last good revision, analyses that and writes the snapshot
again. Every write ends with a read-modify-write of the language's sidecar,
which the server loads into memory. Nothing locks across the two processes, and
inside the server only the in-flight set keeps two tasks off one page.

What makes each part correct is what its properties say (section 3). The list
of everything that is hard to test, with the line where it bites and the
properties that cover it, is `hazards` in `PROJECT.json`.

Not modelled, and why:

- the tokenizer and the hashes: character work without state. Attribution takes
  split texts as inputs, and md5 is taken to be free of collisions;
- `diff.rs`, no longer called, and the HTML injection of `whocolor_html.rs`,
  called by its own tests only;
- layout of JSON and HTML, ages (arithmetic on parsed timestamps), query
  parameters, start-up, the health probe, argument parsing;
- server-sent-event framing and the filters on parsed events: an event of Ingest
  is one that passed them;
- CRC and zstd, which tell a whole file from any other, and magic and version;
- the parity and measurement tools, deployment scripts;
- power loss. A crash in these models is a process that stops. The tables and the
  sidecar are synced before they are closed, `meta.json` and the directories are
  not, so after a power loss more may be missing than the models show.

## 2. The modules

Each module can be checked alone and has its environment as actions or inputs.

- **Attribution** — one `Article` fed with revisions. One call of
  `analyse_revision` is a sequence of actions, `pc` naming the loop the call is
  in: arrival (`HashMatch`, `LengthShrink`, `BeginCascade`), the paragraph and
  sentence scans (`ReuseParagraph`, `AllocParagraph`, `ReuseSentence`, ...), the
  tails, the density gate (`DenseVandalism`, `InsertionOnly`, `StartDiff`), the
  word scan (`KeepEntry`, `DeleteEntry`, `InsertEntry`, `FallbackWord`), the
  recorder (`OutboundSentence`, `OutboundParagraph`, `RecordInbound`) and
  `Commit`. Ids are positions in sequences, as in the arenas. Bucket scans are
  deterministic, as in the code. The transcript of a diff is a parameter
  (`Transcripts`): the cascade is checked against *every* edit script, not only
  the one `differ_compare` would choose.
- **TokenHistory** — the abstract specification of Attribution: a page is a list
  of revisions, a revision a list of distinct tokens that spell its text, and a
  token's history says when it came and went. A revision is accepted whole or
  refused without a trace. `ImplementsTokenHistory` in Attribution maps the
  article to it; a call changes the mapped state in one step, its commit.
- **WhoColor** (extends Attribution) — `get_whocolor_data` as an operator on the
  article between two calls, for every assignment of editors to revisions.
- **AttributionSnapshot** (extends Attribution, instantiates SnapshotTables) —
  puts the article in the form of the tables, saves and opens it: what the
  ingest daemon does around every call of `analyse_revision`.
- **Differ** — `differ_compare` itself: `find_longest_match`,
  `get_matching_blocks` and `get_opcodes` as functions, and as actions the work
  of `Differ` through the gaps: the scan for the closest pair, whose second
  matcher keeps its caches from pair to pair, the synch-up, the plain replace.
  `TranscriptIsAnEdit` is what Attribution assumes of a transcript.
- **SnapshotStore** — `write_article`, `SnapshotReader::open` and the sidecar by
  system call: create (truncates in place), fill, and for the sidecar load,
  create the temporary file, write, rename. Paths name inodes, so a rename over
  a file that another writer has open behaves as on Linux. A crash may happen
  between any two steps, and inside a write.
- **SnapshotTables** — the contents of the files: `project_*` of the writer, the
  encoder and parser of each table byte by byte, `open_dir`, and the binary
  search of `RevisionsIndex::get` step by step. A byte has `Payload` values and a
  continuation flag, and the integers have widths `U32` and `I64`.
- **IndexRebuild** (extends SnapshotStore) — `rebuild_one_language` as one more
  process, over files and a sidecar in any state that crashed calls leave.
- **Ingest** — `run_ingest` with `stream_events`, `apply_event` and the
  checkpoint; the server's cold builds race with it. `handled` and `since` are
  history variables: the events `apply_event` has returned for, and where the
  last connection without an id began.
- **Server** — the handlers between their awaits and the steps of a cache-miss
  task. `known` and the fields `floor`, `on_disk` and `mw_failed` of a request
  are history variables, for the properties only.
- **MwClient** — one call of the client: a retry loop, and the paginator with
  the two ways it is drained, against a wiki that adds and removes revisions
  meanwhile. `kept` is a history variable.

- **WikitextSpans** — `inject_spans_into_wikitext`. The recursion of
  `parse_wiki_text` is a stack of frames, one action per way through its loop
  (`JumpIn`, `EndOfElement`, `NormalToken`, `FlushRest`, `EndOfBuffer`). The output
  is a list of slices of the text and of tags. All fifteen kinds of markup are
  there, each with one literal for the tags or words that its pattern lists.

Cuts between modules. In Ingest and Server a snapshot is read and written in
one step; SnapshotStore has the files, and its properties for one writer are
what the other two rely on. They rely on more than two uncoordinated writers
give them, and section 5 says what then happens. Server has an event of the
ingest daemon as one step, Ingest a cold build as two.

The `MC` modules give the constants that a `.cfg` cannot, and the symmetries. The
theorems are in the `...Proofs` modules: `AttributionProofs` (types, spam, the
matching cascade; then histories and the refinement of TokenHistory);
`SnapshotStoreProofs`, with those of IndexRebuild at its end; `IngestProofs`;
`ServerProofs`; `MwClientProofs`; `DifferProofs`; `WikitextSpansProofs`.
`DataLemmas` has the facts about numbers, sequences, flattening and sums that
several of them cite. A definition
marked "seeded fault" belongs to no specification: it is what `mutants` in
`PROJECT.json` puts in the place of the definition it precedes, to see that the
property fails.

## 3. The runs

All configurations but one have `CHECK_DEADLOCK FALSE`: the inputs (revisions,
edits, requests) are bounded, and a system that has used them up stops. What must
happen is stated as liveness where the code promises it. `wikitext_spans` looks
for deadlocks: an injection that has ended stutters (`Done`), and any other state
without a step is one it cannot leave.

| Run | Configuration | What it shows |
|---|---|---|
| `attribution_matching` | 8 texts, 3 revisions | `TokensDistinct`, `ReconstructsText`: a revision is rebuilt word for word from tokens that serve one place each. `HashTablesSound`: the tables hold what the good revisions hold. `TranscriptServesWords`: the transcript never runs short in the word scan, so the fallback allocation of `cascade.rs` 572–579 serves the insertion-only path alone (its comment gives a diff that ran short as the reason for it) |
| `attribution_history` | 5 texts, 4 revisions | `HistoryMatchesPresence`: origin, inbound, outbound and last revision, recorded from the matched sets, agree with the revisions a token is in. `NoSpamInHistory`. `ImplementsTokenHistory`: the refinement; with it, answers once given never change although later calls change shared objects in place. `ConflictScoreCountsReverts`: a score counts the changes after the first deletion that undo another editor's. `ResumeLosesNothing`: the article opened after any call is the one saved |
| `store_one_writer` | 2 pages, 1 writer, 1 reader, 2 versions | `FinishedWriteIsWhole`, `MetaNotAhead`, `PublishedArticleExists`, `NoPartialIndex`, `AckedRevisionsIndexed`, with crashes anywhere |
| `index_rebuild` | 2 pages, 1 writer and the tool, 2 versions | `RebuildRestores`, after crashed writes and with a lost or damaged sidecar |
| `snapshot_tables` | 1 801 articles of up to 3 revisions, 7 lookups each | `SnapshotRoundTrips`, `RandomAccessAgrees` |
| `ingest` | 2 pages in 2 languages, 3 edits, flush every 2 events, 1 stop, 1 failure | `StreamSkipsNothing`, `CheckpointBehindWork`, `SnapshotHasNoGap`, and `EventsHandled`: whatever stops or drops, the events from the start on are all handled in the end |
| `server_misses` | 1 page, 2 requests, rev_content endpoints, both spellings, 1 failure or panic | `OneTaskPerPage`, `IndexMissStillServes` |
| `server_slots` | 1 page, 2 requests, by page id and WhoColor, 1 failure | `SlotReleased`, `MissIsBuilt` |
| `mwclient` | 4 revisions, 2 a page, 2 attempts, a budget of 3 s, Retry-After 1, 2 or 5 s | `WindowIsWhole`, `SendsBounded`, `CallReturns` |
| `differ` | all pairs of lists of up to 3 of 4 tokens | `TranscriptIsAnEdit`, `CruncherIsFresh`, `ClosestPair`, `LongestMatch` |
| `wikitext_spans` | all texts of up to 4 of 13 pieces | `TextPreserved`, `SpansBalanced`, `TokensInPlace`, `RosterIsExact`, `NoSpanInFlatTemplate`, and `InjectionAdvances`, which with the search for deadlocks says that the recursion ends |
| `store_lost_update` | 2 writers | a counterexample to `AckedRevisionsIndexed` |

Attribution and SnapshotStore have their type invariant checked by a run, since
it is also what is proved; the others state theirs for the reader, as the
properties of their runs fail on a value out of its type.

### Why the bounds are enough

- *Attribution.* Three revisions are the least in which a token leaves and
  returns or a spam revision stands between two good ones; four let it leave
  twice, or return after a spam revision that matched it. The texts repeat a
  paragraph, repeat one with different white space and the same sentence, split
  and reorder, empty the page, and make a sentence of words that stand in two
  others, so that every branch of the bucket scans (open, free, spent) is
  reached at both levels. Lengths are such that both the length-shrink test and
  the density gate (limit 2 instead of 20) fire. More texts or revisions repeat
  these shapes.
- *SnapshotStore.* Two versions tell old from new; two pages tell a page's
  entries from another's; the write order is followed file by file whatever the
  bounds. Pages are symmetric. The reader has no effect on the writers and one
  shows all a reader can see.
- *IndexRebuild.* Two pages are one that is found whole and one that is not, in
  either order of the walk. No article has a revision of another here, as on a
  wiki, so the collision check of the index never fires.
- *SnapshotTables.* With `Payload` = 4, `U32` = 3 and `I64` = 15 a rev_id takes up
  to two bytes and the widest delta three, the last one only partly used, as with
  7 of 64 bits; the numbers include both ends of each range, and one rev_id past
  `I64`, which is refused. The orders of revisions go up and down; two paragraphs
  and two sentences have the same hash.
- *WikitextSpans.* Four pieces nest, cross, or leave open two kinds of markup with
  a word between them. The pieces have a block that forbids spans, two that allow
  them, one inside the other's pattern (`[` and `[[`), a tag, a heading, a capital
  that lower-cases to two characters, a line break, and a token the text has not.
  The counterexamples of section 5 have their own pieces.
- *Ingest.* Three edits with a flush every two events put a crash before,
  between and after flushes; two languages let the header come from the one that
  is behind. One stop and one failure are enough for each of the code's retry
  paths; they may fall on any step. The edits of one page are good, spam or
  hidden, those of the other are good (`kinds`): it is there to move the other
  language's checkpoint.
- *Server.* Two requests are the least that race for a slot; a third adds only
  another loser. The pages share the indexes, so the run about a lost refresh
  has two.
- *MwClient.* Four revisions in pages of two make a fetch resume twice and a
  removed revision sit at, before and after the continuation. Retry-After values
  below, at and above what is left of the budget are all there.
- *Differ.* One-sided, empty, equal and all mixed lists; tokens that are just at
  the cutoff, above and below it, one repeating a character; the autojunk
  thresholds are lowered so that lists of three reach them.

### Fairness

- *Attribution*, *WikitextSpans*: none. They are sequential; their properties are
  about what a step may do.
- *MwClient*: weak fairness of the client's step. Each request has a timeout
  (`request_timeout`), so it ends.
- *Server*: weak fairness of each handler and each task: the runtime polls what
  is ready. Nothing is assumed of new requests, edits or of the daemon.
- *Ingest*: weak fairness of the daemon's own steps, of its restart (systemd's
  `Restart=on-failure` in `deployment/`, and the redeploy script after a clean
  stop) and of the second half of a cold build;
  strong fairness of the delivery of an event, since a connection may be dropped
  again and again: the stream is assumed to get through in the end. Stops and
  failures are bounded, and never fair.

## 4. The proofs

TLC checks the instances above. TLAPS proves the following for every value of
the constants that satisfies the `ASSUME`s of the modules: any number of pages,
texts, revisions, writers, requests, any order of steps. A hypothesis beyond
those is named.

### Attribution

- `AttributionProofs!TypeCorrect`, `Spec => []TypeOK`. The invariant is
  inductive as it stands, because it says of every list of ids that its members
  are allocated. One lemma per action; `IdsGrow` lifts what is known of the lists
  to a longer arena, and the `...RowsType` lemmas say what a bucket scan can
  reach. `SplitAssumption` (every sentence has a token, the split functions are
  functions to sequences) is used, as the tokenizer never returns an empty
  sentence.
- `AttributionProofs!SpamLeavesNoTrace`, `Spec => []NoSpamInHistory`. The
  revision being analysed must not be named anywhere before the density gate is
  past. The inductive step follows the actions that write an origin, an inbound,
  an outbound or a last revision, all of them after the gate, and shows that
  `Commit` stores the revision they named.
- `AttributionProofs!MatchingCorrect`, `Spec => []MatchInv`, and from it
  `TablesAreSound` (`HashTablesSound`), `DistinctTokens` (`TokensDistinct`) and
  `TextReconstructed` (`ReconstructsText`). None of the three properties is
  inductive: each is about stored revisions, and what a call will store is built
  over hundreds of steps. `MatchInv` has three parts. `ArticleInv` is about what
  the article knows (the ids in the two tables): the tables are the stored
  revisions' parts, each known sentence and paragraph is *whole*, that is, spelled as
  its hash is split, and within a stored revision no two parts share a token.
  `WorkInv` is about what the call has built, and never looks at where it is:
  new ids are not known ids; the current list spells a beginning of the text; its
  parts are apart; and, which is what carries the proof, everything known that
  the current list uses is in the matched sets (`Apart`). A bucket scan only takes
  rows with no matched member, so what it adds is apart from what is there.
  `LoopInv` says how far each loop has come: what is not on its `todo` list is
  whole. At `Commit` no list is left, so all is whole, and the new parts become
  known. The transcript of the diff is arbitrary: words are apart whatever it
  says, because `matchedT` is looked at before a word is kept. That a list of
  whole parts spells the text is a fact about `FlattenSeq` (`FlattenMap` of
  DataLemmas).
- `AttributionProofs!HistoryTellsPresence`,
  `Spec => []HistoryMatchesPresence`. The recorder writes inbound and outbound
  entries from the matched sets, in passes over lists that earlier loops left
  behind, and never compares two revisions. `HistInv` says why that is enough:
  - `WordsKnown`: a word of the stored revisions is `Kept` (its lists count right
    for each stored revision, an earlier entry of a list is a stored revision,
    its last revision is right), and one that the call allocated is `Fresh`;
  - `MatchedInUse`: what is matched is in use again, or, once the words are
    scanned, is of the revision before and has been recorded as gone; what is
    known and in use will be met by the inbound passes;
  - `LeftOver`, `AllListed`: what matching left of the revision before is on the
    unmatched lists, each part once, and nothing of it is on none of them;
  - `GoneWords`: during the outbound passes a word has been recorded as gone
    exactly if it stands in what the pass has gone over (`GoneInPass`); at
    `Commit`, exactly if it was in the revision before and is not in this one, and
    brought back exactly if it was not in the one before and is in this one.

  `CountAll` then turns one entry more or none into the count of `Ins` and `Outs`
  at the new revision. A word gone by a deletion of the diff must not be recorded
  again by the passes (no duplicate): that is why `GoneWords` excludes matched
  words, and a deletion marks its word matched.
- `AttributionProofs!TokenHistoryImplemented`,
  `Spec => ImplementsTokenHistory`: Attribution implements TokenHistory, step by
  step. A step is one of three kinds.
  - Most show nothing (`StepHidden`, `HiddenShowsNothing`). A call in progress
    allocates words, which no stored revision has, and adds itself to histories of
    words that are stored: it is the last entry of such a list (`HistInv`), and
    `StoredOnly` in the mapping takes it away.
  - An arrival that is refused, or the density gate, adds the revision to
    `spam_ids` and shows nothing else: `Refuse`.
  - `Commit` shows all at once (`CommitAccepts`). The tokens of the new revision are
    those of `curr` (`CommittedTokens`, from the theorems on distinct tokens and on
    spelling), and at this point `GoneWords` says of every known word whether the
    call has recorded it as gone or come back: just as `Updated` of TokenHistory
    wants it, by comparison of the two revisions (`EntryAtCommit`).

  Beyond `MatchInv` and `HistInv` this needs `RefInv`, which TLC was asked first:
  `SpamFed` and `LastStored` (the call's revision is newer than any fed, and
  compared with the last one accepted, refused ones in between notwithstanding),
  `WordsDense` (the words of stored revisions come before those of the call, so a
  token's identifier is for ever) and `NullEdit`: while a text equal to the one
  before is scanned, the paragraphs found are the ones of that revision, each in
  its place. The next one is free, because nothing but its predecessors is
  matched and they share no token with it (`SameTextIs`), and the scan meets it
  before any other of its hash that is free (`NullEditReuse`).

### Differ

Tokens may be any set of sequences, texts of any length, and the thresholds of
autojunk any numbers (`DifferAssumption`).

Differ has two recursive functions, and the provers know nothing of one before a
function that solves its equation is shown to exist. For `Run`, the table of
common runs that end at a pair of places, that function is the longest such run
(`LongestEndExists`, `RunExists`), which at once says what `Run` computes
(`RunIs`). For `get_matching_blocks` it is by the width of the window, since both
sides of a match are narrower (`SidesOfMatch`, `SplitsExist`).

- `DifferProofs!LongestMatchFound`, `Spec => []LongestMatch`: the seed is the
  longest run, and the first in the order of the scan (`SeedIs`, `FirstIs`); a
  block of any window ends in a cell whose run is as long (`BlockEnds`), so the
  extension that follows, meant for popular elements, finds nothing when there
  are none (`LongestMatchIs`). With popular elements what is proved is that the
  result matches and lies in its window (`LongestMatchInWindow`).
- `TranscriptIsAlwaysAnEdit`, `Spec => []TranscriptIsAnEdit`: what Attribution
  assumes of a transcript. The inductive invariant `DifferInv` has two parts.
  `TranscriptInv`: there is a pair of places up to which the output reads as both
  texts (`ReadUpTo`), and what is still to do is a list of windows from there to
  both ends, without a gap, the equal ones with equal sides (`Covers`). `ProbeInv`:
  the scan is over the first of them, and the pairs it remembers are cells of it,
  an equal pair of the same token. It starts true as the blocks are a chain, in
  order and apart, so that the opcodes leave nothing out (`MatchingBlocks`,
  `OpcodesCover`); a synch-up keeps it as the pair and the gaps on its two sides
  cover the window (`SplitCovers`), and a replace in either order stands for its
  window (`ReplaceStands`).
- `CruncherIsAlwaysFresh`, `Spec => []CruncherIsFresh`, with the types of the
  matcher (`CruncherInv`).
- `ClosestPairIsChosen`, `Spec => []ClosestPair`. `ClosestInv` says of a scan at
  (i, j) that of the pairs before it, in the order of the loops, it has the
  closest, the first of equally close ones (`ClosestSoFar`), and that the cruncher
  holds the token of this row. That a pair which the two bounds turn away would
  not have been taken is the heart of it: each pair of places that the blocks
  match has a row and a column of its own (`MatchedPairs`), so an element is
  matched at most as often as either token has it, and the number of matches is at
  most that of `quick_ratio` and of `real_quick_ratio` (`MatchesBounded`, by
  `SumBounds` of DataLemmas); ratios of the same two tokens compare as their
  numerators (`RatioOfTokens`). The ratios are exact fractions here; the code
  computes the three in floats from integers by the same formula, which is
  monotone.
- `TypesHold`, `Spec => []TypeOK`.

### Storage

- `SnapshotStoreProofs!TypeCorrect` needs `JobOK` (a call in progress has a page
  and a version), and `FreshIsFree`: writers hold at most one descriptor each
  and the two paths one inode each, so a free inode is left, by counting.
- `IndexedArticlesExist`, `Spec => []PublishedArticleExists`,
  for *any* number of writers. `PublishedArticleExists` is not inductive: what is
  in the index came from a writer's memory and through an inode. `FilesBehind`
  says of a writer at file n that the files before n exist, and of one at the
  sidecar that all do; `EntriesBacked` says that every entry in any inode and in
  any writer's memory is of an article with all its files. Files are never
  removed (`FilesStay`), and a lost update loses entries and invents none: that
  is why this holds without a lock.
- `FinishedIsWhole`, `MetaIsNotAhead`, `IndexIsWhole` and `AckedAreIndexed` have
  the hypothesis `OneWriter` (at most one process writes a language's files),
  which nothing in the code enforces; with two, TLC refutes each of the four
  (section 5 has three). `FilesInv` serves the first two: a call has put its version
  into each file it is past (`CallOK`), no file is older than a `meta.json` that
  can be read (`MetaOldest`), and nothing a reader has still to read is older than
  the `meta.json` it began with (`Reads`). `SidecarInv` serves the other two: the
  call that saves holds the index with its own article replaced, and the
  temporary file it fills is the one in the directory (`Saving`), so that a
  temporary file left by a crash is filled anew before it is renamed.
- `RestoresIndex`, `RebuildSpec => []RebuildRestores`, for any number of writers
  when the services run. While the tool works all others are idle (`Alone`), and
  what it holds is what is to be scanned of the directories behind it (`Walked`).

### Ingest, server, client

- `IngestProofs!SkipsNothing` and `CheckpointIsBehind`. One inductive invariant,
  `StreamInv`, in which one idea is said of each of the four ids that say how
  far the daemon is, two of them per language (`durable`, `checkpoint`, the
  client's `last_event_id`, the stream's `position`): every wanted event up to
  that id, after the last start without one, is handled (`Behind`); for the
  client's and the stream's, the event at work counts. A start takes any of the
  durable ids, so it must hold of every language's.
- `IngestProofs!SnapshotsAreWhole`: `SnapshotHasNoGap`. `SnapInv` says of every
  snapshot, and of the article `apply_event` holds, that it is whole (`Whole`):
  the good revisions up to its last one, in order, with the spam among them; of
  the article held, that it ends before the event; of a cold build, that it has
  fetched edits that were made. `AnalyseIs` then covers both writers: to analyse
  the window from the end of a whole article to any later edit gives a whole one,
  whatever the other writer did meanwhile. That the snapshot is the list a cold
  build would make, and not only names the same revisions, is `SameAscending`: two
  lists that go up and name the same ids are one.
- `ServerProofs!TypeCorrect`, and `OneTask`, `Spec => []OneTaskPerPage`, which is
  inductive with the types: a claim sees a free slot, so no task of the page
  runs; and a slot is given back only by the step that ends its task.
- `ServerProofs!MissesServe`, `FirstRevisionGood => (Spec => []IndexMissStillServes)`.
  `ServedInv` adds that a snapshot is never taken away, that a request of a page
  that was on disk has not passed the two looks at the disk (`NotPast`), and that
  what a task persists has a revision. `FirstRevisionGood` (the oldest
  revision of no page is taken for vandalism) is a real restriction: the density
  gate can refuse a first revision of one phrase many times over. It is needed: a
  cold build for revision 1 may then replace a newer snapshot by one with nothing
  to serve, and TLC, given such a page, shows a request that is told to wait. It
  is the write of `MCServerShrink` (section 5).
- `MwClientProofs!RetriesAreBounded`: `SendsBounded`, assuming `Waits` (no
  Retry-After of 0). The inductive invariant `Paid`: attempts stay below
  `retry_max_attempts` plus the seconds slept. A retry after an error needs an
  attempt below the limit; a retry after a 429 sleeps a second at least, which is
  the assumption, and sleeping stays in the budget.
- `MwClientProofs!WindowsAreWhole`, `Spec => []WindowIsWhole`, without it.
  `WindowInv` says that what has been collected is in order, after the start and
  before `rvcontinue`, and has every revision before `rvcontinue` that was there
  all along. That a page is the next so many revisions and ends where the
  next begins is a fact about ranks (`RankOrder`, `ListedInOrder`, `PageOrder`).

### WikitextSpans

Pieces may be any characters and tokens, so texts are any texts (`SpansAssumption`
says that they are sequences, and that the placeholder of a line break is not
empty, as the constant in the code is).

- `WikitextSpansProofs!TextIsPreserved`, `Spec => []TextPreserved`;
  `SpansAreBalanced`, `Spec => []SpansBalanced`; `EveryStepAdvances`,
  `Spec => InjectionAdvances`; and `SpanTypes`. None of the properties is inductive:
  a slice is cut from the cursor to an end that the call found when it began, or
  when it was last returned to, and the cursor has moved since. `IInv` says why
  that end is never behind it (`LooksAhead`): a token is only passed when it ends
  before the element does (`Outer`), and the cursor passes markup to come only
  when it lies outside of the element, so whoever descends, does so at the cursor
  or beyond it. `Calls` has the rest: a call that made another has markup with an
  end of its own, so a return finds an end at or beyond the cursor again
  (`ElementEnd`; `MarkupTable` looks at all fifteen kinds); and the outermost call
  has no element, so that it is left with the whole text written and no span open.
  `Written` is about the output alone (`AddText`, `AddTag`). Where regular
  expressions and the search for tokens match is left open but for this: inside
  the text, and at the cursor or beyond it (`FindPlace`, `SearchEnd`).

### What is only model-checked

- Liveness (`EventsHandled`, `SlotReleased`, `MissIsBuilt`, `CallReturns`):
  beyond this prover, with ENABLED.
- What goes through `SelectSeq`, which the Sequences module defines by a
  recursion that the provers do not see: `TranscriptServesWords`,
  `ConflictScoreCountsReverts`.
- `TokensInPlace` and `RosterIsExact` of WikitextSpans do not hold of every set
  of pieces: a token whose letters occur before it, in the placeholder of a line
  break or in another word, is found there (section 5). `NoSpanInFlatTemplate`
  counts braces by pieces, which says something of pieces like the run's only. The
  run says that the three hold of its thirteen pieces.
- What the recursive functions of SnapshotTables compute for every input
  (`SnapshotRoundTrips`, `RandomAccessAgrees`), and `ResumeLosesNothing`, which
  goes through the tables. The library's induction rules take an operator as a
  parameter, which the installed provers cannot instantiate; DataLemmas argues
  from a least counterexample instead (`LeastNat`, by well-founded induction on a
  relation), which gives `FlattenMap` and the sums, and DifferProofs the blocks.
  The same can be done for the codecs, one by one, and has not been.

## 5. Where code and documentation disagree

One disagreement, the lost update, is a run (section 3). The others have a
configuration each, to be run in the same way; `findings` in `PROJECT.json` quotes
the lines.

| Configuration (module) | Property violated | What happens |
|---|---|---|
| `SnapshotStoreTornRead` (SnapshotStore) | `OpensOneVersion` | a reader opens tables of two versions |
| `SnapshotStoreMixedWrites` (SnapshotStore) | `FinishedWriteIsWhole` | two writers of a page leave files of two versions |
| `SnapshotStorePartialIndex` (SnapshotStore) | `NoPartialIndex` | a writer renames the temporary file another is writing |
| `MCServerPanic` (MCServer) | `SlotReleased` | an error page cut inside a character panics a cache-miss task, whose slot stays taken |
| `MCIngestColdRace` (MCIngest) | `KeepsExistingCurrent` | an edit during a cold build is dropped by the daemon and is not in the build |
| `MCWikitextSpansNested` (MCWikitextSpans) | `NoSpanInTemplate` | a span inside a template that contains another |
| `MCWikitextSpansLineBreak` (MCWikitextSpans) | `TokensInPlace` | a token found in the placeholder of a line break |
| `MCIngestSpam` (MCIngest) | `SpamListedOnce` | spam after the last good revision is listed again |
| `MCIngestFirstFlush` (MCIngest) | `RestartOnlyReplays` | a crash before the first flush skips events |
| `MwClientPinned` (MwClient) | `CallReturns` | Retry-After: 0 for ever is obeyed for ever |
| `MCServerShrink` (MCServer) | `LatestNeverGoesBack` | a cold build for an older revision replaces a newer snapshot; when that revision is the first and taken for vandalism, nothing is left to serve (`FirstRevisionGood` in section 4) |
| `MCServerRefresh` (MCServer) | `NextRequestHitsDisk` | two index refreshes cross, the older one stays |
| `MCServerBadRequest` (MCServer) | `BadRequestMeansGone` | 400 for a revision newer than the snapshot |
| `MCServerJoined`, `MCServerWhoColor` (MCServer) | `ProcessingIsTemporary` | "available soon" with nothing on its way |
| `MCServerAlias` (MCServer) | `RebuildsOnlyMissing` | WhoColor by another spelling rebuilds a page on disk |

Met on the way and in no model: a chunk boundary inside a character is decoded
lossily (`events.rs` 227–230 says otherwise); the resume header may come from a
language that is no longer configured (`checkpoint.rs` 97); ids of filtered
events are kept in memory only, so a restart replays them (`events.rs` 239);
`cancelled()` may miss a cancel between its check and its wait
(`ingest/src/lib.rs` 89–94), which delays a shutdown by one sleep.

## 6. The plan

Done, in this order: Attribution, SnapshotStore, Ingest, Server, MwClient,
Differ and the theorems of section 4; then TokenHistory and the refinement,
WhoColor, SnapshotTables, AttributionSnapshot, IndexRebuild, WikitextSpans; then
the proofs of section 4 about matching, the histories, the refinement of
TokenHistory, the store with one writer, the rebuild, the ingest stream, the
server's slots and misses, the paginator, the injection of spans, and
`differ_compare`. To come:

1. *Prove.* The codecs and the binary search of SnapshotTables, and with them
   that a saved article is the one that is opened.
2. *Model.* Frames of server-sent events across chunk boundaries; Server, Ingest
   and SnapshotStore on one volume, which today meet through the cuts of
   section 2.
