CONSTANTS
  Token <- MCToken
  SentenceHash <- MCSentenceHash
  ParagraphHash <- MCParagraphHash
  Text <- HistoryText
  NoText = NoText
  split_tokens <- mc_split_tokens
  split_sentences <- mc_split_sentences
  split_paragraphs <- mc_split_paragraphs
  text_len <- mc_text_len
  REMOVE = {}
  TOKEN_DENSITY_LIMIT = 2
  PREVIOUS_LENGTH = 5
  CURR_LENGTH = 4
  Transcripts <- EditScripts
  MaxRevisions = 4
  Editor = {e1, e2}
  bytes <- mc_bytes
  saved_id <- mc_saved_id
SPECIFICATION Spec
INVARIANTS HistoryMatchesPresence NoSpamInHistory ConflictScoreCountsReverts ResumeLosesNothing
PROPERTY ImplementsTokenHistory
CHECK_DEADLOCK FALSE
