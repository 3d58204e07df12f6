CONSTANTS
  p1 = p1
  p2 = p2
  en = en
  simple = simple
  Page = {p1, p2}
  NoPage = NoPage
  Lang = {en, simple}
  language <- mc_language
  kinds <- mc_kinds
  checkpoint_every = 2
  MaxEdits = 3
  MaxStops = 1
  MaxFailures = 1
SPECIFICATION FairSpec
INVARIANTS StreamSkipsNothing CheckpointBehindWork SnapshotHasNoGap
PROPERTY EventsHandled
CHECK_DEADLOCK FALSE
