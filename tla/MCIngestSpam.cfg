CONSTANTS
  p1 = p1
  p2 = p2
  en = en
  simple = simple
  Page = {p1}
  NoPage = NoPage
  Lang = {en, simple}
  language <- mc_language1
  kinds <- mc_kinds1
  checkpoint_every = 2
  MaxEdits = 3
  MaxStops = 0
  MaxFailures = 0
SPECIFICATION Spec
INVARIANT SpamListedOnce
CHECK_DEADLOCK FALSE
