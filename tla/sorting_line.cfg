\* Two passports, two identifiers, a window of two ticks.
CONSTANTS
  NoDpp = NoDpp
  NoEpc = NoEpc
  BadEpc = BadEpc
  Dpps = {d1, d2}
  Epcs = {e1, e2}
  Window = 2
  Standing = e1
SPECIFICATION FairSpec
INVARIANT TypeOK
PROPERTY AnswersWereTrue
PROPERTY SettledReadsAreExact
PROPERTY NothingSlipsThrough
PROPERTY StandingItemIsCommanded
