SPECIFICATION FairSpec
CONSTANTS
  r1 = r1
  r2 = r2
  None = None
  Reqs <- TwoReqs
  LineMax = 2
INVARIANTS TypeOK AnsweredOnce LineFits
PROPERTIES AnswerRefined DiscoverAnswered SessionEnds
