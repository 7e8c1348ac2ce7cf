\* A router over up to three targets, both ways of publishing.
SPECIFICATION FairSpec
CONSTANTS
  Name = {n1, n2, n3}
  Router = r1
  None = None

  
PROPERTIES
  WatchImplementsServing
  WaitEnds
