SPECIFICATION MCSpec
CONSTANTS
  ann = ann
  bob = bob
  VoterSecrets = {ann, bob}
  RoleSecrets = {"organizer-secret", "publisher-secret"}
  Credentials <- SomeCredentials
  Roots <- SomeRoots
  Members <- SomeMembers
  InitialRoot = "deployed"
  Salts = {"s1", "s2"}
  OrganizerKey <- TheOrganizerKey
  RootPublisherKey <- ThePublisherKey
  Policy <- AdultsOfCL
  TreeCapacity = 2
  MaxTime = 3
  o1 = o1
  o2 = o2
  Voters = {ann, bob}
  Openings = {o1, o2}
  ChoiceOf <- SomeChoices
  MayUse <- SomeOpenings
  CountArgs <- SomeArgs
  Capacity = 2
  MaxStarts <- TwoStarts
  MaxCrashes = 1
CHECK_DEADLOCK FALSE
INVARIANTS
    OneBallotPerVoter
    TallyIsOfCastBallots
    TallyIsTrue
    CountIsWhole
PROPERTIES
    NoVoteAfterReveal
    ElectorateSettles
    V2CountEnds
