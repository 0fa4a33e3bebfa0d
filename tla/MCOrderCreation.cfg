SPECIFICATION FairSpec
CONSTANTS
  r1 = r1
  r2 = r2
  r3 = r3
  u1 = u1
  k1 = k1
  n1 = n1
  n2 = n2
  NoKey = NoKey
  NoNumber = NoNumber
  Requests <- ThreeRequests
  Automatic <- TwoAutomatic
  Users <- OneUser
  UserOf <- SentBy
  KeyOf <- SentWith
  Numbers <- TwoNumbers
  Deployments <- AnyDeployment
  Opening = 5
  Price = 2
  MaxCollisions = 1
  MaxFaults = 1
  MaxCrashes = 1
INVARIANTS TypeOK FundsExplained OneOrder HonestAnswer DispatchedOnce
PROPERTY Answered
