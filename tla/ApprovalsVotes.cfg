\* One request, every origin of votes, routing and people that change.
CONSTANTS
  c1 = c1
  c2 = c2
  c3 = c3
  i1 = i1
  i2 = i2
  g1 = g1
  dana = dana
  danaLink = danaLink
  sam = sam
  samSlack = samSlack
  rae = rae
  key = key
  uDana = uDana
  uSam = uSam
  uRae = uRae
  eDana = eDana
  eSam = eSam
  NoGroup = NoGroup
  NoId = NoId
  Kind <- MCKind
  IdentsOf <- MCIdentsOf
  UserIds <- MCUserIds
  Emails <- MCEmails
  Groups = {g1}
  Calls = {c1}
  Ids = {i1}
  Voters = {dana, danaLink, sam, samSlack, rae, key}
  Admin = {sam, samSlack}
  Routings <- AllThree
  Resolutions <- RaeOrNobody
  Recipients = {eSam}
  TTL = 1
  UseWindow = 1
  MaxNow = 0
SPECIFICATION Spec
INVARIANT QuorumOfPeople
