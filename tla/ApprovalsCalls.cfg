\* Two tool calls, a retry that may need a second request, one admin and an API key.
CONSTANTS
  c1 = c1
  c2 = c2
  c3 = c3
  i1 = i1
  i2 = i2
  g1 = g1
  dana = dana
  danaLink = danaLink
  sam = sam
  samSlack = samSlack
  rae = rae
  key = key
  uDana = uDana
  uSam = uSam
  uRae = uRae
  eDana = eDana
  eSam = eSam
  NoGroup = NoGroup
  NoId = NoId
  Kind <- MCKind
  IdentsOf <- MCIdentsOf
  UserIds <- MCUserIds
  Emails <- MCEmails
  Groups = {g1}
  Calls = {c1, c2}
  Ids = {i1, i2}
  Voters = {sam}
  Admin = {sam}
  Routings <- OnePlain
  Resolutions <- Nobody
  Recipients = {}
  TTL = 1
  UseWindow = 2
  MaxNow = 2
SPECIFICATION FairSpec

INVARIANT OneOpenRequest
INVARIANT DenialStands
INVARIANT RunsOnlyApproved
PROPERTY ImplementsPermit
PROPERTY EveryCallAnswered
