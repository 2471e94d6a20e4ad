SPECIFICATION FairSpec
CONSTANTS
  Station = {0, 1, 2}
  MaxMaster = 2
  MaxInfoFrames = 2
  Npoll = 3
  Nretry_token = 1
  Tno_token = 7
  Tslot = 1
  Tusage_timeout = 4
  MaxSilence = 11
  Nmin_octets = 1
  Request = {r1, r2}
  r1 = r1
  r2 = r2
  Lines <- MCLines
  ForeignFrames <- MCForeign
  FifoLength = 16
INVARIANTS
  TypeOK
  OneHolderUnlessDisturbed
  TwoInTime
  AnswerFitsRequest
PROPERTIES
  Settles
  TokenReachesAll
