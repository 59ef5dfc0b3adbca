SPECIFICATION Spec
CONSTANTS
  Unasked = Unasked
  Ids = {1, 2, 3, 4}
  LegacyIds = {2}
  LastInstant = 1
  Skew = 1
  NoAnswer = NoAnswer
  Councils = {t1, t2}
  MAX_ENTRIES = 3
  MaxAppends = 6
  t1 = t1
  t2 = t2
  officer = officer
  admin = admin
  TPS = TPS
  PH = PH
  pack = pack
  notice = notice
  content = content
  forged = forged
  Null = Null
  Tasks = {t1, t2}
  Users = {officer, admin}
  HomeOf <- MCHomeOf
  Admins = {admin}
  DocIds = {pack, notice}
  TenantOfRef <- MCTenantOf
  Contents = {content}
  Altered = forged
  MaxEntries = 2
  ReadLimit = 1
  MaxRequests = 2
  MaxTime = 1
INVARIANTS
  IntactTablesAreClean
  TamperingShows
  SurvivorsAreContiguous
  OnlyCutsBreak
  VerifiedMeansGenuine
  DeliveredCopiesVerify
CHECK_DEADLOCK FALSE
