CONSTANTS
  Txn = {t1, t2, t3}
  Table = {tab}
  Record = {r1}
SPECIFICATION FairSpec
INVARIANTS
  TypeOK
  GrantedCompatible
  RegroupIsFold
  RefusalJustified
  GroupIsStrongest
  LockSetExact
  RecordExclusion
PROPERTIES
  HeldNeverWeakens
  FailedReleasesAll
