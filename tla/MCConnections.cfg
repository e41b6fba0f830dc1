SPECIFICATION Spec
CONSTANTS
  e1 = e1
  e2 = e2
  c1 = c1
  c2 = c2
  s1 = s1
  b1 = b1
  b2 = b2
  x1 = x1
  x2 = x2
  n1 = n1
  n2 = n2
  tb1 = tb1
  tb2 = tb2
  t1 = t1
  t2 = t2
  None = None
  Environment <- MCEnvironment
  Catalog <- MCCatalog
  Store <- MCStore
  Backend <- MCBackend
  Secret <- MCSecret
  Name = {n1, n2}
  Type = {"jdbc", "hive"}
  Table = {tb1, tb2}
  Thread = {t1, t2}
  Start <- MCStart
  MaxRequests = 3
SYMMETRY MCSymmetry
CHECK_DEADLOCK FALSE
INVARIANTS
  TypeOK
  
  CapabilitiesMatchType
  CatalogTestCoversStore
PROPERTIES
  DeletionTakesItsOwn
  NewNamesFree
  SharedStoreKept
  SyncPlaces
