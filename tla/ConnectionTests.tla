-------------------------- MODULE ConnectionTests --------------------------
(***************************************************************************)
(* The tests of catalogs and object stores (connections/service.py): each  *)
(* looks at a few parts of a connection, gives every part a status and     *)
(* reports the worst. The answer of a live system is an input here ("up"   *)
(* or "down"); settings are reduced to whether a value is there.           *)
(***************************************************************************)
EXTENDS Naturals, FiniteSets

Status == {"ok", "warning", "failed"}

Rank(s) == CASE s = "ok" -> 0 [] s = "warning" -> 1 [] s = "failed" -> 2

OkIf(b) == IF b THEN "ok" ELSE "failed"

Overall(statuses) ==
  IF "failed" \in statuses THEN "failed"
  ELSE IF "warning" \in statuses THEN "warning" ELSE "ok"
-----------------------------------------------------------------------------
CatalogType ==
  {"jdbc", "rest", "hive", "nessie", "glue", "s3_tables", "hadoop", "custom"}

CatalogAuth(c) ==
  CASE c.mode \in {"basic", "oauth_client"}   -> OkIf(c.identity /\ c.secret)
    [] c.mode \in {"bearer", "secret_ref"}    -> OkIf(c.secret)
    [] c.mode = "aws_iam"                     -> "ok"
    [] OTHER -> IF c.type \in {"hadoop", "custom"} THEN "ok" ELSE "warning"

CatalogEndpoint(c) ==
  OkIf(IF c.type = "hadoop" THEN c.warehouse ELSE c.endpoint)

CatalogReachable(c) ==
  IF c.type \notin {"jdbc", "rest", "nessie"} THEN "warning"
  ELSE IF ~c.endpoint THEN "failed"
  ELSE IF c.type = "jdbc" /\ c.scheme # "postgresql" THEN "warning"
  ELSE OkIf(c.probe = "up")
-----------------------------------------------------------------------------
StoreLocation(s) ==
  CASE s.type = "s3"                       -> OkIf(s.warehouse = "s3")
    [] s.type = "gcs"                      -> OkIf(s.warehouse = "gs")
    [] s.type \in {"adls", "hdfs", "local"} -> OkIf(s.warehouse # "none")
    [] OTHER                               -> "failed"

StoreAuth(s) ==
  CASE s.mode = "credential_vending" -> "warning"
    [] s.mode = "static_key"         -> OkIf(s.identity /\ s.secret)
    [] s.mode = "secret_ref"         -> OkIf(s.secret)
    [] s.mode = "keyless"            -> "ok"
    [] OTHER                         -> "failed"

(* The bucket is the host of an s3 address; inline says whether the secret *)
(* is one that the service can read itself.                                *)
BucketProbe(s) ==
  IF s.warehouse # "s3" \/ ~s.bucket THEN "failed"
  ELSE IF \/ s.mode = "credential_vending"
          \/ s.mode = "secret_ref" /\ ~s.inline
          \/ ~s.driver
  THEN "warning"
  ELSE OkIf(s.probe = "up")

StoreReachable(s) ==
  CASE s.type = "s3"    -> BucketProbe(s)
    [] s.type = "local" -> "ok"
    [] OTHER            -> "warning"

StoreStatuses(s) == {StoreLocation(s), StoreAuth(s), StoreReachable(s)}

TestStore(s) == Overall(StoreStatuses(s))

(* A wrong test: a store that is linked is only looked up.                 *)
LinkedOnly(link) == IF link = {} THEN {"warning"} ELSE {"ok"}

(* link is the set of the linked store, empty if there is none.            *)
Linked(link) ==
  IF link = {} THEN {"warning"} ELSE UNION {StoreStatuses(s) : s \in link}

TestCatalog(c, link) ==
  Overall({CatalogEndpoint(c), CatalogAuth(c), CatalogReachable(c)} \cup Linked(link))
-----------------------------------------------------------------------------
(* Bounded inputs.                                                         *)
CatalogSettings ==
  [type : CatalogType, endpoint : BOOLEAN, warehouse : BOOLEAN,
   mode : {"none", "basic", "bearer", "aws_iam"},
   identity : BOOLEAN, secret : BOOLEAN,
   scheme : {"postgresql", "mysql"}, probe : {"up", "down"}]

StoreSettings ==
  [type : {"s3", "local", "gcs", "other"}, warehouse : {"none", "s3", "gs"},
   mode : {"keyless", "static_key", "secret_ref", "credential_vending"},
   identity : {TRUE}, secret : BOOLEAN, inline : BOOLEAN,
   bucket : BOOLEAN, driver : {TRUE}, probe : {"up", "down"}]

(* One store for every status its test can have.                           *)
SampleStores ==
  {CHOOSE s \in StoreSettings : TestStore(s) = r :
     r \in {TestStore(s) : s \in StoreSettings}}

(* What the tests of a catalog with a link, of one without, and of a store *)
(* must tell, whatever else is set.                                        *)
LinkedCovers ==
  \A c \in CatalogSettings, s \in SampleStores :
    Rank(TestCatalog(c, {s})) >= Rank(TestStore(s))

UnlinkedWarns == \A c \in CatalogSettings : TestCatalog(c, {}) # "ok"

LinkedOkReached ==
  \A c \in CatalogSettings, s \in SampleStores :
    TestCatalog(c, {s}) = "ok" =>
      /\ c.probe = "up" /\ c.endpoint /\ c.type \in {"jdbc", "rest", "nessie"}
      /\ c.type = "jdbc" => c.scheme = "postgresql"

StoreOkReached ==
  \A s \in StoreSettings :
    s.type = "s3" /\ TestStore(s) = "ok" => s.bucket /\ s.probe = "up"
=============================================================================
