----------------------------- MODULE MCProvider -----------------------------
(***************************************************************************)
(* A small instance of Provider for TLC: an object whose key or content    *)
(* changes, and a bucket that is declared, left out or changed directly.   *)
(***************************************************************************)
EXTENDS Provider

CONSTANTS objectAddress, bucketAddress

ObjectModel(key, content_type, content) ==
  [type |-> "object", bucket |-> "exports", key |-> key, content_type |-> content_type,
   content_base64 |-> content]
BucketModel(days) ==
  [type |-> "bucket", name |-> "exports", encrypted |-> TRUE, log_retention_days |-> days]

Old == ObjectModel("refunds", "csv", "q1")
NewContent == ObjectModel("refunds", "csv", "q2")
NewKey == ObjectModel("claims", "csv", "q1")
Days30 == BucketModel(30)
Days90 == BucketModel(90)

MCModel == {Old, NewContent, NewKey, Days30, Days90}
MCElsewhere == {[op |-> "put", model |-> Days90]}
Both(o, b) == [a \in Address |-> IF a = objectAddress THEN o ELSE b]
MCConfigurations == {Both(Old, Days30), Both(NewContent, Days30), Both(NewKey, None)}
=============================================================================
