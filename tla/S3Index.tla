------------------------------- MODULE S3Index -------------------------------
(* internal/store, the S3 bucket and key index: bbolt buckets "s3_buckets"   *)
(* and "s3_keys".  Every operation is one transaction.  A key is stored      *)
(* under "bucket/key"; as a bucket name has no slash, that is a pair, and    *)
(* the prefix "bucket/" selects the keys of one bucket.                      *)
EXTENDS Objects

CONSTANTS
  Buckets,   \* bucket names
  Keys,      \* object keys
  NoRoot     \* no mapping

ASSUME IndexAssumption == NoRoot \notin Roots

VARIABLES
  s3Buckets,   \* the buckets that exist
  s3Keys       \* the root each bucket and key is mapped to

indexVars == <<s3Buckets, s3Keys>>

Names == Buckets \X Keys

IndexInit ==
  /\ s3Buckets = {}
  /\ s3Keys = [n \in Names |-> NoRoot]

S3CreateBucket(b) ==
  /\ b \notin s3Buckets
  /\ s3Buckets' = s3Buckets \cup {b}
  /\ UNCHANGED s3Keys

bucketHasKeys(b) == \E k \in Keys : s3Keys[b, k] # NoRoot

S3DeleteBucket(b) ==
  /\ b \in s3Buckets /\ ~bucketHasKeys(b)
  /\ s3Buckets' = s3Buckets \ {b}
  /\ UNCHANGED s3Keys

S3ForceDeleteBucket(b) ==
  /\ b \in s3Buckets
  /\ s3Buckets' = s3Buckets \ {b}
  /\ s3Keys' = [n \in Names |-> IF n[1] = b THEN NoRoot ELSE s3Keys[n]]

(* Mutant: the bucket is not looked up in the transaction that writes. *)
S3PutObjectKeyUnchecked(n, r) ==
  /\ s3Keys' = [s3Keys EXCEPT ![n] = r]
  /\ UNCHANGED s3Buckets

S3PutObjectKey(n, r) ==
  /\ n[1] \in s3Buckets
  /\ s3Keys' = [s3Keys EXCEPT ![n] = r]
  /\ UNCHANGED s3Buckets

(* Without a look at the bucket, and no error for an absent key. *)
S3DeleteObjectKey(n) ==
  /\ s3Keys' = [s3Keys EXCEPT ![n] = NoRoot]
  /\ UNCHANGED s3Buckets

S3GetObjectKey(n) == s3Keys[n]

(* The keys of the bucket whose object has metadata, in one transaction. *)
S3ListObjects(b, known) ==
  [n \in Names |-> IF n[1] = b /\ s3Keys[n] \in known THEN s3Keys[n] ELSE NoRoot]

IndexTypeOK ==
  /\ s3Buckets \subseteq Buckets
  /\ s3Keys \in [Names -> Roots \cup {NoRoot}]
=============================================================================
