------------------------------- MODULE S3Proofs -------------------------------
(* The S3 index and the answers of the S3 operations, for any buckets, keys, *)
(* contents and number of concurrent requests.                               *)
EXTENDS S3Gateway, TLAPS

-----------------------------------------------------------------------------
(* Types *)

(* Where a handler is tells what it was asked for, and a request for one     *)
(* name has exactly one.                                                     *)
Shaped(c) ==
  LET q == req[c]
      single(ns) == \E n \in Names : ns = {n}
  IN  /\ at[c] \in {"image", "render"} => q.op = "image"
      /\ at[c] \in {"lookup", "missed"} => q.op \in {"get", "image", "copy"}
      /\ at[c] = "open" => q.op \in ReadOps
      /\ at[c] = "dest" => q.op = "copy"
      /\ at[c] = "require" => q.op \in {"put", "delete", "list"}
      /\ at[c] \in {"cond", "ingest"} => q.op = "put"
      /\ at[c] = "write" => q.op \in {"put", "copy"}
      /\ at[c] = "erase" => q.op = "delete"
      /\ at[c] = "list" => q.op = "list"
      /\ at[c] # "done" => reply[c] = "none"
      /\ at[c] \in {"idle", "require"} => result[c] = NoResult
      /\ q.op = "put" => q.root \in Roots
      /\ q.op \in {"put", "copy"} => single(q.to)
      /\ at[c] # "idle" /\ q.op \in {"get", "image", "copy"} => single(q.from)

Shape == \A c \in Clients : Shaped(c)

(* Replying keeps the types. *)
LEMMA ReplyTypes ==
  ASSUME TypeOK, NEW c \in Clients, NEW what \in Replies, Reply(c, what)
  PROVE  at' \in [Clients -> HandlerAt] /\ reply' \in [Clients -> Replies]
<1>1. at' \in [Clients -> HandlerAt]
  BY DEF TypeOK, Reply, Goto, HandlerAt
<1>2. reply' \in [Clients -> Replies]
  BY DEF TypeOK, Reply
<1> QED  BY <1>1, <1>2

(* So does the look at a bucket. *)
LEMMA RequireTypes ==
  ASSUME TypeOK, NEW c \in Clients, NEW ns, NEW next \in HandlerAt, requireBucket(c, ns, next)
  PROVE  at' \in [Clients -> HandlerAt] /\ reply' \in [Clients -> Replies]
  BY DEF TypeOK, requireBucket, Reply, Goto, HandlerAt, Replies

(* And the look at a key. *)
LEMMA LookupTypes ==
  ASSUME TypeOK, NEW c \in Clients, NEW found \in HandlerAt, NEW missing \in HandlerAt,
         Lookup(c, found, missing)
  PROVE  at' \in [Clients -> HandlerAt] /\ held' \in [Clients -> Content]
  BY DEF TypeOK, Lookup, Hold, Goto, S3GetObjectKey, IndexTypeOK, Content, Request

(* The initial state is well typed. *)
LEMMA TypeInit == Init => TypeOK
  BY DEF Init, TypeOK, IndexInit, IndexTypeOK, NoRequest, Request, Ops, NoResult, Content,
     AnyContent, HandlerAt, Replies, Names

(* Every request that may begin is one. *)
LEMMA TypeBegin ==
  ASSUME TypeOK, NEW c \in Clients, BeginAny(c)
  PROVE  TypeOK'
<1>1. \A q \in Request : Begin(c, q) => TypeOK'
  BY DEF TypeOK, Begin, Goto, HandlerAt, IndexTypeOK, indexVars
<1>2. NoRequest \in Request
  BY DEF NoRequest, Request, Ops, AnyContent, Content
<1>3. \A n \in Names, r \in Roots, cond \in Conditions : Put(n, r, cond) \in Request
  BY DEF Put, NoRequest, Request, Ops, AnyContent, Content, Conditions
<1>4. \A n \in Names, op \in {"get", "image"} : Read(op, n) \in Request
  BY DEF Read, NoRequest, Request, Ops, AnyContent, Content
<1>5. \A n, m \in Names : Copy(n, m) \in Request
  BY DEF Copy, NoRequest, Request, Ops, AnyContent, Content
<1>6. \A b \in Buckets, ks \in SUBSET Keys : Delete(b, ks) \in Request /\ List(b) \in Request
  BY DEF Delete, List, NoRequest, Request, Ops, AnyContent, Content, Names
<1> QED  BY <1>1, <1>3, <1>4, <1>5, <1>6 DEF BeginAny

(* Every step of a handler keeps the types. *)
LEMMA TypeHandler ==
  ASSUME TypeOK, Shape, NEW c \in Clients, Handler(c)
  PROVE  TypeOK'
<1>1. CASE BeginAny(c)
  BY <1>1, TypeBegin
<1>2. CASE Require(c)
  <2>1. at' \in [Clients -> HandlerAt] /\ reply' \in [Clients -> Replies]
    BY <1>2, RequireTypes DEF Require, HandlerAt
  <2> QED  BY <1>2, <2>1 DEF Require, Reads, TypeOK, IndexTypeOK, indexVars
<1>3. CASE CheckPutConditions(c)
  <2>1. at' \in [Clients -> HandlerAt] /\ reply' \in [Clients -> Replies]
    BY <1>3, ReplyTypes DEF CheckPutConditions, HandlerAt, Replies, Goto, TypeOK
  <2> QED  BY <1>3, <2>1 DEF CheckPutConditions, Reads, TypeOK, IndexTypeOK, indexVars
<1>4. CASE Ingest(c)
  <2>1. req[c].root \in Roots
    BY <1>4 DEF Shape, Shaped, Ingest
  <2>2. known' \subseteq Roots /\ req[c].root \in Content
    BY <1>4, <2>1 DEF Ingest, TypeOK, Content
  <2> QED  BY <1>4, <2>1, <2>2 DEF Ingest, TypeOK, IndexTypeOK, indexVars, Goto, Hold, HandlerAt
<1>5. CASE WriteKey(c)
  <2>1. at' \in [Clients -> HandlerAt] /\ reply' \in [Clients -> Replies]
    BY <1>5, ReplyTypes DEF WriteKey, Replies
  <2>2. IndexTypeOK'
    BY <1>5 DEF WriteKey, S3PutObjectKey, TypeOK, IndexTypeOK, indexVars, Content
  <2> QED  BY <1>5, <2>1, <2>2 DEF WriteKey, TypeOK
<1>6. CASE resolve(c)
  <2>1. at' \in [Clients -> HandlerAt] /\ reply' \in [Clients -> Replies] /\ held' \in [Clients -> Content]
    BY <1>6, ReplyTypes, LookupTypes DEF resolve, Found, HandlerAt, Replies, TypeOK
  <2> QED  BY <1>6, <2>1 DEF resolve, Reads, TypeOK, IndexTypeOK, indexVars
<1>7. CASE ImageProcess(c)
  <2>1. at' \in [Clients -> HandlerAt] /\ reply' \in [Clients -> Replies] /\ held' \in [Clients -> Content]
    BY <1>7, ReplyTypes, LookupTypes DEF ImageProcess, HandlerAt, Replies, TypeOK
  <2> QED  BY <1>7, <2>1 DEF ImageProcess, Reads, TypeOK, IndexTypeOK, indexVars
<1>8. CASE OpenObject(c)
  <2>1. at' \in [Clients -> HandlerAt] /\ reply' \in [Clients -> Replies]
    BY <1>8, ReplyTypes DEF OpenObject, Replies
  <2> QED  BY <1>8, <2>1 DEF OpenObject, Reads, TypeOK, IndexTypeOK, indexVars
<1>9. CASE CopyTarget(c)
  <2>1. at' \in [Clients -> HandlerAt] /\ reply' \in [Clients -> Replies]
    BY <1>9, ReplyTypes, RequireTypes DEF CopyTarget, HandlerAt, Replies
  <2> QED  BY <1>9, <2>1 DEF CopyTarget, Reads, TypeOK, IndexTypeOK, indexVars
<1>10. CASE EraseKey(c)
  <2>1. PICK n \in req[c].to :
          /\ \/ Open /\ S3DeleteObjectKey(n) /\ result' = [result EXCEPT ![c][n] = "Deleted"]
             \/ result' = [result EXCEPT ![c][n] = "Error"] /\ UNCHANGED indexVars
    BY <1>10 DEF EraseKey
  <2>2. n \in Names
    BY DEF TypeOK, Request
  <2>3. IndexTypeOK'
    BY <2>1, <2>2 DEF S3DeleteObjectKey, TypeOK, IndexTypeOK, indexVars
  <2>4. result' \in [Clients -> [Names -> Content \cup {"Deleted", "Error"}]]
    BY <2>1, <2>2 DEF TypeOK
  <2> QED  BY <1>10, <2>3, <2>4 DEF EraseKey, TypeOK
<1>11. CASE Erased(c) \/ RequestFails(c)
  <2>1. at' \in [Clients -> HandlerAt] /\ reply' \in [Clients -> Replies]
    BY <1>11, ReplyTypes DEF Erased, RequestFails, Replies
  <2> QED  BY <1>11, <2>1 DEF Erased, RequestFails, TypeOK, IndexTypeOK, indexVars
<1>12. CASE ListKeys(c)
  <2>1. at' \in [Clients -> HandlerAt] /\ reply' \in [Clients -> Replies]
    BY <1>12, ReplyTypes DEF ListKeys, Replies
  <2>2. \A b : S3ListObjects(b, known) \in [Names -> Content \cup {"Deleted", "Error"}]
    BY DEF S3ListObjects, TypeOK, IndexTypeOK, Content
  <2>3. result' \in [Clients -> [Names -> Content \cup {"Deleted", "Error"}]]
    BY <1>12, <2>2 DEF ListKeys, TypeOK
  <2> QED  BY <1>12, <2>1, <2>3 DEF ListKeys, Reads, TypeOK, IndexTypeOK, indexVars
<1>13. CASE Finish(c)
  BY <1>13 DEF Finish, Goto, Hold, TypeOK, IndexTypeOK, indexVars, NoRequest, NoResult,
     Request, Ops, AnyContent, Content, HandlerAt, Replies
<1> QED  BY <1>1, <1>2, <1>3, <1>4, <1>5, <1>6, <1>7, <1>8, <1>9, <1>10, <1>11, <1>12, <1>13
         DEF Handler

(* Every step keeps the types. *)
LEMMA TypeStep == TypeOK /\ Shape /\ [Next]_vars => TypeOK'
<1> SUFFICES ASSUME TypeOK, Shape, [Next]_vars PROVE TypeOK'
  OBVIOUS
<1>1. CASE \E c \in Clients : Handler(c)
  BY <1>1, TypeHandler
<1>2. CASE \E b \in Buckets : BucketOperation(b)
  BY <1>2 DEF BucketOperation, S3CreateBucket, S3DeleteBucket, S3ForceDeleteBucket,
     handlerVars, TypeOK, IndexTypeOK
<1>3. CASE Shutdown
  BY <1>3 DEF Shutdown, handlerVars, indexVars, TypeOK, IndexTypeOK
<1>4. CASE Restart
  BY <1>4 DEF Restart, indexVars, TypeOK, IndexTypeOK, NoRequest, NoResult,
     Request, Ops, AnyContent, Content, HandlerAt, Replies
<1>5. CASE UNCHANGED vars
  BY <1>5 DEF vars, handlerVars, indexVars, TypeOK, IndexTypeOK
<1> QED  BY <1>1, <1>2, <1>3, <1>4, <1>5 DEF Next

(* The step of a handler leaves the position and the request of the others. *)
LEMMA OthersStay ==
  ASSUME TypeOK, NEW c \in Clients, Handler(c), NEW d \in Clients, d # c
  PROVE  /\ at'[d] = at[d] /\ req'[d] = req[d] /\ held'[d] = held[d]
         /\ result'[d] = result[d] /\ reply'[d] = reply[d]
<1> USE DEF TypeOK, Goto, Reply, Hold, requireBucket, Lookup, Reads
<1>1. CASE BeginAny(c)
  BY <1>1 DEF BeginAny, Begin
<1>2. CASE Require(c) \/ CheckPutConditions(c)
  BY <1>2 DEF Require, CheckPutConditions
<1>3. CASE Ingest(c) \/ WriteKey(c)
  BY <1>3 DEF Ingest, WriteKey
<1>4. CASE resolve(c) \/ ImageProcess(c)
  BY <1>4 DEF resolve, ImageProcess
<1>5. CASE OpenObject(c) \/ CopyTarget(c)
  BY <1>5 DEF OpenObject, CopyTarget
<1>6. CASE EraseKey(c) \/ Erased(c) \/ ListKeys(c)
  BY <1>6 DEF EraseKey, Erased, ListKeys
<1>7. CASE RequestFails(c) \/ Finish(c)
  BY <1>7 DEF RequestFails, Finish
<1> QED  BY <1>1, <1>2, <1>3, <1>4, <1>5, <1>6, <1>7 DEF Handler

(* Until it is finished the handler keeps its request. *)
LEMMA ShapeHandler ==
  ASSUME TypeOK, Shape, NEW c \in Clients, Handler(c)
  PROVE  Shaped(c)'
<1> USE DEF Shape, Shaped, ReadOps
<1>0. c \in Clients /\ at \in [Clients -> HandlerAt] /\ req \in [Clients -> Request]
  BY DEF TypeOK
<1>1. CASE BeginAny(c)
  <2>1. CASE \E n \in Names, r \in Roots, cond \in Conditions : Begin(c, Put(n, r, cond))
    BY <1>0, <2>1 DEF Begin, Put, NoRequest, Goto
  <2>2. CASE \E n \in Names, op \in {"get", "image"} : Begin(c, Read(op, n))
    BY <1>0, <2>2 DEF Begin, Read, NoRequest, Goto
  <2>3. CASE \E n, m \in Names : Begin(c, Copy(n, m))
    BY <1>0, <2>3 DEF Begin, Copy, NoRequest, Goto
  <2>4. CASE \/ \E b \in Buckets, ks \in SUBSET Keys : ks # {} /\ Begin(c, Delete(b, ks))
             \/ \E b \in Buckets : Begin(c, List(b))
    <3>1. \A b, ks : Delete(b, ks).op = "delete" /\ List(b).op = "list"
      BY DEF Delete, List, NoRequest
    <3>2. req'[c].op \in {"delete", "list"} /\ at'[c] = "require"
          /\ reply'[c] = "none" /\ result'[c] = NoResult
      BY <1>0, <2>4, <3>1 DEF Begin, Goto
    <3> QED  BY <3>2
  <2> QED  BY <1>1, <2>1, <2>2, <2>3, <2>4 DEF BeginAny
<1>2. CASE Require(c)
  BY <1>0, <1>2 DEF Require, requireBucket, Reply, Goto, Reads
<1>3. CASE CheckPutConditions(c)
  BY <1>0, <1>3 DEF CheckPutConditions, Reply, Goto, Reads
<1>4. CASE Ingest(c) \/ WriteKey(c)
  BY <1>0, <1>4 DEF Ingest, WriteKey, Reply, Goto
<1>5. CASE resolve(c)
  BY <1>0, <1>5 DEF resolve, Lookup, Found, Reply, Goto, Reads
<1>6. CASE ImageProcess(c)
  BY <1>0, <1>6 DEF ImageProcess, Lookup, Reply, Goto, Reads
<1>7. CASE OpenObject(c) \/ ListKeys(c)
  BY <1>0, <1>7 DEF OpenObject, ListKeys, Reply, Goto, Reads
<1>8. CASE CopyTarget(c)
  BY <1>0, <1>8 DEF CopyTarget, requireBucket, Reply, Goto, Reads
<1>9. CASE EraseKey(c) \/ Erased(c) \/ RequestFails(c)
  BY <1>0, <1>9 DEF EraseKey, Erased, RequestFails, Reply, Goto
<1>10. CASE Finish(c)
  BY <1>0, <1>10 DEF Finish, Goto, NoRequest, TypeOK
<1> QED  BY <1>1, <1>2, <1>3, <1>4, <1>5, <1>6, <1>7, <1>8, <1>9, <1>10 DEF Handler

(* Every step keeps the requests in shape. *)
LEMMA ShapeStep == TypeOK /\ Shape /\ [Next]_vars => Shape'
<1> SUFFICES ASSUME TypeOK, Shape, [Next]_vars, NEW d \in Clients PROVE Shaped(d)'
  BY DEF Shape
<1>1. CASE \E c \in Clients : Handler(c)
  <2>1. PICK c \in Clients : Handler(c)
    BY <1>1
  <2>2. CASE d = c
    BY <2>1, <2>2, ShapeHandler
  <2>3. CASE d # c
    BY <2>1, <2>3, OthersStay DEF Shape, Shaped
  <2> QED  BY <2>2, <2>3
<1>2. CASE UNCHANGED handlerVars
  BY <1>2 DEF handlerVars, Shape, Shaped
<1>3. CASE Restart
  BY <1>3 DEF Restart, Shaped, NoRequest
<1> QED  BY <1>1, <1>2, <1>3 DEF Next, BucketOperation, Shutdown, vars
-----------------------------------------------------------------------------
(* The index *)

(* Every step leaves the index, or is one of its transactions. *)
LEMMA IndexSteps ==
  ASSUME TypeOK, Shape, [Next]_vars
  PROVE  \/ UNCHANGED indexVars
         \/ \E b \in Buckets : S3CreateBucket(b) \/ S3DeleteBucket(b) \/ S3ForceDeleteBucket(b)
         \/ \E c \in Clients : \E n \in Names :
               at[c] = "write" /\ S3PutObjectKey(n, held[c])
         \/ \E n \in Names : S3DeleteObjectKey(n)
<1>1. CASE \E c \in Clients : Handler(c)
  <2>1. PICK c \in Clients : Handler(c)
    BY <1>1
  <2>2. req[c].to \subseteq Names
    BY DEF TypeOK, Request
  <2>3. CASE WriteKey(c)
    BY <2>2, <2>3 DEF WriteKey
  <2>4. CASE EraseKey(c)
    BY <2>2, <2>4 DEF EraseKey
  <2>5. CASE ~WriteKey(c) /\ ~EraseKey(c)
    BY <2>1, <2>5 DEF Handler, BeginAny, Begin, Require, CheckPutConditions, Ingest, resolve,
       ImageProcess, OpenObject, CopyTarget, Erased, ListKeys, RequestFails, Finish, Reads
  <2> QED  BY <2>3, <2>4, <2>5
<1> QED  BY <1>1 DEF Next, BucketOperation, Shutdown, Restart, vars

(* A name is a pair of a bucket and a key. *)
LEMMA NamesOf == \A n \in Names : n[1] \in Buckets /\ n = <<n[1], n[2]>> /\ n[2] \in Keys
  BY DEF Names

(* No transaction leaves a key without its bucket: a put looks at the bucket *)
(* itself, and a bucket goes only empty or with its keys.                    *)
LEMMA OrphanStep ==
  ASSUME TypeOK, Shape, NoOrphanKeys, [Next]_vars
  PROVE  NoOrphanKeys'
<1> SUFFICES ASSUME NEW n \in Names, s3Keys'[n] # NoRoot PROVE n[1] \in s3Buckets'
  BY DEF NoOrphanKeys
<1>0. s3Keys \in [Names -> Roots \cup {NoRoot}]
  BY DEF TypeOK, IndexTypeOK
<1>1. CASE UNCHANGED indexVars
  BY <1>1 DEF indexVars, NoOrphanKeys
<1>2. CASE \E b \in Buckets : S3CreateBucket(b)
  BY <1>2 DEF S3CreateBucket, NoOrphanKeys
<1>3. CASE \E b \in Buckets : S3DeleteBucket(b)
  <2>1. PICK b \in Buckets : S3DeleteBucket(b)
    BY <1>3
  <2>2. s3Keys' = s3Keys /\ s3Buckets' = s3Buckets \ {b} /\ ~bucketHasKeys(b)
    BY <2>1 DEF S3DeleteBucket
  <2>3. n[1] \in s3Buckets
    BY <2>2 DEF NoOrphanKeys
  <2>4. n[1] # b
    <3>1. SUFFICES ASSUME n[1] = b PROVE FALSE
      OBVIOUS
    <3>2. n = <<b, n[2]>> /\ n[2] \in Keys
      BY <3>1, NamesOf
    <3> QED  BY <2>2, <3>2 DEF bucketHasKeys
  <2> QED  BY <2>2, <2>3, <2>4
<1>4. CASE \E b \in Buckets : S3ForceDeleteBucket(b)
  BY <1>0, <1>4 DEF S3ForceDeleteBucket, NoOrphanKeys
<1>5. CASE \E c \in Clients, m \in Names : S3PutObjectKey(m, held[c])
  BY <1>0, <1>5 DEF S3PutObjectKey, NoOrphanKeys
<1>6. CASE \E m \in Names : S3DeleteObjectKey(m)
  BY <1>0, <1>6 DEF S3DeleteObjectKey, NoOrphanKeys
<1> QED  BY <1>1, <1>2, <1>3, <1>4, <1>5, <1>6, IndexSteps

(* A handler about to write a key holds known content. *)
WritesKnown == \A c \in Clients : at[c] = "write" => held[c] \in known

(* Nothing the object store knows is forgotten. *)
LEMMA KnownStays ==
  ASSUME [Next]_vars
  PROVE  known \subseteq known'
<1>1. CASE \E c \in Clients : Handler(c)
  BY <1>1 DEF Handler, BeginAny, Begin, Require, CheckPutConditions, Ingest, WriteKey, resolve,
     ImageProcess, OpenObject, CopyTarget, EraseKey, Erased, ListKeys, RequestFails, Finish, Reads
<1> QED  BY <1>1 DEF Next, BucketOperation, Shutdown, Restart, vars

(* The content in hand at a write was ingested, or read from the index. *)
LEMMA WritesKnownStep ==
  ASSUME TypeOK, Shape, WritesKnown, [Next]_vars
  PROVE  WritesKnown'
<1> SUFFICES ASSUME NEW d \in Clients, at'[d] = "write" PROVE held'[d] \in known'
  BY DEF WritesKnown
<1>0. known \subseteq known'
  BY KnownStays
<1>1. CASE at[d] = "write" /\ held'[d] = held[d]
  BY <1>0, <1>1 DEF WritesKnown
<1>2. CASE \E c \in Clients : Handler(c)
  <2>1. PICK c \in Clients : Handler(c)
    BY <1>2
  <2>2. CASE d # c
    BY <1>1, <2>1, <2>2, OthersStay
  <2>3. CASE d = c
    <3> USE DEF TypeOK, Reads, Reply, Goto, Hold
    <3>1. CASE Ingest(c)
      BY <2>3, <3>1 DEF Ingest
    <3>2. CASE CopyTarget(c)
      BY <1>0, <2>3, <3>2 DEF CopyTarget, requireBucket
    <3>3. ~BeginAny(c) /\ ~Require(c) /\ ~CheckPutConditions(c) /\ ~WriteKey(c)
      BY <2>3 DEF BeginAny, Begin, Require, requireBucket, CheckPutConditions, WriteKey
    <3>4. ~resolve(c) /\ ~ImageProcess(c)
      BY <2>3 DEF resolve, Lookup, Found, ImageProcess
    <3>5. ~OpenObject(c) /\ ~EraseKey(c) /\ ~Erased(c) /\ ~ListKeys(c) /\ ~RequestFails(c) /\ ~Finish(c)
      BY <2>3 DEF OpenObject, EraseKey, Erased, ListKeys, RequestFails, Finish
    <3> QED  BY <2>1, <3>1, <3>2, <3>3, <3>4, <3>5 DEF Handler
  <2> QED  BY <2>2, <2>3
<1>3. CASE Restart
  BY <1>3 DEF Restart
<1>4. CASE UNCHANGED handlerVars
  BY <1>1, <1>4 DEF handlerVars
<1> QED  BY <1>2, <1>3, <1>4 DEF Next, BucketOperation, Shutdown, vars

(* A key is only ever set to the content in hand at a write. *)
LEMMA ResolveStep ==
  ASSUME TypeOK, Shape, WritesKnown, KeysResolve, [Next]_vars
  PROVE  KeysResolve'
<1> SUFFICES ASSUME NEW n \in Names, s3Keys'[n] # NoRoot PROVE s3Keys'[n] \in known'
  BY DEF KeysResolve
<1>0. s3Keys \in [Names -> Roots \cup {NoRoot}] /\ known \subseteq known'
  BY KnownStays DEF TypeOK, IndexTypeOK
<1>1. CASE s3Keys'[n] = s3Keys[n]
  BY <1>0, <1>1 DEF KeysResolve
<1>2. CASE \E c \in Clients : \E m \in Names : at[c] = "write" /\ S3PutObjectKey(m, held[c])
  BY <1>0, <1>1, <1>2 DEF S3PutObjectKey, WritesKnown
<1>3. CASE \E m \in Names : S3DeleteObjectKey(m)
  BY <1>0, <1>1, <1>3 DEF S3DeleteObjectKey
<1>4. CASE \E b \in Buckets : S3CreateBucket(b) \/ S3DeleteBucket(b) \/ S3ForceDeleteBucket(b)
  BY <1>0, <1>1, <1>4 DEF S3CreateBucket, S3DeleteBucket, S3ForceDeleteBucket
<1> QED  BY <1>1, <1>2, <1>3, <1>4, IndexSteps DEF indexVars

(* What the theorems on the index rest on. *)
IndexInv == TypeOK /\ Shape /\ NoOrphanKeys /\ WritesKnown /\ KeysResolve

(* It holds initially. *)
LEMMA IndexInvInit == Init => IndexInv
<1> SUFFICES ASSUME Init PROVE IndexInv
  OBVIOUS
<1>1. Shape
  BY DEF Init, Shape, Shaped, NoRequest
<1>2. NoOrphanKeys /\ WritesKnown /\ KeysResolve
  BY DEF Init, IndexInit, NoOrphanKeys, WritesKnown, KeysResolve
<1> QED  BY <1>1, <1>2, TypeInit DEF IndexInv

(* Every step keeps it. *)
LEMMA IndexInvStep == IndexInv /\ [Next]_vars => IndexInv'
  BY TypeStep, ShapeStep, OrphanStep, WritesKnownStep, ResolveStep DEF IndexInv

(* It is an invariant. *)
LEMMA IndexInvariant == Spec => []IndexInv
  BY IndexInvInit, IndexInvStep, PTL DEF Spec

(* A bucket deleted while a PUT or COPY into it is under way leaves no key   *)
(* behind, because S3PutObjectKey looks at the bucket in the transaction     *)
(* that writes.                                                              *)
THEOREM NoKeyOutlivesItsBucket == Spec => []NoOrphanKeys
<1>1. IndexInv => NoOrphanKeys
  BY DEF IndexInv
<1> QED  BY <1>1, IndexInvariant, PTL

(* A key maps to content the object store knows: PutObject and CopyObject    *)
(* write it only once the content has its metadata.                          *)
THEOREM EveryKeyResolves == Spec => []KeysResolve
<1>1. IndexInv => KeysResolve
  BY DEF IndexInv
<1> QED  BY <1>1, IndexInvariant, PTL
-----------------------------------------------------------------------------
(* The answers.  What a handler under way has gathered was so at some moment *)
(* since its request began.                                                  *)

Evidence(c) ==
  LET q == req[c]
  IN  /\ at[c] \in {"render", "open", "dest"} =>
           held[c] \in known /\ Showed(c, q.from, held[c])
      /\ at[c] = "write" /\ q.op = "copy" => Showed(c, q.from, held[c])
      /\ at[c] = "missed" =>
           Showed(c, q.from, "NoSuchKey") \/ \A n \in q.from : n[1] \notin s3Buckets
      /\ at[c] \in {"ingest", "write"} /\ q.op = "put" =>
           \E s \in seen[c] : ConditionsMet(c, s)
      /\ at[c] = "erase" =>
           \A n \in q.to : result[c][n] = "Deleted" =>
             \E s \in seen[c] : ContentOf(s[n]) = NoRoot
      /\ at[c] = "done" => ReadWasTrue(c) /\ WriteTookEffect(c)

(* A request under way remembers what it has seen, and sees every state. *)
LEMMA SeenGrows ==
  ASSUME Next, NEW c \in Clients, at'[c] # "idle", reply'[c] # "error"
  PROVE  /\ seen[c] \subseteq seen'[c]
         /\ at[c] = "done" => seen'[c] = seen[c]
         /\ at[c] # "done" =>
              \E s \in seen'[c] : \A n \in req'[c].to \cup req'[c].from : s[n] = View(n)'
<1>1. seen'[c] = IF at[c] = "done" THEN seen[c] ELSE seen[c] \cup {Snapshot(c)'}
  BY DEF Next, Remember
<1>2. \A n \in req'[c].to \cup req'[c].from : Snapshot(c)'[n] = View(n)'
  BY DEF Snapshot
<1> QED  BY <1>1, <1>2

(* What the index shows of a name. *)
LEMMA ViewShows ==
  ASSUME IndexInv, NEW n \in Names
  PROVE  /\ ContentOf(View(n)) = s3Keys[n]
         /\ s3Keys[n] # NoRoot => View(n) = s3Keys[n]
         /\ s3Keys[n] = NoRoot /\ n[1] \in s3Buckets => View(n) = "NoSuchKey"
         /\ n[1] \notin s3Buckets => View(n) = "NoSuchBucket"
<1>1. s3Keys[n] \in Roots \cup {NoRoot}
  BY DEF IndexInv, TypeOK, IndexTypeOK
<1>2. "NoSuchKey" \notin Roots /\ "NoSuchBucket" \notin Roots
  BY ContentAssumption
<1>3. s3Keys[n] # NoRoot => n[1] \in s3Buckets
  BY DEF IndexInv, NoOrphanKeys
<1> QED  BY <1>1, <1>2, <1>3, IndexAssumption DEF View, ContentOf

(* A request that does not move keeps its evidence: more is seen, and a      *)
(* bucket that is created is seen while it is empty.                         *)
LEMMA EvidenceStays ==
  ASSUME IndexInv, IndexInv', Next, NEW c \in Clients, Evidence(c),
         at'[c] = at[c], req'[c] = req[c], held'[c] = held[c],
         result'[c] = result[c], reply'[c] = reply[c]
  PROVE  Evidence(c)'
<1>1. CASE at[c] = "idle"
  BY <1>1 DEF Evidence
<1>2. CASE at[c] = "done" /\ reply[c] = "error"
  BY <1>2 DEF Evidence, ReadWasTrue, WriteTookEffect
<1>3. CASE at[c] = "done" /\ reply[c] # "error"
  <2>1. seen'[c] = seen[c]
    BY <1>3, SeenGrows
  <2> QED  BY <1>3, <2>1 DEF Evidence, ReadWasTrue, WriteTookEffect, Showed, ConditionsMet
<1>4. CASE at[c] \notin {"idle", "done"}
  <2>0. reply[c] = "none"
    BY <1>4 DEF IndexInv, Shape, Shaped
  <2>1. /\ seen[c] \subseteq seen'[c]
        /\ \E s \in seen'[c] : \A n \in req'[c].to \cup req'[c].from : s[n] = View(n)'
    BY <1>4, <2>0, SeenGrows
  <2>2. known \subseteq known'
    BY KnownStays
  <2>3. \A ns, v : Showed(c, ns, v) => Showed(c, ns, v)'
    BY <2>1 DEF Showed
  <2>4. CASE at[c] # "missed"
    BY <1>4, <2>1, <2>2, <2>4 DEF Evidence, Showed, ConditionsMet
  <2>5. CASE at[c] = "missed"
    <3>1. PICK m \in Names : req[c].from = {m}
      BY <2>5 DEF IndexInv, Shape, Shaped
    <3>2. CASE Showed(c, req[c].from, "NoSuchKey") \/ m[1] \notin s3Buckets'
      BY <2>1, <2>5, <3>1, <3>2 DEF Evidence, Showed
    <3>3. CASE m[1] \notin s3Buckets /\ m[1] \in s3Buckets'
      <4>1. s3Keys[m] = NoRoot
        BY <3>3 DEF IndexInv, NoOrphanKeys
      <4>2. UNCHANGED s3Keys
        BY <3>3, IndexSteps DEF IndexInv, indexVars, S3CreateBucket, S3DeleteBucket,
           S3ForceDeleteBucket, S3PutObjectKey, S3DeleteObjectKey
      <4>3. View(m)' = "NoSuchKey"
        BY <3>3, <4>1, <4>2 DEF View
      <4>4. Showed(c, req[c].from, "NoSuchKey")'
        BY <2>1, <3>1, <4>3 DEF Showed
      <4> QED  BY <2>5, <4>4 DEF Evidence
    <3> QED  BY <2>5, <3>1, <3>2, <3>3 DEF Evidence
  <2> QED  BY <2>4, <2>5
<1> QED  BY <1>1, <1>2, <1>3, <1>4

(* The steps of a handler that looks a key up. *)
LEMMA LookupEvidence ==
  ASSUME IndexInv, IndexInv', Next, NEW c \in Clients, Evidence(c),
         NEW found, NEW missing, Lookup(c, found, missing), Reads(c),
         reply'[c] # "error", result'[c] = result[c],
         found \in {"render", "open", "dest"}, missing \in {"missed", "lookup"},
         at[c] \in {"image", "lookup"}
  PROVE  Evidence(c)'
<1>1. PICK m \in Names : req[c].from = {m}
  BY DEF IndexInv, Shape, Shaped
<1>2. /\ held'[c] = s3Keys[m]
      /\ at'[c] = IF s3Keys[m] # NoRoot THEN found ELSE missing
      /\ req'[c] = req[c] /\ UNCHANGED <<s3Buckets, s3Keys, known>>
  BY <1>1 DEF Lookup, Hold, Goto, S3GetObjectKey, IndexInv, TypeOK, Reads, indexVars
<1>3. \E s \in seen'[c] : s[m] = View(m)'
  BY <1>1, <1>2, SeenGrows
<1>4. View(m)' = View(m)
  BY <1>2 DEF View
<1>5. CASE s3Keys[m] # NoRoot
  <2>1. s3Keys[m] \in known /\ View(m) = s3Keys[m]
    BY <1>5, ViewShows DEF IndexInv, KeysResolve
  <2> QED  BY <1>1, <1>2, <1>3, <1>4, <1>5, <2>1 DEF Evidence, Showed
<1>6. CASE s3Keys[m] = NoRoot
  <2>1. View(m) = "NoSuchKey" \/ m[1] \notin s3Buckets
    BY <1>6, ViewShows
  <2> QED  BY <1>1, <1>2, <1>3, <1>4, <1>6, <2>1 DEF Evidence, Showed
<1> QED  BY <1>5, <1>6

(* The steps of GET, HEAD, image requests and LIST. *)
LEMMA EvidenceReads ==
  ASSUME IndexInv, IndexInv', Next, NEW c \in Clients, Evidence(c),
         resolve(c) \/ ImageProcess(c) \/ OpenObject(c) \/ ListKeys(c)
  PROVE  Evidence(c)'
<1> USE DEF IndexInv
<1>0. /\ req'[c] = req[c] /\ UNCHANGED <<s3Buckets, s3Keys, known>>
      /\ Shaped(c) /\ at[c] \notin {"idle", "done"} /\ reply[c] = "none"
  BY DEF resolve, ImageProcess, OpenObject, ListKeys, Reads, indexVars, Shape, Shaped
<1>1. CASE at[c] \in {"lookup", "image"}
  BY <1>1, <1>0, LookupEvidence DEF resolve, ImageProcess, OpenObject, ListKeys, Found, Reads
<1>2. CASE resolve(c) /\ at[c] = "missed"
  <2>1. PICK m \in Names : req[c].from = {m}
    BY <1>2, <1>0 DEF Shaped
  <2>2. /\ at'[c] = "done" /\ held'[c] = held[c]
        /\ reply'[c] = IF m[1] \in s3Buckets THEN "NoSuchKey" ELSE "NoSuchBucket"
    BY <1>2, <2>1 DEF resolve, Reply, Goto, BucketsExist, TypeOK
  <2>3. seen[c] \subseteq seen'[c] /\ \E s \in seen'[c] : s[m] = View(m)'
    BY <1>0, <2>1, <2>2, SeenGrows
  <2>4. m[1] \notin s3Buckets => View(m)' = "NoSuchBucket"
    BY <1>0, ViewShows DEF View
  <2>5. m[1] \in s3Buckets => \E s \in seen[c] : s[m] = "NoSuchKey"
    BY <1>2, <2>1 DEF Evidence, Showed
  <2>6. Showed(c, req[c].from, reply[c])'
    BY <1>0, <2>1, <2>2, <2>3, <2>4, <2>5 DEF Showed
  <2>7. req[c].op \in {"get", "image", "copy"}
    BY <1>0, <1>2 DEF Shaped
  <2> QED  BY <1>0, <2>1, <2>2, <2>6, <2>7
           DEF Evidence, ReadWasTrue, WriteTookEffect, ReadOps, Showed
<1>3. CASE (ImageProcess(c) /\ at[c] = "render") \/ OpenObject(c)
  <2>1. at[c] \in {"render", "open"} /\ req[c].op \in ReadOps
    BY <1>0, <1>3 DEF OpenObject, Shaped, ReadOps
  <2>2. held[c] \in known /\ Showed(c, req[c].from, held[c])
    BY <2>1 DEF Evidence
  <2>3. at'[c] = "done" /\ reply'[c] = "ok" /\ held'[c] = held[c]
    BY <1>3, <2>2 DEF ImageProcess, OpenObject, Reply, Goto, TypeOK
  <2>4. seen[c] \subseteq seen'[c]
    BY <1>0, <2>3, SeenGrows
  <2>5. Showed(c, req[c].from, held[c])'
    BY <1>0, <2>2, <2>3, <2>4 DEF Showed
  <2> QED  BY <1>0, <2>1, <2>3, <2>5 DEF Evidence, ReadWasTrue, WriteTookEffect, ReadOps
<1>4. CASE ListKeys(c)
  <2>1. PICK b \in Buckets : req[c].to = {b} \X Keys /\ result'[c] = S3ListObjects(b, known)
    BY <1>4 DEF ListKeys, TypeOK
  <2>2. at'[c] = "done" /\ reply'[c] = "ok" /\ req[c].op = "list"
    BY <1>0, <1>4 DEF ListKeys, Reply, Goto, TypeOK, Shaped
  <2>3. PICK s \in seen'[c] : \A n \in req[c].to : s[n] = View(n)'
    BY <1>0, <2>2, SeenGrows
  <2>4. \A n \in req[c].to : n \in Names /\ n[1] = b
    BY <2>1 DEF Names
  <2>5. \A n \in req[c].to : result'[c][n] = s3Keys[n]
    BY <2>1, <2>4 DEF S3ListObjects, KeysResolve
  <2>6. \A n \in req[c].to : ContentOf(s[n]) = result'[c][n]
    BY <1>0, <2>3, <2>4, <2>5, ViewShows DEF View
  <2> QED  BY <1>0, <2>2, <2>3, <2>6 DEF Evidence, ReadWasTrue, WriteTookEffect, ReadOps
<1> QED  BY <1>1, <1>2, <1>3, <1>4 DEF resolve, ImageProcess

(* The steps of PUT up to the write of the key, and the look at the bucket   *)
(* that DELETE and LIST begin with.                                          *)
LEMMA EvidencePut ==
  ASSUME IndexInv, IndexInv', Next, NEW c \in Clients, Evidence(c),
         Require(c) \/ CheckPutConditions(c) \/ Ingest(c)
  PROVE  Evidence(c)'
<1> USE DEF IndexInv
<1>0. /\ req'[c] = req[c] /\ UNCHANGED <<s3Buckets, s3Keys>>
      /\ Shaped(c) /\ at[c] \notin {"idle", "done"} /\ reply[c] = "none"
  BY DEF Require, CheckPutConditions, Ingest, Reads, indexVars, Shape, Shaped
<1>1. \A n : View(n)' = View(n)
  BY <1>0 DEF View
<1>2. req[c].to \subseteq Names
  BY DEF TypeOK, Request
<1>3. at'[c] # "idle" /\ reply'[c] # "error"
  BY <1>0 DEF Require, requireBucket, CheckPutConditions, Ingest, Reply, Goto, TypeOK
<1>4. PICK s \in seen'[c] : \A n \in req[c].to \cup req[c].from : s[n] = View(n)
  BY <1>0, <1>1, <1>3, SeenGrows
<1>5. seen[c] \subseteq seen'[c]
  BY <1>3, SeenGrows
<1>6. CASE Require(c)
  <2>1. CASE ~BucketsExist(req[c].to)
    <3>1. PICK n \in req[c].to : n[1] \notin s3Buckets
      BY <2>1 DEF BucketsExist
    <3>2. s[n] = "NoSuchBucket"
      BY <1>2, <1>4, <3>1, ViewShows
    <3>3. at'[c] = "done" /\ reply'[c] = "NoSuchBucket"
      BY <1>6, <2>1 DEF Require, requireBucket, Reply, Goto, TypeOK
    <3>4. Showed(c, {n}, "NoSuchBucket")'
      BY <3>2 DEF Showed
    <3>5. req[c].op \notin ReadOps
      BY <1>0, <1>6 DEF Require, Shaped, ReadOps
    <3> QED  BY <1>0, <3>1, <3>3, <3>4, <3>5 DEF Evidence, ReadWasTrue, WriteTookEffect
  <2>2. CASE BucketsExist(req[c].to)
    <3>1. /\ at'[c] \in {"erase", "list", "ingest", "cond"} /\ result'[c] = result[c]
          /\ at'[c] = "ingest" => req[c].cond = Content
          /\ at'[c] = "erase" => req[c].op = "delete"
      BY <1>6, <2>2 DEF Require, requireBucket, Goto, TypeOK, AnyContent
    <3>2. at'[c] = "ingest" => \E t \in seen'[c] : \A n \in req[c].to : ContentOf(t[n]) \in req[c].cond
      BY <1>4, <3>1 DEF ContentOf, Content
    <3>3. at'[c] = "erase" => \A n \in req[c].to : result[c][n] # "Deleted"
      BY <1>0, <1>6, <1>2, <3>1, ContentAssumption DEF Shaped, Require, NoResult
    <3> QED  BY <1>0, <3>1, <3>2, <3>3 DEF Evidence, ConditionsMet
  <2> QED  BY <2>1, <2>2
<1>7. CASE CheckPutConditions(c)
  <2>1. req[c].op = "put" /\ \E n \in Names : req[c].to = {n}
    BY <1>0, <1>7 DEF CheckPutConditions, Shaped
  <2>2. PICK m \in Names : req[c].to = {m}
    BY <2>1
  <2>3. ContentOf(s[m]) = s3Keys[m]
    BY <1>4, <2>2, ViewShows
  <2>4. (IF s3Keys[m] \in known THEN s3Keys[m] ELSE NoRoot) = s3Keys[m]
    BY DEF KeysResolve
  <2>5. \/ s3Keys[m] \in req[c].cond /\ at'[c] = "ingest"
        \/ s3Keys[m] \notin req[c].cond /\ at'[c] = "done" /\ reply'[c] = "PreconditionFailed"
    BY <1>7, <2>2, <2>4 DEF CheckPutConditions, S3GetObjectKey, Reply, Goto, TypeOK
  <2>6. ConditionsMet(c, s)' <=> s3Keys[m] \in req[c].cond
    BY <1>0, <2>2, <2>3 DEF ConditionsMet
  <2> QED  BY <1>0, <2>1, <2>5, <2>6 DEF Evidence, ReadWasTrue, WriteTookEffect, ReadOps
<1>8. CASE Ingest(c)
  <2>1. req[c].op = "put" /\ at'[c] = "write"
    BY <1>0, <1>8 DEF Ingest, Shaped, Goto, TypeOK
  <2>2. \E t \in seen[c] : ConditionsMet(c, t)
    BY <1>8, <2>1 DEF Ingest, Evidence
  <2>3. \E t \in seen'[c] : ConditionsMet(c, t)'
    BY <1>0, <1>5, <2>2 DEF ConditionsMet
  <2> QED  BY <1>0, <2>1, <2>3 DEF Evidence
<1> QED  BY <1>6, <1>7, <1>8

(* The write of the key, by PUT and COPY. *)
LEMMA EvidenceWrite ==
  ASSUME IndexInv, IndexInv', Next, NEW c \in Clients, Evidence(c),
         WriteKey(c) \/ CopyTarget(c)
  PROVE  Evidence(c)'
<1> USE DEF IndexInv
<1>0. /\ req'[c] = req[c] /\ held'[c] = held[c]
      /\ Shaped(c) /\ at[c] \notin {"idle", "done"} /\ reply[c] = "none"
  BY DEF WriteKey, CopyTarget, Reads, Shape, Shaped
<1>1. at'[c] # "idle" /\ reply'[c] # "error"
  BY <1>0 DEF WriteKey, CopyTarget, requireBucket, Reply, Goto, TypeOK
<1>2. PICK s \in seen'[c] : \A n \in req[c].to \cup req[c].from : s[n] = View(n)'
  BY <1>0, <1>1, SeenGrows
<1>3. seen[c] \subseteq seen'[c]
  BY <1>1, SeenGrows
<1>4. PICK m \in Names : req[c].to = {m}
  BY <1>0 DEF WriteKey, CopyTarget, Shaped
<1>5. CASE WriteKey(c)
  <2>1. /\ req[c].op \in {"put", "copy"} /\ held[c] \in known
        /\ req[c].op = "copy" => Showed(c, req[c].from, held[c])
        /\ req[c].op = "put" => \E t \in seen[c] : ConditionsMet(c, t)
    BY <1>0, <1>5 DEF WriteKey, Shaped, Evidence, WritesKnown
  <2>2. /\ req[c].op = "copy" => Showed(c, req[c].from, held[c])'
        /\ req[c].op = "put" => \E t \in seen'[c] : ConditionsMet(c, t)'
    BY <1>0, <1>3, <2>1 DEF Showed, ConditionsMet
  <2>3. CASE S3PutObjectKey(m, held[c]) /\ Reply(c, "ok")
    <3>1. at'[c] = "done" /\ reply'[c] = "ok" /\ s3Keys'[m] = held[c]
      BY <2>3 DEF Reply, Goto, TypeOK, IndexTypeOK, S3PutObjectKey
    <3>2. held[c] # NoRoot /\ m[1] \in s3Buckets'
      BY <2>1, <2>3, IndexAssumption DEF TypeOK, S3PutObjectKey
    <3>3. View(m)' = held[c]
      BY <3>1, <3>2 DEF View
    <3>4. Showed(c, req[c].to, held[c])'
      BY <1>0, <1>2, <1>4, <3>3 DEF Showed
    <3> QED  BY <1>0, <2>1, <2>2, <3>1, <3>4 DEF Evidence, ReadWasTrue, WriteTookEffect, ReadOps
  <2>4. CASE m[1] \notin s3Buckets /\ Reply(c, "NoSuchBucket") /\ UNCHANGED indexVars
    <3>1. at'[c] = "done" /\ reply'[c] = "NoSuchBucket"
      BY <2>4 DEF Reply, Goto, TypeOK
    <3>2. Showed(c, {m}, "NoSuchBucket")'
      BY <1>2, <1>4, <2>4 DEF View, indexVars, Showed
    <3> QED  BY <1>0, <1>4, <2>1, <3>1, <3>2 DEF Evidence, ReadWasTrue, WriteTookEffect, ReadOps
  <2> QED  BY <1>4, <1>5, <2>3, <2>4 DEF WriteKey
<1>6. CASE CopyTarget(c)
  <2>1. req[c].op = "copy" /\ held[c] \in known /\ Showed(c, req[c].from, held[c])
    BY <1>0, <1>6 DEF CopyTarget, Shaped, Evidence
  <2>2. CASE m[1] \in s3Buckets
    <3>1. at'[c] = "write"
      BY <1>4, <1>6, <2>1, <2>2 DEF CopyTarget, requireBucket, BucketsExist, Goto, TypeOK
    <3>2. Showed(c, req[c].from, held[c])'
      BY <1>0, <1>3, <2>1 DEF Showed
    <3> QED  BY <1>0, <2>1, <3>1, <3>2 DEF Evidence
  <2>3. CASE m[1] \notin s3Buckets
    <3>1. at'[c] = "done" /\ reply'[c] = "NoSuchBucket"
      BY <1>4, <1>6, <2>1, <2>3 DEF CopyTarget, requireBucket, BucketsExist, Reply, Goto, TypeOK
    <3>2. Showed(c, {m}, "NoSuchBucket")'
      BY <1>2, <1>4, <1>6, <2>3 DEF CopyTarget, Reads, View, indexVars, Showed
    <3> QED  BY <1>0, <1>4, <2>1, <3>1, <3>2 DEF Evidence, ReadWasTrue, WriteTookEffect, ReadOps
  <2> QED  BY <2>2, <2>3
<1> QED  BY <1>5, <1>6

(* Deletions, and how requests begin and end. *)
LEMMA EvidenceRest ==
  ASSUME IndexInv, IndexInv', Next, NEW c \in Clients, Evidence(c),
         BeginAny(c) \/ EraseKey(c) \/ Erased(c) \/ RequestFails(c) \/ Finish(c)
  PROVE  Evidence(c)'
<1> USE DEF IndexInv
<1>1. CASE BeginAny(c)
  <2>1. at'[c] \in {"image", "lookup", "require"}
    BY <1>1 DEF BeginAny, Begin, Goto, TypeOK
  <2> QED  BY <2>1 DEF Evidence
<1>2. CASE Finish(c)
  <2>1. at'[c] = "idle"
    BY <1>2 DEF Finish, Goto, TypeOK
  <2> QED  BY <2>1 DEF Evidence
<1>3. CASE RequestFails(c)
  <2>1. at'[c] = "done" /\ reply'[c] = "error"
    BY <1>3 DEF RequestFails, Reply, Goto, TypeOK
  <2> QED  BY <2>1 DEF Evidence, ReadWasTrue, WriteTookEffect
<1>4. CASE EraseKey(c) \/ Erased(c)
  <2>1. /\ req'[c] = req[c] /\ at[c] = "erase" /\ req[c].op = "delete" /\ reply[c] = "none"
        /\ at'[c] \in {"erase", "done"} /\ reply'[c] \in {"none", "ok"}
    BY <1>4 DEF EraseKey, Erased, Reply, Goto, TypeOK, Shape, Shaped
  <2>2. PICK s \in seen'[c] : \A n \in req[c].to \cup req[c].from : s[n] = View(n)'
    BY <2>1, SeenGrows
  <2>3. seen[c] \subseteq seen'[c]
    BY <2>1, SeenGrows
  <2>4. \A n \in req[c].to : result'[c][n] = "Deleted" =>
          \E t \in seen'[c] : ContentOf(t[n]) = NoRoot
    <3> SUFFICES ASSUME NEW n \in req[c].to, result'[c][n] = "Deleted"
                 PROVE  \E t \in seen'[c] : ContentOf(t[n]) = NoRoot
      OBVIOUS
    <3>1. CASE result[c][n] = "Deleted"
      BY <2>1, <2>3, <3>1 DEF Evidence
    <3>2. CASE result[c][n] # "Deleted"
      <4>1. n \in Names /\ EraseKey(c)
        BY <1>4, <3>2 DEF TypeOK, Request, Erased
      <4>2. S3DeleteObjectKey(n)
        BY <3>2, <4>1 DEF EraseKey, TypeOK
      <4>3. s3Keys'[n] = NoRoot
        BY <4>1, <4>2 DEF S3DeleteObjectKey, TypeOK, IndexTypeOK
      <4>4. ContentOf(View(n)') = NoRoot
        BY <4>3, ContentAssumption DEF View, ContentOf
      <4> QED  BY <2>2, <4>4
    <3> QED  BY <3>1, <3>2
  <2> QED  BY <2>1, <2>4 DEF Evidence, ReadWasTrue, WriteTookEffect, ReadOps
<1> QED  BY <1>1, <1>2, <1>3, <1>4

(* What the theorems on the answers rest on. *)
S3Inv == IndexInv /\ \A c \in Clients : Evidence(c)

(* The whole invariant holds initially. *)
LEMMA S3InvInit == Init => S3Inv
<1> SUFFICES ASSUME Init, NEW c \in Clients PROVE Evidence(c)
  BY IndexInvInit DEF S3Inv
<1> QED  BY DEF Init, Evidence

(* Every step keeps it: the handler that moves by the lemmas on its steps,   *)
(* the others because evidence stays.                                        *)
LEMMA S3InvStep == S3Inv /\ [Next]_vars => S3Inv'
<1> SUFFICES ASSUME S3Inv, [Next]_vars PROVE S3Inv'
  OBVIOUS
<1>0. IndexInv /\ IndexInv'
  BY IndexInvStep DEF S3Inv
<1> SUFFICES ASSUME NEW d \in Clients PROVE Evidence(d)'
  BY <1>0 DEF S3Inv
<1>1. Evidence(d)
  BY DEF S3Inv
<1>2. CASE UNCHANGED vars
  BY <1>1, <1>2 DEF vars, handlerVars, indexVars, Evidence, ReadWasTrue, WriteTookEffect,
     Showed, ConditionsMet
<1>3. CASE Next
  <2>1. CASE \E c \in Clients : Handler(c)
    <3>1. PICK c \in Clients : Handler(c)
      BY <2>1
    <3>2. CASE d = c
      BY <1>0, <1>1, <1>3, <3>1, <3>2, EvidenceReads, EvidencePut, EvidenceWrite, EvidenceRest
         DEF Handler
    <3>3. CASE d # c
      BY <1>0, <1>1, <1>3, <3>1, <3>3, OthersStay, EvidenceStays DEF IndexInv
    <3> QED  BY <3>2, <3>3
  <2>2. CASE UNCHANGED handlerVars
    BY <1>0, <1>1, <1>3, <2>2, EvidenceStays DEF handlerVars
  <2>3. CASE Restart
    BY <2>3 DEF Restart, Evidence
  <2> QED  BY <1>3, <2>1, <2>2, <2>3 DEF Next, BucketOperation, Shutdown
<1> QED  BY <1>2, <1>3

(* It is an invariant. *)
LEMMA S3Invariant == Spec => []S3Inv
  BY S3InvInit, S3InvStep, PTL DEF Spec

(* What a GET, HEAD, LIST or image request is told had been so at one moment *)
(* while it ran, whatever else the gateway did in the meantime.              *)
THEOREM ReadsAreTrue == Spec => []ReadsWereTrue
<1>1. S3Inv => ReadsWereTrue
  BY DEF S3Inv, Evidence, ReadsWereTrue
<1> QED  BY <1>1, S3Invariant, PTL

(* What a PUT, COPY or DELETE is told has happened, or was in its way, had   *)
(* happened or been in its way at one moment while it ran.                   *)
THEOREM WritesAreTrue == Spec => []WritesTookEffect
<1>1. S3Inv => WritesTookEffect
  BY DEF S3Inv, Evidence, WritesTookEffect
<1> QED  BY <1>1, S3Invariant, PTL
===============================================================================
