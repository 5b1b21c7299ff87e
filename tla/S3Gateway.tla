------------------------------ MODULE S3Gateway ------------------------------
(* internal/s3gw/backend.go: the S3 operations, each request a handler that  *)
(* interleaves with the others between any two transactions, and main.go's   *)
(* shutdown around them.  The object service is reduced to what Archive      *)
(* promises: a PUT that succeeds leaves the content known, and no content is *)
(* forgotten.  gofakes3 may create a missing bucket on its own before it     *)
(* calls a handler (WithAutoBucket); that is the CreateBucket of some other  *)
(* client here.                                                              *)
EXTENDS S3Index, FiniteSets

CONSTANT Clients   \* concurrent requests

(* A root is a hash, none of the words used here for other outcomes. *)
ASSUME ContentAssumption ==
  (Roots \cup {NoRoot}) \cap {"NoSuchKey", "NoSuchBucket", "Deleted", "Error"} = {}

VARIABLES
  known,      \* contents with metadata in the object store
  at,         \* where each handler is
  req,        \* its request
  held,       \* the root it has in hand
  result,     \* per key: what a LIST read, or the outcome of a DELETE
  reply,      \* its outcome, once there is one
  server,     \* the process: serving, or on its way out with the store closed
  seen        \* history: what the index said of its names, since it began

handlerVars == <<at, req, held, result, reply>>
vars == <<indexVars, known, handlerVars, server, seen>>

Content == Roots \cup {NoRoot}
AnyContent == Content        \* a PUT without conditions
NoResult == [n \in Names |-> NoRoot]

(* A HEAD is a GET whose last step reads the metadata instead of the file. *)
Ops == {"put", "get", "image", "copy", "delete", "list"}

(* to: the names written, deleted or listed, all of one bucket; from: the    *)
(* name read; cond: the contents of the key, NoRoot for none, that If-Match  *)
(* and If-None-Match accept.                                                 *)
Request ==
  [op : Ops, to : SUBSET Names, from : SUBSET Names, root : Content, cond : SUBSET Content]

HandlerAt == {"idle", "require", "cond", "ingest", "write", "image", "render",
              "lookup", "missed", "open", "dest", "erase", "list", "done"}

Replies == {"none", "ok", "NoSuchKey", "NoSuchBucket", "PreconditionFailed", "error"}

NoRequest == [op |-> "get", to |-> {}, from |-> {}, root |-> NoRoot, cond |-> AnyContent]

Init ==
  /\ IndexInit
  /\ known = {}
  /\ at = [c \in Clients |-> "idle"]
  /\ req = [c \in Clients |-> NoRequest]
  /\ held = [c \in Clients |-> NoRoot]
  /\ result = [c \in Clients |-> NoResult]
  /\ reply = [c \in Clients |-> "none"]
  /\ server = "serving"
  /\ seen = [c \in Clients |-> {}]
-----------------------------------------------------------------------------
Goto(c, where) == at' = [at EXCEPT ![c] = where]

Reply(c, what) == Goto(c, "done") /\ reply' = [reply EXCEPT ![c] = what]

Hold(c, r) == held' = [held EXCEPT ![c] = r]

(* The store answers until main has closed it. *)
Open == server = "serving"

Reads(c) == Open /\ UNCHANGED <<indexVars, known, req>>

BucketsExist(ns) == \A n \in ns : n[1] \in s3Buckets

requireBucket(c, ns, next) ==
  IF BucketsExist(ns)
  THEN Goto(c, next) /\ UNCHANGED reply
  ELSE Reply(c, "NoSuchBucket")
-----------------------------------------------------------------------------
(* Requests.  Where a handler starts is the first thing its operation does.  *)

Put(n, r, cond) == [NoRequest EXCEPT !.op = "put", !.to = {n}, !.root = r, !.cond = cond]
Read(op, n) == [NoRequest EXCEPT !.op = op, !.from = {n}]
Copy(n, m) == [NoRequest EXCEPT !.op = "copy", !.to = {m}, !.from = {n}]
Delete(b, ks) == [NoRequest EXCEPT !.op = "delete", !.to = {b} \X ks]
List(b) == [NoRequest EXCEPT !.op = "list", !.to = {b} \X Keys]

(* No condition; If-None-Match: *; If-Match and If-None-Match with an ETag.  *)
Conditions ==
  {AnyContent, {NoRoot}} \cup {{r} : r \in Roots} \cup {AnyContent \ {r} : r \in Roots}

Begin(c, q) ==
  /\ server = "serving" /\ at[c] = "idle"
  /\ Goto(c, IF q.op = "image" THEN "image"
             ELSE IF q.op \in {"get", "copy"} THEN "lookup" ELSE "require")
  /\ req' = [req EXCEPT ![c] = q]
  /\ UNCHANGED <<indexVars, known, held, result, reply, server>>

BeginAny(c) ==
  \/ \E n \in Names, r \in Roots, cond \in Conditions : Begin(c, Put(n, r, cond))
  \/ \E n \in Names, op \in {"get", "image"} : Begin(c, Read(op, n))
  \/ \E n, m \in Names : Begin(c, Copy(n, m))
  \/ \E b \in Buckets, ks \in SUBSET Keys : ks # {} /\ Begin(c, Delete(b, ks))
  \/ \E b \in Buckets : Begin(c, List(b))

(* PutObject, DeleteObject, DeleteMulti and ListBucket look at the bucket    *)
(* first.                                                                    *)
Require(c) ==
  /\ at[c] = "require" /\ Reads(c)
  /\ requireBucket(c, req[c].to,
       IF req[c].op = "delete" THEN "erase"
       ELSE IF req[c].op = "list" THEN "list"
       ELSE IF req[c].cond = AnyContent THEN "ingest" ELSE "cond")
  /\ UNCHANGED <<held, result, server>>
-----------------------------------------------------------------------------
(* PutObject *)

(* conditionalInfo and CheckPutConditions.  The metadata of a mapped root is *)
(* read after the mapping; it never goes away, so that is one step.          *)
CheckPutConditions(c) ==
  /\ at[c] = "cond" /\ Reads(c)
  /\ \E n \in req[c].to :
       LET r == S3GetObjectKey(n)
           info == IF r \in known THEN r ELSE NoRoot
       IN  IF info \in req[c].cond
           THEN Goto(c, "ingest") /\ UNCHANGED reply
           ELSE Reply(c, "PreconditionFailed")
  /\ UNCHANGED <<held, result, server>>

(* Mutant: an error of the object service is not looked at. *)
IngestUnchecked(c) ==
  /\ at[c] = "ingest" /\ Open
  /\ known' \in {known, known \cup {req[c].root}}
  /\ Hold(c, req[c].root)
  /\ Goto(c, "write")
  /\ UNCHANGED <<indexVars, req, result, reply, server>>

(* svc.Put; its errors are among RequestFails. *)
Ingest(c) ==
  /\ at[c] = "ingest" /\ Open
  /\ known' = known \cup {req[c].root}
  /\ Hold(c, req[c].root)
  /\ Goto(c, "write")
  /\ UNCHANGED <<indexVars, req, result, reply, server>>

(* Mutant: a bucket that is gone by now is not an error. *)
WriteKeyIgnoresError(c) ==
  /\ at[c] = "write" /\ Open
  /\ \E n \in req[c].to :
       \/ S3PutObjectKey(n, held[c])
       \/ n[1] \notin s3Buckets /\ UNCHANGED indexVars
  /\ Reply(c, "ok")
  /\ UNCHANGED <<known, req, held, result, server>>

(* The mapping of PutObject and CopyObject, which may find the bucket gone.  *)
WriteKey(c) ==
  /\ at[c] = "write" /\ Open
  /\ \E n \in req[c].to :
       \/ S3PutObjectKey(n, held[c]) /\ Reply(c, "ok")
       \/ n[1] \notin s3Buckets /\ Reply(c, "NoSuchBucket") /\ UNCHANGED indexVars
  /\ UNCHANGED <<known, req, held, result, server>>
-----------------------------------------------------------------------------
(* GetObject, HeadObject and CopyObject *)

Found(c) == IF req[c].op = "copy" THEN "dest" ELSE "open"

(* Hold the root the name read from is mapped to, and go on if it has one.   *)
Lookup(c, found, missing) ==
  \E n \in req[c].from :
    /\ Hold(c, S3GetObjectKey(n))
    /\ Goto(c, IF S3GetObjectKey(n) # NoRoot THEN found ELSE missing)

(* Mutant: the bucket is looked at before the key instead of after a miss. *)
resolveBucketFirst(c) ==
  /\ Reads(c)
  /\ \/ /\ at[c] = "lookup"
        /\ requireBucket(c, req[c].from, "missed")
        /\ UNCHANGED held
     \/ /\ at[c] = "missed"
        /\ Lookup(c, Found(c), "done")
        /\ reply' = [reply EXCEPT ![c] = IF at'[c] = "done" THEN "NoSuchKey" ELSE @]
  /\ UNCHANGED <<result, server>>

(* The key, and only on a miss the bucket, in another transaction. *)
resolve(c) ==
  /\ Reads(c)
  /\ \/ /\ at[c] = "lookup"
        /\ Lookup(c, Found(c), "missed")
        /\ UNCHANGED reply
     \/ /\ at[c] = "missed"
        /\ Reply(c, IF BucketsExist(req[c].from) THEN "NoSuchKey" ELSE "NoSuchBucket")
        /\ UNCHANGED held
  /\ UNCHANGED <<result, server>>

(* ImageProcessHandler, in front of GetObject: a key it does not find is     *)
(* left to GetObject, which looks it up again.                               *)
ImageProcess(c) ==
  /\ Reads(c)
  /\ \/ /\ at[c] = "image"
        /\ Lookup(c, "render", "lookup")
        /\ UNCHANGED reply
     \/ /\ at[c] = "render"
        /\ Reply(c, IF held[c] \in known THEN "ok" ELSE "error")
        /\ UNCHANGED held
  /\ UNCHANGED <<result, server>>

(* svc.Open for a GET, the metadata for a HEAD. *)
OpenObject(c) ==
  /\ at[c] = "open" /\ Reads(c)
  /\ Reply(c, IF held[c] \in known THEN "ok" ELSE "NoSuchKey")
  /\ UNCHANGED <<held, result, server>>

(* CopyObject maps the destination to the root in hand; no bytes move.  The  *)
(* metadata is read after the look at the bucket; none ever goes away, so    *)
(* that is one step.                                                         *)
CopyTarget(c) ==
  /\ at[c] = "dest" /\ Reads(c)
  /\ IF held[c] \in known
     THEN requireBucket(c, req[c].to, "write")
     ELSE Reply(c, IF BucketsExist(req[c].to) THEN "NoSuchKey" ELSE "NoSuchBucket")
  /\ UNCHANGED <<held, result, server>>
-----------------------------------------------------------------------------
(* DeleteObject, DeleteMulti and ListBucket *)

(* One transaction per key.  DeleteMulti notes a failure and goes on with    *)
(* the other keys.                                                           *)
EraseKey(c) ==
  /\ at[c] = "erase"
  /\ \E n \in req[c].to :
       /\ result[c][n] = NoRoot
       /\ \/ /\ Open /\ S3DeleteObjectKey(n)
             /\ result' = [result EXCEPT ![c][n] = "Deleted"]
          \/ result' = [result EXCEPT ![c][n] = "Error"] /\ UNCHANGED indexVars
  /\ UNCHANGED <<known, at, req, held, reply, server>>

Erased(c) ==
  /\ at[c] = "erase"
  /\ \A n \in req[c].to : result[c][n] # NoRoot
  /\ Reply(c, "ok")
  /\ UNCHANGED <<indexVars, known, req, held, result, server>>

ListKeys(c) ==
  /\ at[c] = "list" /\ Reads(c)
  /\ \E b \in Buckets :
       /\ req[c].to = {b} \X Keys
       /\ result' = [result EXCEPT ![c] = S3ListObjects(b, known)]
  /\ Reply(c, "ok")
  /\ UNCHANGED <<held, server>>
-----------------------------------------------------------------------------
(* An error of the store or of the object service ends the request.  Of the  *)
(* deletions only DeleteObject, which has one key, ends with it.             *)
RequestFails(c) ==
  /\ at[c] \notin {"idle", "done"}
  /\ at[c] = "erase" => Cardinality(req[c].to) = 1 /\ result[c] = NoResult
  /\ Reply(c, "error")
  /\ UNCHANGED <<indexVars, known, req, held, result, server>>

(* The client has the reply, and may send another request. *)
Finish(c) ==
  /\ at[c] = "done"
  /\ Goto(c, "idle")
  /\ req' = [req EXCEPT ![c] = NoRequest]
  /\ Hold(c, NoRoot)
  /\ result' = [result EXCEPT ![c] = NoResult]
  /\ reply' = [reply EXCEPT ![c] = "none"]
  /\ UNCHANGED <<indexVars, known, server>>

(* CreateBucket, DeleteBucket and ForceDeleteBucket are one transaction      *)
(* each.  One that fails leaves no trace.                                    *)
BucketOperation(b) ==
  /\ Open
  /\ S3CreateBucket(b) \/ S3DeleteBucket(b) \/ S3ForceDeleteBucket(b)
  /\ UNCHANGED <<known, handlerVars, server>>
-----------------------------------------------------------------------------
(* main.  On a signal Shutdown stops taking requests and waits for those     *)
(* under way, but it also makes ListenAndServe return, so main returns and   *)
(* closes the store on its way out.  Requests move between the signal and    *)
(* the close as they did before the signal, so the two are one step.         *)
Shutdown ==
  /\ server = "serving" /\ server' = "closed"
  /\ UNCHANGED <<indexVars, known, handlerVars>>

(* The process ends, by returning from main or by a crash, and starts again. *)
Restart ==
  /\ server' = "serving"
  /\ at' = [c \in Clients |-> "idle"]
  /\ req' = [c \in Clients |-> NoRequest]
  /\ held' = [c \in Clients |-> NoRoot]
  /\ result' = [c \in Clients |-> NoResult]
  /\ reply' = [c \in Clients |-> "none"]
  /\ UNCHANGED <<indexVars, known>>
-----------------------------------------------------------------------------
(* History.  What a client could have learnt of a name at one moment, and    *)
(* all it could have learnt of its request's names until the reply.  Of a    *)
(* request that failed nothing is asked.                                     *)

View(n) ==
  IF n[1] \notin s3Buckets THEN "NoSuchBucket"
  ELSE IF s3Keys[n] = NoRoot THEN "NoSuchKey" ELSE s3Keys[n]

ReadOps == {"get", "image"}

Snapshot(c) == [n \in req[c].to \cup req[c].from |-> View(n)]

Remember ==
  seen' = [c \in Clients |->
             IF at'[c] = "idle" \/ reply'[c] = "error" THEN {}
             ELSE IF at[c] = "done" THEN seen[c]
             ELSE seen[c] \cup {Snapshot(c)'}]
-----------------------------------------------------------------------------
Handler(c) ==
  \/ BeginAny(c) \/ Require(c) \/ CheckPutConditions(c) \/ Ingest(c) \/ WriteKey(c)
  \/ resolve(c) \/ ImageProcess(c) \/ OpenObject(c) \/ CopyTarget(c)
  \/ EraseKey(c) \/ Erased(c) \/ ListKeys(c) \/ RequestFails(c) \/ Finish(c)

Next ==
  /\ \/ \E c \in Clients : Handler(c)
     \/ \E b \in Buckets : BucketOperation(b)
     \/ Shutdown \/ Restart
  /\ Remember

Spec == Init /\ [][Next]_vars
-----------------------------------------------------------------------------
(* Every variable stays in the set its Go counterpart ranges over. *)
TypeOK ==
  /\ IndexTypeOK
  /\ known \subseteq Roots
  /\ at \in [Clients -> HandlerAt]
  /\ req \in [Clients -> Request]
  /\ held \in [Clients -> Content]
  /\ result \in [Clients -> [Names -> Content \cup {"Deleted", "Error"}]]
  /\ reply \in [Clients -> Replies]
  /\ server \in {"serving", "closed"}

(* A bucket deleted while a PUT or COPY into it is under way leaves no key   *)
(* behind (the comment of S3PutObjectKey, store.go:373): otherwise the key   *)
(* would be served although its bucket is gone, and show up in a bucket      *)
(* created later under that name.                                            *)
NoOrphanKeys == \A n \in Names : s3Keys[n] # NoRoot => n[1] \in s3Buckets

(* A key maps to content the object store knows, whatever fails or crashes   *)
(* between the ingest and the write of the key: a listed key can be opened.  *)
KeysResolve == \A n \in Names : s3Keys[n] # NoRoot => s3Keys[n] \in known

(* At some moment since c's request began the index showed v for all of ns. *)
Showed(c, ns, v) == \E s \in seen[c] : \A n \in ns : s[n] = v

ContentOf(v) == IF v \in Roots THEN v ELSE NoRoot

ReadWasTrue(c) ==
  LET q == req[c]
  IN  /\ q.op \in ReadOps /\ reply[c] = "ok" => Showed(c, q.from, held[c])
      /\ q.op \in ReadOps /\ reply[c] \in {"NoSuchKey", "NoSuchBucket"} =>
           Showed(c, q.from, reply[c])
      /\ q.op = "list" /\ reply[c] = "ok" =>
           \E s \in seen[c] : \A n \in q.to : ContentOf(s[n]) = result[c][n]

(* What a GET, HEAD, LIST or image request was told had been so at one       *)
(* moment while it ran, although resolve looks at the key and at the bucket  *)
(* in two transactions: no NoSuchKey for a key that was there until its      *)
(* bucket went, no listing that mixes two states of the bucket.  A LIST      *)
(* whose bucket goes after the look at it may be empty instead of an error.  *)
ReadsWereTrue == \A c \in Clients : at[c] = "done" => ReadWasTrue(c)

ConditionsMet(c, s) == \A n \in req[c].to : ContentOf(s[n]) \in req[c].cond

WriteTookEffect(c) ==
  LET q == req[c]
  IN  /\ q.op \in {"put", "copy"} /\ reply[c] = "ok" => Showed(c, q.to, held[c])
      /\ q.op = "copy" /\ reply[c] = "ok" => Showed(c, q.from, held[c])
      /\ q.op = "copy" /\ reply[c] = "NoSuchKey" => Showed(c, q.from, "NoSuchKey")
      /\ q.op = "put" /\ reply[c] = "ok" => \E s \in seen[c] : ConditionsMet(c, s)
      /\ reply[c] = "PreconditionFailed" => \E s \in seen[c] : ~ConditionsMet(c, s)
      /\ q.op \notin ReadOps /\ reply[c] = "NoSuchBucket" =>
           \E n \in q.to \cup q.from : Showed(c, {n}, "NoSuchBucket")
      /\ q.op = "delete" /\ reply[c] = "ok" =>
           \A n \in q.to : result[c][n] = "Deleted" =>
             \E s \in seen[c] : ContentOf(s[n]) = NoRoot

(* What a PUT, COPY or DELETE was told had been so: the key had the content  *)
(* that was acknowledged, the copied content was its source's, the content   *)
(* replaced met the conditions at some moment (backend.go:99 says the check  *)
(* is not atomic with the write), a key reported deleted was gone, and a     *)
(* refusal names something that was really missing.                          *)
WritesTookEffect == \A c \in Clients : at[c] = "done" => WriteTookEffect(c)

(* docs/architecture.md:102 calls the shutdown in main.go graceful: requests *)
(* accepted before the signal are finished before their store is closed.     *)
GracefulShutdown ==
  server = "closed" => \A c \in Clients : at[c] \in {"idle", "done"}
=============================================================================
