------------------------------ MODULE FrontEnd ------------------------------
(* What a process does around the S3 backend: main loads the configuration   *)
(* and serves, and a request passes the middlewares of Wrap, in their order, *)
(* on its way to gofakes3 and on the way back.  One request at a time: they  *)
(* share no state here.                                                      *)
EXTENDS CopySource, Resize, Config

CONSTANTS
  FileProfiles,   \* values the configuration file may give the settings
  EnvProfiles,    \* values the environment may give them
  AskedDims,      \* numbers a client may ask for as width or height
  MaxParams,      \* bound: parameters of a resize action
  MaxSide,        \* bound: width and height of an image
  MaxPasses,      \* bound: times a copy source is normalised
  MaxChunks       \* bound: writes of a response body

(* A file with a negative expected_replica does not parse, an environment    *)
(* variable that is empty is not set, and a list of nodes is shorter than    *)
(* the largest uint.                                                         *)
ASSUME ProfilesAssumption ==
  /\ FileProfiles \cup EnvProfiles \subseteq [Settings -> Int]
  /\ \A p \in FileProfiles \cup EnvProfiles : p.nodes \in 0 .. UintMod - 1
  /\ \A p \in FileProfiles : p.expected_replica \in 0 .. UintMod - 1
  /\ \A p \in EnvProfiles : p.eth_rpc # 0

ASSUME FrontEndAssumption ==
  /\ AskedDims \subseteq Int
  /\ MaxParams \in Nat /\ MaxSide \in Nat /\ MaxPasses \in Nat /\ MaxChunks \in Nat

VARIABLES
  stage,     \* where the process, or the request, is
  booted,    \* what loadConfig made of the operator's settings
  request,   \* the request
  header,    \* its X-Amz-Copy-Source
  passes,    \* how often that was normalised
  image,     \* the size of an image that was resized, and of the result
  response   \* the response as net/http keeps it

vars == <<stage, booted, request, header, passes, image, response>>

(* plus: the client escapes a copy source as a query. *)
NoRequest ==
  [method |-> "none", keyed |-> FALSE, key |-> <<>>, plus |-> FALSE, spec |-> <<>>]
NotBooted == [ok |-> FALSE, cfg |-> defaultConfig]
NoImage == [of |-> <<0, 0>>, to |-> <<0, 0>>]

(* type: the Content-Type header, given: what the handler last set it to;    *)
(* sent: its value when the header was written, "none" before; first: what   *)
(* the body begins with; wrapped, committed: there is an                     *)
(* xmlContentTypeWriter, and its field; early: the handler wrote the header  *)
(* itself, without a type.                                                   *)
NoResponse ==
  [type |-> "", given |-> "", sent |-> "none", first |-> "none", chunks |-> 0,
   wrapped |-> FALSE, committed |-> FALSE, early |-> FALSE]

Init ==
  /\ stage = "boot"
  /\ booted = NotBooted
  /\ request = NoRequest
  /\ header = <<>>
  /\ passes = 0
  /\ image = NoImage
  /\ response = NoResponse
-----------------------------------------------------------------------------
(* Process start *)

(* What the operator may have set: some settings, from one of the profiles.  *)
Given(profiles) == {Restrict(p, S) : S \in SUBSET Settings, p \in profiles}

Files ==
  [read : {"ok"}, keys : Given(FileProfiles)]
    \cup [read : {"missing", "unreadable", "malformed"}, keys : {[s \in {} |-> 0]}]
Environments == [parses : BOOLEAN, keys : Given(EnvProfiles)]

Boot ==
  /\ stage = "boot"
  /\ \E explicit \in BOOLEAN, file \in Files, env \in Environments :
       booted' = loadConfig(explicit, file, env)
  /\ stage' = IF booted'.ok THEN "ready" ELSE "exit"
  /\ UNCHANGED <<request, header, passes, image, response>>

(* main does not read the settings again once it has handed them out. *)
Serve ==
  /\ stage = "ready"
  /\ stage' = "serving" /\ booted' = NotBooted
  /\ UNCHANGED <<request, header, passes, image, response>>
-----------------------------------------------------------------------------
(* A request, and Wrap: BackpressureHandler, FixCopySourceHandler,           *)
(* ImageProcessHandler, FixXMLContentTypeHandler.                            *)

Specs == UNION {[1..n -> ({"w", "h"} \X AskedDims)
                          \cup ({"m"} \X {"fill", "fixed", "pad"})] : n \in 0..MaxParams}

Arrive(q, h) ==
  /\ stage = "serving" /\ stage' = "backpressure"
  /\ request' = q /\ header' = h
  /\ UNCHANGED <<booted, passes, image, response>>

ArriveAny ==
  \/ \E k \in KeysOfClients, plus \in BOOLEAN : \E h \in Sources(k, plus) :
       Arrive([NoRequest EXCEPT !.method = "PUT", !.keyed = TRUE, !.key = k, !.plus = plus], h)
  \/ \E s \in Specs, keyed \in BOOLEAN :
       Arrive([NoRequest EXCEPT !.method = "GET", !.keyed = keyed, !.spec = s], <<>>)
  \/ \E m \in {"HEAD", "PUT", "DELETE"}, keyed \in BOOLEAN :
       Arrive([NoRequest EXCEPT !.method = m, !.keyed = keyed], <<>>)

isObjectWrite == request.method = "PUT" /\ header = <<>> /\ request.keyed

(* ShouldRejectWrite is the object service's: see ObjectService. *)
Backpressure ==
  /\ stage = "backpressure"
  /\ \/ isObjectWrite /\ stage' = "replied" /\ response' = [response EXCEPT
            !.type = "application/xml", !.sent = "application/xml"]
     \/ stage' = "copysource" /\ UNCHANGED response
  /\ UNCHANGED <<booted, request, header, passes, image>>

(* The header may come from another gateway in front, already normalised. *)
FixCopySource ==
  /\ stage = "copysource" /\ passes < MaxPasses
  /\ header' = normalizeCopySource(header)
  /\ passes' = passes + 1
  /\ stage' \in {"image"} \cup (IF passes' < MaxPasses THEN {"copysource"} ELSE {})
  /\ UNCHANGED <<booted, request, image, response>>

(* An image of any size up to the limits, or an error. *)
ResizeReader(spec) ==
  \/ \E sw, sh \in 1..MaxSide :
       \E d \in transform(sw, sh, spec.w, spec.h, spec.mode) :
         image' = [of |-> <<sw, sh>>, to |-> d]
  \/ UNCHANGED image

(* A key that is not there is left to gofakes3, as is a request that is not  *)
(* for a resized image.  An error is answered in plain text.                 *)
ImageProcess ==
  LET spec == parseHuaweiResize(request.spec)
  IN  /\ stage = "image"
      /\ \/ stage' = "xml" /\ UNCHANGED <<image, response>>
         \/ /\ request.method = "GET" /\ request.keyed /\ spec.ok
            /\ stage' = "replied"
            /\ ResizeReader(spec)
            /\ response' = [response EXCEPT !.type = "other", !.sent = "other"]
      /\ UNCHANGED <<booted, request, header, passes>>

isObjectRead == request.method \in {"GET", "HEAD"} /\ request.keyed

(* What the request was is not looked at again on the way back. *)
FixXMLContentType ==
  /\ stage = "xml" /\ stage' = "gofakes3"
  /\ response' = [response EXCEPT !.wrapped = ~isObjectRead]
  /\ request' = NoRequest /\ header' = <<>> /\ passes' = 0
  /\ UNCHANGED <<booted, image>>
-----------------------------------------------------------------------------
(* The response: gofakes3 sets a type or not, writes the header itself or    *)
(* not, and writes the body (external); xmlContentTypeWriter is in between.  *)

normalize(x, body) ==
  IF ~x.wrapped \/ x.committed THEN x
  ELSE [x EXCEPT !.committed = TRUE,
                 !.type = IF @ = "text/xml" \/ (@ = "" /\ body = "xml") THEN "application/xml" ELSE @]

SetType ==
  /\ response.sent = "none"
  /\ \E t \in {"text/xml", "other"} : response' = [response EXCEPT !.type = t, !.given = t]

(* Mutant: only a body is looked at. *)
WriteHeaderPlain ==
  /\ response.sent = "none"
  /\ response' = [response EXCEPT !.sent = response.type, !.early = response.type = ""]

WriteHeader ==
  LET x == normalize(response, "none")
  IN  /\ response.sent = "none"
      /\ response' = [x EXCEPT !.sent = x.type, !.early = x.type = ""]

Write ==
  /\ response.chunks < MaxChunks
  /\ \E body \in {"xml", "other"} :
       LET x == normalize(response, body)
       IN  response' = [x EXCEPT !.sent = IF @ = "none" THEN x.type ELSE @,
                                 !.first = IF @ = "none" THEN body ELSE @,
                                 !.chunks = @ + 1]

Respond ==
  /\ stage = "gofakes3"
  /\ \/ (SetType \/ WriteHeader \/ Write) /\ UNCHANGED stage
     \/ stage' = "replied" /\ UNCHANGED response
  /\ UNCHANGED <<booted, request, header, passes, image>>

(* The next request, or the next attempt to start. *)
Again ==
  /\ stage \in {"replied", "exit"}
  /\ stage' = IF stage = "exit" THEN "boot" ELSE "serving"
  /\ booted' = NotBooted /\ request' = NoRequest /\ header' = <<>> /\ passes' = 0
  /\ image' = NoImage /\ response' = NoResponse

Next ==
  \/ Boot \/ Serve \/ ArriveAny
  \/ Backpressure \/ FixCopySource \/ ImageProcess \/ FixXMLContentType
  \/ Respond \/ Again

Spec == Init /\ [][Next]_vars
-----------------------------------------------------------------------------
(* Whatever the operator sets, and wherever, what main starts with can run:  *)
(* a ticker with a positive interval (unless it is past the 292 years that   *)
(* an int64 of nanoseconds holds), batches that are not empty, at least one  *)
(* node and one replica to ask for, and a cache limit that ShouldRejectWrite *)
(* understands.  validate checks some of it, main and uploader.New mend the  *)
(* rest.                                                                     *)
BootsRunnable ==
  LET cfg == booted.cfg
  IN  stage = "ready" =>
        /\ 2 * cfg.flush_interval_ms * Millisecond < UintMod => flushInterval(cfg) > 0
        /\ BatchMaxOf(cfg) > 0
        /\ cfg.nodes > 0 /\ Replica(cfg) \in 1..(UintMod - 1)
        /\ cfg.eth_rpc # 0 /\ cfg.cache_max_bytes >= 0

(* gofakes3 copies from the object the client named, from a header escaped   *)
(* for a path and normalised once.  From one escaped for a query, or         *)
(* normalised before, it does so if the key has no space: AlreadyCorrectKept *)
(* is about the keys that have one.                                          *)
CopyReadsItsSource ==
  LET key == request.key
      spaced == \E i \in DOMAIN key : key[i] = " "
  IN  stage = "image" /\ key # <<>> /\ (~spaced \/ (passes = 1 /\ ~request.plus)) =>
        copyObjectSource(header) = <<<<"a">>, key>>

(* An image of sw by sh, resized to w by h as spec asks. *)
Near(a, b, unit) == 2 * (a - b) <= unit /\ 2 * (b - a) <= unit

Fits(spec, sw, sh, w, h) ==
  LET boxed == spec.w > 0 /\ spec.h > 0
  IN  /\ w >= 1 /\ h >= 1
      /\ boxed => w <= spec.w /\ h <= spec.h
      /\ IF boxed /\ spec.mode # "lfit" THEN w = spec.w /\ h = spec.h
         ELSE \/ w = spec.w /\ (Near(h * sw, w * sh, sw) \/ (h = 1 /\ w * sh < sw))
              \/ h = spec.h /\ (Near(w * sh, h * sw, sh) \/ (w = 1 /\ h * sw < sh))

(* A resized image has a pixel at least and keeps to the box that was asked  *)
(* for.  It fills the box where the mode says so; otherwise it meets a side  *)
(* that was asked for, and the other side is the one its source's            *)
(* proportions give, to half a pixel unless that leaves none.                *)
RendersFit ==
  image # NoImage =>
    Fits(parseHuaweiResize(request.spec),
         image.of[1], image.of[2], image.to[1], image.to[2])

(* The Content-Type the client reads, where net/http adds one by looking at  *)
(* the body if there was none.                                               *)
TypeRead(x) ==
  IF x.sent # "" THEN x.sent ELSE IF x.first = "xml" THEN "text/xml" ELSE "other"

(* An XML response that is not an object's is read as application/xml, which *)
(* the strict SDK insists on, and no other type is touched.  This leaves out *)
(* the XML body whose header was written before it had a type, of which      *)
(* XMLAlwaysNormalized speaks.  A handler that writes nothing never reaches  *)
(* the writer.                                                               *)
XMLTypeAccepted ==
  LET headerFirst == response.early /\ response.first = "xml"
  IN  stage = "replied" /\ response.wrapped /\ response.sent # "none" /\ ~headerFirst =>
        TypeRead(response) =
          CASE response.given = "text/xml" -> "application/xml"
            [] response.given = "other" -> "other"
            [] OTHER -> IF response.first = "xml" THEN "application/xml" ELSE "other"

(* "normalizes the Content-Type of gofakes3's XML protocol responses to      *)
(* application/xml", also "when gofakes3 left the type unset": every XML     *)
(* response that is not an object's is read as application/xml.              *)
XMLAlwaysNormalized ==
  stage = "replied" /\ response.wrapped /\ response.first = "xml"
    /\ response.given # "other" => TypeRead(response) = "application/xml"

(* Normalising a copy source "is idempotent for already-correct requests     *)
(* (e.g. the AWS SDK)": a header that gofakes3 would read as the object the  *)
(* client named is still read as that object.                                *)
AlreadyCorrectKept ==
  [][stage = "copysource" /\ copyObjectSource(header) = <<<<"a">>, request.key>>
       => copyObjectSource(header') = copyObjectSource(header)]_vars
=============================================================================
