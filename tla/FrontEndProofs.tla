--------------------------- MODULE FrontEndProofs ----------------------------
(* Proofs about a process's start and the middlewares: each of the four      *)
(* invariants of FrontEnd, for any settings, keys, images, numbers of passes *)
(* and of writes.                                                            *)
EXTENDS FrontEnd, TLAPS, WellFoundedInduction, SequenceTheorems

-----------------------------------------------------------------------------
(* Configuration *)

(* What BootsRunnable says of the settings main starts with. *)
Runnable(cfg) ==
  /\ 2 * cfg.flush_interval_ms * Millisecond < UintMod => flushInterval(cfg) > 0
  /\ BatchMaxOf(cfg) > 0
  /\ cfg.nodes > 0 /\ Replica(cfg) \in 1..(UintMod - 1)
  /\ cfg.eth_rpc # 0 /\ cfg.cache_max_bytes >= 0

(* Every setting is an integer, by default too. *)
LEMMA DefaultType ==
  /\ Settings = {"eth_rpc", "nodes", "cache_max_bytes", "batch_max",
                 "flush_interval_ms", "expected_replica"}
  /\ defaultConfig \in [Settings -> Int]
  BY DEF Settings, defaultConfig

(* What validate accepts can run, after what main and uploader.New mend. *)
LEMMA ValidIsRunnable ==
  ASSUME NEW cfg \in [Settings -> Int], validate(cfg),
         cfg.nodes \in 0 .. UintMod - 1, cfg.expected_replica \in 0 .. UintMod - 1
  PROVE  Runnable(cfg)
<1>1. /\ cfg.nodes \in Int /\ cfg.eth_rpc \in Int /\ cfg.flush_interval_ms \in Int
      /\ cfg.cache_max_bytes \in Int /\ cfg.batch_max \in Int /\ cfg.expected_replica \in Int
  BY DefaultType
<1>2. BatchMaxOf(cfg) > 0
  BY <1>1 DEF BatchMaxOf
<1>3. Replica(cfg) \in 1..(UintMod - 1)
  BY <1>1, ConfigAssumption DEF Replica, validate
<1>4. ASSUME 2 * cfg.flush_interval_ms * Millisecond < UintMod
      PROVE  flushInterval(cfg) > 0
  <2> DEFINE ns == cfg.flush_interval_ms * Millisecond
  <2>1. ns \in Nat /\ ns > 0
    BY <1>1, ConfigAssumption DEF validate
  <2>2. 2 * ns < UintMod
    BY <1>1, <1>4, ConfigAssumption
  <2> HIDE DEF ns
  <2>3. ns % UintMod = ns
    BY <2>1, <2>2, ConfigAssumption
  <2>4. flushInterval(cfg) = ns
    BY <2>2, <2>3 DEF flushInterval, ns
  <2> QED  BY <2>1, <2>4
<1> QED  BY <1>1, <1>2, <1>3, <1>4 DEF Runnable, validate

(* The settings loadConfig returns are of the kind validate was asked about, *)
(* wherever each of them comes from: the defaults, the file or the           *)
(* environment.                                                              *)
LEMMA LoadedIsRunnable ==
  ASSUME NEW explicit \in BOOLEAN, NEW file \in Files, NEW env \in Environments,
         loadConfig(explicit, file, env).ok
  PROVE  Runnable(loadConfig(explicit, file, env).cfg)
<1> DEFINE base == Overlay(defaultConfig, file.keys)
           cfg == applyEnvOverrides(base, env.keys)
<1>0. Settings = {"eth_rpc", "nodes", "cache_max_bytes", "batch_max",
                  "flush_interval_ms", "expected_replica"}
  BY DefaultType
<1>1. validate(cfg) /\ loadConfig(explicit, file, env).cfg = cfg
  BY DEF loadConfig
<1>2. base \in [Settings -> Int] /\ base.nodes \in 0 .. UintMod - 1
        /\ base.expected_replica \in 0 .. UintMod - 1
  <2>1. CASE file.keys = [s \in {} |-> 0]
    <3>1. base = [s \in Settings |-> defaultConfig[s]]
      BY <2>1 DEF Overlay
    <3> QED  BY <1>0, <3>1, DefaultType, ConfigAssumption DEF defaultConfig
  <2>2. CASE file.keys \in Given(FileProfiles)
    <3>1. PICK S \in SUBSET Settings, p \in FileProfiles : file.keys = Restrict(p, S)
      BY <2>2 DEF Given
    <3>2. base = [s \in Settings |-> IF s \in S THEN p[s] ELSE defaultConfig[s]]
      BY <3>1 DEF Overlay, Restrict
    <3>3. /\ p \in [Settings -> Int] /\ p.nodes \in 0 .. UintMod - 1
          /\ p.expected_replica \in 0 .. UintMod - 1
      BY ProfilesAssumption
    <3>4. defaultConfig.nodes = 0 /\ defaultConfig.expected_replica = 0
      BY DEF defaultConfig
    <3>5. base \in [Settings -> Int]
      BY <3>2, <3>3, DefaultType
    <3> QED  BY <1>0, <3>2, <3>3, <3>4, <3>5, ConfigAssumption
  <2> QED  BY <2>1, <2>2 DEF Files
<1>3. /\ cfg \in [Settings -> Int] /\ cfg.nodes \in 0 .. UintMod - 1
      /\ cfg.expected_replica \in 0 .. UintMod - 1
  <2> HIDE DEF base
  <2>1. PICK S \in SUBSET Settings, p \in EnvProfiles : env.keys = Restrict(p, S)
    BY DEF Given, Environments
  <2>2. cfg = [s \in Settings |-> IF s \in S THEN envInt(s, p[s]) ELSE base[s]]
    BY <2>1 DEF Overlay, applyEnvOverrides, Restrict
  <2>3. p \in [Settings -> Int] /\ p.nodes \in 0 .. UintMod - 1
    BY ProfilesAssumption
  <2>4. \A s \in Settings : envInt(s, p[s]) \in Int
    BY <2>3, ConfigAssumption DEF envInt
  <2>5. envInt("nodes", p["nodes"]) \in 0 .. UintMod - 1
    BY <2>3, ConfigAssumption DEF envInt
  <2>6. envInt("expected_replica", p["expected_replica"]) \in 0 .. UintMod - 1
    <3>1. p["expected_replica"] \in Int
      BY <1>0, <2>3
    <3> QED  BY <3>1, ConfigAssumption DEF envInt
  <2>7. cfg \in [Settings -> Int]
    BY <1>2, <2>2, <2>4
  <2> QED  BY <1>0, <1>2, <2>2, <2>5, <2>6, <2>7
<1> HIDE DEF cfg
<1> QED  BY <1>1, <1>3, ValidIsRunnable

(* main never starts with settings it cannot run with (config.Load, validate *)
(* and the defaults that main and uploader.New fill in), whatever the file   *)
(* and the environment say.                                                  *)
THEOREM StartsRunnable == Spec => []BootsRunnable
<1>1. Init => BootsRunnable
  BY DEF Init, BootsRunnable
<1>2. BootsRunnable /\ [Next]_vars => BootsRunnable'
  <2> SUFFICES ASSUME BootsRunnable, [Next]_vars, stage' = "ready"
               PROVE  Runnable(booted'.cfg)
    BY DEF BootsRunnable, Runnable
  <2>1. CASE Boot
    <3>1. PICK explicit \in BOOLEAN, file \in Files, env \in Environments :
                 booted' = loadConfig(explicit, file, env)
      BY <2>1 DEF Boot
    <3>2. booted'.ok
      BY <2>1 DEF Boot
    <3> QED  BY <3>1, <3>2, LoadedIsRunnable
  <2>2. CASE UNCHANGED <<stage, booted>>
    BY <2>2 DEF BootsRunnable, Runnable
  <2> QED  BY <2>1, <2>2 DEF Next, Serve, ArriveAny, Arrive, Backpressure,
       FixCopySource, ImageProcess, FixXMLContentType, Respond, Again, vars
<1> QED  BY <1>1, <1>2, PTL DEF Spec

-----------------------------------------------------------------------------
(* The response's content type *)

(* The responses of the model. *)
ResponseType ==
  [type : {"", "text/xml", "application/xml", "other"}, given : {"", "text/xml", "other"},
   sent : {"none", "", "text/xml", "application/xml", "other"},
   first : {"none", "xml", "other"}, chunks : Nat,
   wrapped : BOOLEAN, committed : BOOLEAN, early : BOOLEAN]

(* What an xmlContentTypeWriter has done so far: until it commits, the type  *)
(* is the handler's and nothing is sent; from then on what was sent is right *)
(* for what the handler had set.                                             *)
Typed(x) ==
  /\ x.committed <=> x.sent # "none"
  /\ ~x.committed => x.type = x.given /\ x.first = "none"
  /\ x.committed /\ x.given = "text/xml" => x.sent = "application/xml"
  /\ x.committed /\ x.given = "other" => x.sent = "other"
  /\ x.committed /\ x.given = "" =>
       \/ x.early /\ x.sent = ""
       \/ ~x.early /\ x.first = "xml" /\ x.sent = "application/xml"
       \/ ~x.early /\ x.first = "other" /\ x.sent = ""
  /\ ~x.committed => ~x.early

(* The stages before gofakes3. *)
Early == {"boot", "ready", "exit", "serving", "backpressure", "copysource", "image", "xml"}

(* Nothing is in the response before gofakes3, or the middleware that        *)
(* answers itself, puts it there; and the wrapped one is typed as above.     *)
ResponseInv ==
  /\ response \in ResponseType
  /\ stage \in Early => response = NoResponse
  /\ response.wrapped => Typed(response)

(* The response every request starts with. *)
LEMMA NoResponseTyped == NoResponse \in ResponseType /\ Typed(NoResponse) /\ ~NoResponse.wrapped
  BY DEF NoResponse, ResponseType, Typed

(* A type that is set, a header and a piece of the body keep it so, in       *)
(* whatever order they come.                                                 *)
LEMMA RespondTyped ==
  ASSUME response \in ResponseType, response.wrapped => Typed(response),
         SetType \/ WriteHeader \/ Write
  PROVE  response' \in ResponseType /\ (response'.wrapped => Typed(response'))
<1>1. CASE SetType
  BY <1>1 DEF SetType, ResponseType, Typed
<1>2. CASE WriteHeader
  BY <1>2 DEF WriteHeader, normalize, ResponseType, Typed
<1>3. CASE Write
  <2>1. PICK body \in {"xml", "other"} :
          LET x == normalize(response, body)
          IN  response' = [x EXCEPT !.sent = IF @ = "none" THEN x.type ELSE @,
                                    !.first = IF @ = "none" THEN body ELSE @,
                                    !.chunks = @ + 1]
    BY <1>3 DEF Write
  <2> DEFINE x == normalize(response, body)
  <2>2. x \in ResponseType /\ (x.wrapped => x.committed)
    BY DEF normalize, ResponseType
  <2>3. /\ x.given = response.given /\ x.sent = response.sent /\ x.first = response.first
        /\ x.early = response.early /\ x.wrapped = response.wrapped
    BY DEF normalize, ResponseType
  <2>4. x.wrapped =>
          IF response.committed THEN x.type = response.type
          ELSE x.type = IF response.type = "text/xml" \/ (response.type = "" /\ body = "xml")
                        THEN "application/xml" ELSE response.type
    BY DEF normalize, ResponseType
  <2> HIDE DEF x
  <2>5. /\ response' = [x EXCEPT !.sent = IF x.sent = "none" THEN x.type ELSE x.sent,
                                 !.first = IF x.first = "none" THEN body ELSE x.first,
                                 !.chunks = x.chunks + 1]
    BY <2>1 DEF x
  <2>6. response' \in ResponseType
    <3>1. /\ x.type \in {"", "text/xml", "application/xml", "other"}
          /\ x.sent \in {"none", "", "text/xml", "application/xml", "other"}
          /\ x.first \in {"none", "xml", "other"}
      BY <2>2, Zenon DEF ResponseType
    <3>0. x.chunks \in Nat
      BY <2>2, Zenon DEF ResponseType
    <3> DEFINE s == IF x.sent = "none" THEN x.type ELSE x.sent
               f == IF x.first = "none" THEN body ELSE x.first
    <3>2. /\ s \in {"none", "", "text/xml", "application/xml", "other"}
          /\ f \in {"none", "xml", "other"}
      BY <3>1
    <3>3. response' = [x EXCEPT !.sent = s, !.first = f, !.chunks = x.chunks + 1]
      BY <2>5
    <3>4. x.chunks + 1 \in Nat
      BY <3>0
    <3> HIDE DEF s, f
    <3> QED  BY <2>2, <3>4, <3>2, <3>3 DEF ResponseType
  <2>7. /\ response'.given = x.given /\ response'.early = x.early
        /\ response'.committed = x.committed /\ response'.wrapped = x.wrapped
        /\ response'.sent = (IF x.sent = "none" THEN x.type ELSE x.sent)
        /\ response'.first = (IF x.first = "none" THEN body ELSE x.first)
    BY <2>2, <2>5 DEF ResponseType
  <2>8. response'.wrapped => Typed(response')
    BY <2>2, <2>3, <2>4, <2>6, <2>7 DEF Typed, ResponseType
  <2> QED  BY <2>6, <2>8
<1> QED  BY <1>1, <1>2, <1>3

(* A client reads application/xml from an XML response that is not an        *)
(* object's and whose type was set, or left to the body, before its header   *)
(* was written, and no other type is touched (xmlContentTypeWriter), for     *)
(* bodies of any number of writes.                                           *)
THEOREM XMLIsAccepted == Spec => []XMLTypeAccepted
<1>1. Init => ResponseInv
  BY NoResponseTyped DEF Init, ResponseInv
<1>2. ResponseInv /\ [Next]_vars => ResponseInv'
  <2> SUFFICES ASSUME ResponseInv, [Next]_vars PROVE ResponseInv'
    OBVIOUS
  <2>1. CASE UNCHANGED response /\ (stage' \in Early => stage \in Early)
    BY <2>1 DEF ResponseInv
  <2>0. ASSUME NEW t \in {"application/xml", "other"}, stage \in Early, stage' = "replied",
               response' = [response EXCEPT !.type = t, !.sent = t]
        PROVE  ResponseInv'
    <3>1. response = NoResponse
      BY <2>0 DEF ResponseInv
    <3>2. response' \in ResponseType /\ ~response'.wrapped
      BY <2>0, <3>1 DEF NoResponse, ResponseType
    <3> QED  BY <2>0, <3>2 DEF ResponseInv, Early
  <2>2. CASE Respond
    BY <2>1, <2>2, RespondTyped DEF Respond, ResponseInv, Early
  <2>3. CASE FixXMLContentType
    <3>1. response = NoResponse /\ stage' = "gofakes3"
      BY <2>3 DEF FixXMLContentType, ResponseInv, Early
    <3>2. PICK b \in BOOLEAN : response' = [NoResponse EXCEPT !.wrapped = b]
      BY <2>3, <3>1 DEF FixXMLContentType, isObjectRead
    <3>3. response' \in ResponseType /\ Typed(response')
      BY <3>2 DEF NoResponse, ResponseType, Typed
    <3> QED  BY <3>1, <3>3 DEF ResponseInv, Early
  <2>4. CASE Again
    BY <2>4, NoResponseTyped DEF Again, ResponseInv
  <2>5. CASE Backpressure
    BY <2>1, <2>0, <2>5 DEF Backpressure, Early
  <2>6. CASE ImageProcess
    BY <2>1, <2>0, <2>6 DEF ImageProcess, Early
  <2>7. CASE Boot \/ Serve \/ ArriveAny \/ FixCopySource \/ UNCHANGED vars
    BY <2>1, <2>7 DEF Boot, Serve, ArriveAny, Arrive, FixCopySource, vars, Early
  <2> QED  BY <2>2, <2>3, <2>4, <2>5, <2>6, <2>7 DEF Next
<1>3. ResponseInv => XMLTypeAccepted
  BY DEF ResponseInv, ResponseType, Typed, XMLTypeAccepted, TypeRead
<1> QED  BY <1>1, <1>2, <1>3, PTL DEF Spec

-----------------------------------------------------------------------------
(* The size of a resized image *)

(* Division of naturals. *)
LEMMA DivProperty ==
  ASSUME NEW n \in Nat, NEW d \in Nat, d > 0
  PROVE  /\ n \div d \in Nat /\ n % d \in Nat
         /\ n = d * (n \div d) + (n % d) /\ n % d < d
<1>1. n \div d \in Int /\ n % d \in Int
  OBVIOUS
<1>2. n = d * (n \div d) + (n % d)
  OBVIOUS
<1>3. n \div d >= 0
  OBVIOUS
<1>4. n % d >= 0 /\ n % d < d
  OBVIOUS
<1> QED  BY <1>1, <1>2, <1>3, <1>4

(* iround is within half of the exact quotient. *)
LEMMA Iround ==
  ASSUME NEW p \in Nat, NEW q \in Nat, q > 0
  PROVE  /\ iround(p, q) \in Nat
         /\ 2 * (iround(p, q) * q) <= 2 * p + q
         /\ 2 * p < 2 * (iround(p, q) * q) + q
<1> DEFINE k == (2 * p + q) \div (2 * q)
           m == (2 * p + q) % (2 * q)
<1>1. k \in Nat /\ m \in Nat /\ 2 * p + q = (2 * q) * k + m /\ m < 2 * q
  BY DivProperty
<1> HIDE DEF k, m
<1>2. (2 * q) * k = 2 * (k * q)
  BY <1>1
<1>3. iround(p, q) = k
  BY DEF iround, k
<1>4. k * q \in Nat
  BY <1>1
<1> QED  BY <1>1, <1>2, <1>3, <1>4

(* So is each of the results that a float64 product may be rounded to. *)
LEMMA IroundScaled ==
  ASSUME NEW p \in Nat, NEW q \in Nat, q > 0, NEW k \in iroundScaled(p, q)
  PROVE  /\ k \in Nat
         /\ 2 * (k * q) <= 2 * p + q
         /\ 2 * p <= 2 * (k * q) + q
<1>1. CASE k = iround(p, q)
  <2>1. /\ iround(p, q) \in Nat
        /\ 2 * (iround(p, q) * q) <= 2 * p + q
        /\ 2 * p < 2 * (iround(p, q) * q) + q
    BY Iround
  <2>2. k \in Nat /\ 2 * (k * q) <= 2 * p + q /\ 2 * p < 2 * (k * q) + q
    BY <1>1, <2>1
  <2>3. k * q \in Nat
    BY <2>2
  <2> QED  BY <2>2, <2>3
<1>2. CASE k # iround(p, q)
  <2> DEFINE j == (2 * p + q) \div (2 * q)
             m == (2 * p + q) % (2 * q)
  <2>1. k = iround(p, q) - 1 /\ m = 0
    BY <1>2 DEF iroundScaled
  <2>2. j \in Nat /\ 2 * p + q = (2 * q) * j + m
    BY DivProperty
  <2>3. iround(p, q) = j
    BY DEF iround
  <2> HIDE DEF j, m
  <2>4. j > 0
    BY <2>1, <2>2
  <2>5. k = j - 1 /\ k \in Nat
    BY <2>1, <2>2, <2>3, <2>4
  <2>6. (2 * q) * j = 2 * (k * q) + 2 * q
    BY <2>2, <2>5
  <2>7. k * q \in Nat
    BY <2>5
  <2> QED  BY <2>1, <2>2, <2>5, <2>6, <2>7
<1> QED  BY <1>1, <1>2

(* The next multiple of q is q larger, at least. *)
LEMMA Monotone ==
  ASSUME NEW a \in Int, NEW b \in Int, NEW q \in Nat, q > 0, a < b
  PROVE  a * q + q <= b * q
  OBVIOUS

(* k is p/q, rounded. *)
Rounded(k, p, q) == k \in Nat /\ 2 * (k * q) <= 2 * p + q /\ 2 * p <= 2 * (k * q) + q

(* A rounded side that is made 1 where it is less is near the exact one, or  *)
(* that was less than 1.                                                     *)
LEMMA RoundedSide ==
  ASSUME NEW p \in Nat, NEW q \in Nat, p > 0, q > 0, NEW k, Rounded(k, p, q)
  PROVE  /\ AtLeast1(k) \in Nat /\ AtLeast1(k) >= 1
         /\ Near(AtLeast1(k) * q, p, q) \/ (AtLeast1(k) = 1 /\ p < q)
<1>1. CASE k >= 1
  <2>1. AtLeast1(k) = k /\ k * q \in Nat
    BY <1>1 DEF AtLeast1, Rounded
  <2> QED  BY <1>1, <2>1 DEF Near, Rounded
<1>2. CASE k = 0
  <2>1. AtLeast1(k) = 1 /\ k * q = 0
    BY <1>2 DEF AtLeast1
  <2> QED  BY <2>1 DEF Rounded
<1> QED  BY <1>1, <1>2 DEF Rounded

(* Rounding does not leave a box whose side is a number of pixels. *)
LEMMA RoundedInside ==
  ASSUME NEW p \in Nat, NEW q \in Nat, q > 0, NEW k, Rounded(k, p, q),
         NEW b \in Nat, b > 0, p <= b * q
  PROVE  AtLeast1(k) <= b
<1>1. k \in Nat /\ k * q \in Nat /\ b * q \in Nat
  BY DEF Rounded
<1>2. k <= b
  <2> SUFFICES ASSUME b < k PROVE FALSE
    BY <1>1
  <2>1. b * q + q <= k * q
    BY <1>1, Monotone
  <2> QED  BY <1>1, <2>1 DEF Rounded
<1> QED  BY <1>1, <1>2 DEF AtLeast1

(* Rounding does not lose what covers such a box. *)
LEMMA RoundedCovers ==
  ASSUME NEW p \in Nat, NEW q \in Nat, q > 0, NEW k, Rounded(k, p, q),
         NEW b \in Nat, b > 0, p >= b * q
  PROVE  AtLeast1(k) >= b
<1>1. k \in Nat /\ k * q \in Nat /\ b * q \in Nat
  BY DEF Rounded
<1>2. k >= b
  <2> SUFFICES ASSUME k < b PROVE FALSE
    BY <1>1
  <2>1. k * q + q <= b * q
    BY <1>1, Monotone
  <2> QED  BY <1>1, <2>1 DEF Rounded
<1> QED  BY <1>1, <1>2 DEF AtLeast1

(* A size scaled to the width that was asked for. *)
LEMMA ScaledWidth ==
  ASSUME NEW sw \in Nat, NEW sh \in Nat, NEW w \in Nat, sw > 0,
         NEW d \in ScaledToWidth(sw, sh, w)
  PROVE  d = <<w, d[2]>> /\ d[1] = w /\ Rounded(d[2], sh * w, sw)
<1>1. PICK k \in iroundScaled(sh * w, sw) : d = <<w, k>>
  BY DEF ScaledToWidth
<1>2. sh * w \in Nat
  OBVIOUS
<1> QED  BY <1>1, <1>2, IroundScaled DEF Rounded

(* A size scaled to the height that was asked for. *)
LEMMA ScaledHeight ==
  ASSUME NEW sw \in Nat, NEW sh \in Nat, NEW h \in Nat, sh > 0,
         NEW d \in ScaledToHeight(sw, sh, h)
  PROVE  d = <<d[1], h>> /\ d[2] = h /\ Rounded(d[1], sw * h, sh)
<1>1. PICK k \in iroundScaled(sw * h, sh) : d = <<k, h>>
  BY DEF ScaledToHeight
<1>2. sw * h \in Nat
  OBVIOUS
<1> QED  BY <1>1, <1>2, IroundScaled DEF Rounded

(* A product of positive numbers, either way round. *)
LEMMA Positive ==
  ASSUME NEW a \in Nat, NEW b \in Nat, a > 0, b > 0
  PROVE  a * b \in Nat /\ a * b > 0 /\ a * b = b * a
  OBVIOUS

(* The width is the one asked for, the height follows from the proportions. *)
LEMMA FitsWidth ==
  ASSUME NEW sw \in Nat, NEW sh \in Nat, NEW w \in Nat, sw > 0, sh > 0, w > 0,
         NEW k, Rounded(k, sh * w, sw)
  PROVE  LET d == bilinear(<<w, k>>)
         IN  /\ d = <<w, AtLeast1(k)>>
             /\ d[2] \in Nat /\ d[2] >= 1
             /\ Near(d[2] * sw, w * sh, sw) \/ (d[2] = 1 /\ w * sh < sw)
<1>1. sh * w \in Nat /\ sh * w > 0 /\ sh * w = w * sh
  BY Positive
<1>2. bilinear(<<w, k>>) = <<w, AtLeast1(k)>>
  BY DEF bilinear, AtLeast1
<1>3. /\ AtLeast1(k) \in Nat /\ AtLeast1(k) >= 1
      /\ Near(AtLeast1(k) * sw, w * sh, sw) \/ (AtLeast1(k) = 1 /\ w * sh < sw)
  BY <1>1, RoundedSide
<1> QED  BY <1>2, <1>3

(* The height is the one asked for, the width follows from the proportions. *)
LEMMA FitsHeight ==
  ASSUME NEW sw \in Nat, NEW sh \in Nat, NEW h \in Nat, sw > 0, sh > 0, h > 0,
         NEW k, Rounded(k, sw * h, sh)
  PROVE  LET d == bilinear(<<k, h>>)
         IN  /\ d = <<AtLeast1(k), h>>
             /\ d[1] \in Nat /\ d[1] >= 1
             /\ Near(d[1] * sh, h * sw, sh) \/ (d[1] = 1 /\ h * sw < sh)
<1>1. sw * h \in Nat /\ sw * h > 0 /\ sw * h = h * sw
  BY Positive
<1>2. bilinear(<<k, h>>) = <<AtLeast1(k), h>>
  BY DEF bilinear, AtLeast1
<1>3. /\ AtLeast1(k) \in Nat /\ AtLeast1(k) >= 1
      /\ Near(AtLeast1(k) * sh, h * sw, sh) \/ (AtLeast1(k) = 1 /\ h * sw < sh)
  BY <1>1, RoundedSide
<1> QED  BY <1>2, <1>3

(* lfit with a box: the smaller scale stays inside. *)
LEMMA InsideFits ==
  ASSUME NEW sw \in Nat, NEW sh \in Nat, sw > 0, sh > 0, NEW spec,
         spec.w \in Nat, spec.h \in Nat, spec.w > 0, spec.h > 0, spec.mode = "lfit",
         NEW d \in Inside(sw, sh, spec.w, spec.h)
  PROVE  Fits(spec, sw, sh, bilinear(d)[1], bilinear(d)[2])
<1> DEFINE w == spec.w
           h == spec.h
<1>0. w \in Nat /\ h \in Nat /\ w > 0 /\ h > 0
  OBVIOUS
<1>1. CASE w * sh <= h * sw
  <2>1. d \in ScaledToWidth(sw, sh, w)
    BY <1>1 DEF Inside
  <2>2. d = <<w, d[2]>> /\ Rounded(d[2], sh * w, sw)
    BY <1>0, <2>1, ScaledWidth
  <2>3. sh * w = w * sh /\ sh * w \in Nat
    BY <1>0, Positive
  <2>4. AtLeast1(d[2]) <= h
    BY <1>0, <1>1, <2>2, <2>3, RoundedInside
  <2> HIDE DEF w, h
  <2>5. LET e == bilinear(<<w, d[2]>>)
        IN  /\ e = <<w, AtLeast1(d[2])>>
            /\ e[2] \in Nat /\ e[2] >= 1
            /\ Near(e[2] * sw, w * sh, sw) \/ (e[2] = 1 /\ w * sh < sw)
    BY <1>0, <2>2, FitsWidth
  <2>6. bilinear(d) = bilinear(<<w, d[2]>>)
    BY <2>2
  <2>7. /\ bilinear(d)[1] = w /\ bilinear(d)[2] = AtLeast1(d[2])
        /\ AtLeast1(d[2]) >= 1
        /\ Near(AtLeast1(d[2]) * sw, w * sh, sw) \/ (AtLeast1(d[2]) = 1 /\ w * sh < sw)
    BY <2>5, <2>6
  <2> QED  BY <1>0, <2>4, <2>7 DEF Fits, w, h
<1>2. CASE ~(w * sh <= h * sw)
  <2>1. d \in ScaledToHeight(sw, sh, h)
    BY <1>2 DEF Inside
  <2>2. d = <<d[1], h>> /\ Rounded(d[1], sw * h, sh)
    BY <1>0, <2>1, ScaledHeight
  <2>3. sw * h = h * sw /\ sw * h \in Nat /\ w * sh \in Nat
    BY <1>0, Positive
  <2>4. AtLeast1(d[1]) <= w
    <3>1. sw * h <= w * sh
      BY <1>2, <2>3
    <3> QED  BY <1>0, <2>2, <2>3, <3>1, RoundedInside
  <2> HIDE DEF w, h
  <2>5. LET e == bilinear(<<d[1], h>>)
        IN  /\ e = <<AtLeast1(d[1]), h>>
            /\ e[1] \in Nat /\ e[1] >= 1
            /\ Near(e[1] * sh, h * sw, sh) \/ (e[1] = 1 /\ h * sw < sh)
    BY <1>0, <2>2, FitsHeight
  <2>6. bilinear(d) = bilinear(<<d[1], h>>)
    BY <2>2
  <2>7. /\ bilinear(d)[2] = h /\ bilinear(d)[1] = AtLeast1(d[1])
        /\ AtLeast1(d[1]) >= 1
        /\ Near(AtLeast1(d[1]) * sh, h * sw, sh) \/ (AtLeast1(d[1]) = 1 /\ h * sw < sh)
    BY <2>5, <2>6
  <2> QED  BY <1>0, <2>4, <2>7 DEF Fits, w, h
<1> QED  BY <1>1, <1>2

(* fill with a box: the larger scale covers it, so the crop is the box. *)
LEMMA CoveringFills ==
  ASSUME NEW sw \in Nat, NEW sh \in Nat, sw > 0, sh > 0,
         NEW w \in Nat, NEW h \in Nat, w > 0, h > 0,
         NEW d \in Covering(sw, sh, w, h)
  PROVE  cropCenter(bilinear(d), w, h) = <<w, h>>
<1>1. CASE w * sh >= h * sw
  <2>1. d \in ScaledToWidth(sw, sh, w)
    BY <1>1 DEF Covering
  <2>2. d = <<w, d[2]>> /\ Rounded(d[2], sh * w, sw)
    BY <2>1, ScaledWidth
  <2>3. sh * w = w * sh /\ sh * w \in Nat
    BY Positive
  <2>4. AtLeast1(d[2]) >= h
    BY <1>1, <2>2, <2>3, RoundedCovers
  <2>5. bilinear(d)[1] = w /\ bilinear(d)[2] = AtLeast1(d[2]) /\ AtLeast1(d[2]) \in Nat
    BY <2>2 DEF bilinear, AtLeast1, Rounded
  <2> QED  BY <2>4, <2>5 DEF cropCenter, SmallerOf
<1>2. CASE ~(w * sh >= h * sw)
  <2>1. d \in ScaledToHeight(sw, sh, h)
    BY <1>2 DEF Covering
  <2>2. d = <<d[1], h>> /\ Rounded(d[1], sw * h, sh)
    BY <2>1, ScaledHeight
  <2>3. sw * h = h * sw /\ sw * h \in Nat /\ w * sh \in Nat
    BY Positive
  <2>4. AtLeast1(d[1]) >= w
    <3>1. sw * h >= w * sh
      BY <1>2, <2>3
    <3> QED  BY <2>2, <2>3, <3>1, RoundedCovers
  <2>5. bilinear(d)[2] = h /\ bilinear(d)[1] = AtLeast1(d[1]) /\ AtLeast1(d[1]) \in Nat
    BY <2>2 DEF bilinear, AtLeast1, Rounded
  <2> QED  BY <2>4, <2>5 DEF cropCenter, SmallerOf
<1> QED  BY <1>1, <1>2

(* What iround returns is rounded in this sense. *)
LEMMA IroundRounded ==
  ASSUME NEW p \in Nat, NEW q \in Nat, q > 0
  PROVE  Rounded(iround(p, q), p, q)
<1> DEFINE k == iround(p, q)
<1>1. k \in Nat /\ 2 * (k * q) <= 2 * p + q /\ 2 * p < 2 * (k * q) + q
  BY Iround
<1> HIDE DEF k
<1>2. k * q \in Nat
  BY <1>1
<1>3. Rounded(k, p, q)
  BY <1>1, <1>2 DEF Rounded
<1> QED  BY <1>3 DEF k

(* Every size that transform may return is one that Fits allows. *)
LEMMA TransformFits ==
  ASSUME NEW sw \in Nat, NEW sh \in Nat, sw > 0, sh > 0, NEW spec,
         spec.w \in Nat, spec.h \in Nat, spec.w > 0 \/ spec.h > 0,
         spec.mode \in {"fill", "fixed", "lfit"},
         NEW d \in transform(sw, sh, spec.w, spec.h, spec.mode)
  PROVE  Fits(spec, sw, sh, d[1], d[2])
<1> DEFINE w == spec.w
           h == spec.h
<1>0. w \in Nat /\ h \in Nat
  OBVIOUS
<1>1. CASE w > 0 /\ h > 0 /\ spec.mode # "lfit"
  <2>1. d = <<w, h>>
    <3>1. CASE spec.mode = "fill"
      <4>1. PICK e \in Covering(sw, sh, w, h) : d = cropCenter(bilinear(e), w, h)
        BY <1>1, <3>1 DEF transform
      <4> QED  BY <1>0, <1>1, <4>1, CoveringFills
    <3>2. CASE spec.mode = "fixed"
      <4>1. d = bilinear(<<w, h>>)
        BY <1>1, <3>2 DEF transform
      <4> QED  BY <1>0, <1>1, <4>1 DEF bilinear, AtLeast1
    <3> QED  BY <1>1, <3>1, <3>2
  <2>2. d[1] = w /\ d[2] = h
    BY <2>1
  <2> QED  BY <1>0, <1>1, <2>2 DEF Fits
<1>2. CASE w > 0 /\ h > 0 /\ spec.mode = "lfit"
  <2>1. PICK e \in Inside(sw, sh, w, h) : d = bilinear(e)
    BY <1>2 DEF transform, fitDims
  <2> QED  BY <1>0, <1>2, <2>1, InsideFits
<1>3. CASE w > 0 /\ h = 0
  <2>1. d = bilinear(<<w, iround(sh * w, sw)>>)
    BY <1>3 DEF transform, fitDims
  <2>2. Rounded(iround(sh * w, sw), sh * w, sw)
    <3>1. sh * w \in Nat
      BY <1>0
    <3> QED  BY <3>1, IroundRounded
  <2> DEFINE k == iround(sh * w, sw)
  <2>3. LET e == bilinear(<<w, k>>)
        IN  /\ e = <<w, AtLeast1(k)>>
            /\ e[2] \in Nat /\ e[2] >= 1
            /\ Near(e[2] * sw, w * sh, sw) \/ (e[2] = 1 /\ w * sh < sw)
    BY <1>0, <1>3, <2>2, FitsWidth
  <2> HIDE DEF k
  <2>4. /\ d[1] = w /\ d[2] \in Nat /\ d[2] >= 1
        /\ Near(d[2] * sw, w * sh, sw) \/ (d[2] = 1 /\ w * sh < sw)
    BY <2>1, <2>3 DEF k
  <2> QED  BY <1>0, <1>3, <2>4 DEF Fits
<1>4. CASE w = 0 /\ h > 0
  <2>1. d = bilinear(<<iround(sw * h, sh), h>>)
    BY <1>4 DEF transform, fitDims
  <2>2. Rounded(iround(sw * h, sh), sw * h, sh)
    <3>1. sw * h \in Nat
      BY <1>0
    <3> QED  BY <3>1, IroundRounded
  <2> DEFINE k == iround(sw * h, sh)
  <2>3. LET e == bilinear(<<k, h>>)
        IN  /\ e = <<AtLeast1(k), h>>
            /\ e[1] \in Nat /\ e[1] >= 1
            /\ Near(e[1] * sh, h * sw, sh) \/ (e[1] = 1 /\ h * sw < sh)
    BY <1>0, <1>4, <2>2, FitsHeight
  <2> HIDE DEF k
  <2>4. /\ d[2] = h /\ d[1] \in Nat /\ d[1] >= 1
        /\ Near(d[1] * sh, h * sw, sh) \/ (d[1] = 1 /\ h * sw < sh)
    BY <2>1, <2>3 DEF k
  <2> QED  BY <1>0, <1>4, <2>4 DEF Fits
<1> QED  BY <1>0, <1>1, <1>2, <1>3, <1>4

(* Min of a set of naturals is in it; a minimal element of a well-founded    *)
(* order takes the place of an induction.                                    *)
LEMMA Smallest ==
  ASSUME NEW I, I \subseteq Nat, I # {}
  PROVE  Min(I) \in I /\ \A j \in I : Min(I) <= j
<1> DEFINE R == OpToRel(<, Nat)
<1>1. \A x, y \in Nat : <<y, x>> \in R <=> y < x
  BY DEF OpToRel
<1>2. IsWellFoundedOn(R, Nat)
  BY NatLessThanWellFounded
<1> HIDE DEF R
<1>3. PICK x \in I : \A y \in I : ~ (<<y, x>> \in R)
  BY <1>2, WFMin
<1>4. \A y \in I : x <= y
  <2> TAKE y \in I
  <2>1. x \in Nat /\ y \in Nat
    OBVIOUS
  <2>2. ~ (y < x)
    BY <1>1, <1>3, <2>1
  <2> QED  BY <2>1, <2>2
<1> QED  BY <1>3, <1>4 DEF Min

(* Max of a set of indices is in it. *)
LEMMA Largest ==
  ASSUME NEW n \in Nat, NEW I, I \subseteq 1..n, I # {}
  PROVE  Max(I) \in I /\ \A j \in I : j <= Max(I)
<1> DEFINE J == {n - i : i \in I}
<1>1. J \subseteq Nat /\ J # {}
  <2>1. \A i \in I : n - i \in Nat
    OBVIOUS
  <2>2. PICK i \in I : TRUE
    OBVIOUS
  <2> QED  BY <2>1, <2>2
<1>2. Min(J) \in J /\ \A j \in J : Min(J) <= j
  <2> HIDE DEF J
  <2> QED  BY <1>1, Smallest
<1>3. PICK x \in I : Min(J) = n - x
  BY <1>2
<1>4. \A y \in I : x >= y
  <2> TAKE y \in I
  <2>1. n - y \in J
    OBVIOUS
  <2>2. n - x <= n - y
    BY <1>2, <1>3, <2>1
  <2> QED  BY <2>2
<1> QED  BY <1>3, <1>4 DEF Max

(* The parameters of a resize action. *)
Params == ({"w", "h"} \X AskedDims) \cup ({"m"} \X {"fill", "fixed", "pad"})

(* A request's resize action is a sequence of them. *)
LEMMA SpecsParams ==
  ASSUME NEW s \in Specs
  PROVE  \E n \in Nat : s \in [1..n -> Params] /\ Len(s) = n
<1>1. PICK n \in 0..MaxParams : s \in [1..n -> Params]
  BY DEF Specs, Params
<1>2. n \in Nat /\ s \in Seq(Params) /\ Len(s) = n
  BY <1>1, FrontEndAssumption
<1> QED  BY <1>1, <1>2

(* clampDim returns a size that is accepted. *)
LEMMA ClampType == \A n \in Int : clampDim(n) \in 0..MaxResizeDim
  BY ResizeAssumption DEF clampDim

(* The width or height that counts is a number. *)
LEMMA DimType ==
  ASSUME NEW s \in Specs, NEW c \in {"w", "h"}
  PROVE  LastOf(s, LAMBDA p : p[1] = c, 0) \in Int
<1>1. PICK n \in Nat : s \in [1..n -> Params] /\ Len(s) = n
  BY SpecsParams
<1> DEFINE I == {i \in 1..n : s[i][1] = c}
<1>2. I # {} => Max(I) \in I
  <2>1. I \subseteq 1..n
    OBVIOUS
  <2> HIDE DEF I
  <2> QED  BY <2>1, Largest
<1>3. SelectLastInSeq(s, LAMBDA p : p[1] = c) = IF I # {} THEN Max(I) ELSE 0
  BY <1>1 DEF SelectLastInSeq
<1>4. ASSUME NEW i \in I PROVE s[i][2] \in Int
  <2>1. s[i] \in Params /\ s[i][1] = c
    BY <1>1
  <2> QED  BY <2>1, FrontEndAssumption DEF Params
<1> QED  BY <1>2, <1>3, <1>4 DEF LastOf

(* The mode that counts is one of the three. *)
LEMMA ModeType ==
  ASSUME NEW s \in Specs
  PROVE  LastOf(s, LAMBDA p : p[1] = "m" /\ p[2] \in {"fill", "fixed"}, "lfit")
           \in {"fill", "fixed", "lfit"}
<1>1. PICK n \in Nat : s \in [1..n -> Params] /\ Len(s) = n
  BY SpecsParams
<1> DEFINE I == {i \in 1..n : s[i][1] = "m" /\ s[i][2] \in {"fill", "fixed"}}
<1>2. I # {} => Max(I) \in I
  <2>1. I \subseteq 1..n
    OBVIOUS
  <2> HIDE DEF I
  <2> QED  BY <2>1, Largest
<1>3. SelectLastInSeq(s, LAMBDA p : p[1] = "m" /\ p[2] \in {"fill", "fixed"})
        = IF I # {} THEN Max(I) ELSE 0
  BY <1>1 DEF SelectLastInSeq
<1> QED  BY <1>2, <1>3 DEF LastOf

(* What parseHuaweiResize makes of a request is what transform expects: a    *)
(* side at least, and a mode it knows.                                       *)
LEMMA ParsedSpec ==
  ASSUME NEW s \in Specs
  PROVE  LET spec == parseHuaweiResize(s)
         IN  /\ spec.w \in Nat /\ spec.h \in Nat
             /\ spec.ok => spec.w > 0 \/ spec.h > 0
             /\ spec.mode \in {"fill", "fixed", "lfit"}
<1>1. /\ LastOf(s, LAMBDA p : p[1] = "w", 0) \in Int
      /\ LastOf(s, LAMBDA p : p[1] = "h", 0) \in Int
  BY DimType
<1>2. 0..MaxResizeDim \subseteq Nat
  BY ResizeAssumption
<1> QED  BY <1>1, <1>2, ModeType, ClampType DEF parseHuaweiResize

(* An image is there only once the request was answered, and it is the one   *)
(* the request asked for.                                                    *)
ImageInv ==
  /\ request.spec \in Specs
  /\ stage # "replied" => image = NoImage
  /\ RendersFit

(* A request without a resize action. *)
LEMMA NoSpec == NoRequest.spec \in Specs
<1>1. <<>> \in [1..0 -> Params]
  OBVIOUS
<1>2. 0 \in 0..MaxParams
  BY FrontEndAssumption
<1> QED  BY <1>1, <1>2 DEF NoRequest, Specs, Params

(* A request arrives with a resize action of the model, and without an       *)
(* image.                                                                    *)
LEMMA ArrivesWithSpec ==
  ASSUME ArriveAny
  PROVE  stage = "serving" /\ stage' = "backpressure" /\ image' = image /\ request'.spec \in Specs
<1>1. CASE \E k \in KeysOfClients, plus \in BOOLEAN : \E h \in Sources(k, plus) :
             Arrive([NoRequest EXCEPT !.method = "PUT", !.keyed = TRUE, !.key = k, !.plus = plus], h)
  BY <1>1, NoSpec DEF Arrive, NoRequest
<1>2. CASE \E s \in Specs, keyed \in BOOLEAN :
             Arrive([NoRequest EXCEPT !.method = "GET", !.keyed = keyed, !.spec = s], <<>>)
  BY <1>2 DEF Arrive, NoRequest
<1>3. CASE \E m \in {"HEAD", "PUT", "DELETE"}, keyed \in BOOLEAN :
             Arrive([NoRequest EXCEPT !.method = m, !.keyed = keyed], <<>>)
  BY <1>3, NoSpec DEF Arrive, NoRequest
<1> QED  BY <1>1, <1>2, <1>3 DEF ArriveAny

(* Every resized image fits (parseHuaweiResize, transform, fitDims): a pixel *)
(* at least, inside the box, the source's proportions to half a pixel. For   *)
(* images and boxes of any size, where the run has sides of a few pixels.    *)
THEOREM ResizesFit == Spec => []RendersFit
<1>1. Init => ImageInv
  BY NoSpec DEF Init, ImageInv, RendersFit
<1>2. ImageInv /\ [Next]_vars => ImageInv'
  <2> SUFFICES ASSUME ImageInv, [Next]_vars PROVE ImageInv'
    OBVIOUS
  <2>1. ASSUME image' = NoImage, request'.spec \in Specs
        PROVE  ImageInv'
    BY <2>1 DEF ImageInv, RendersFit
  <2>2. CASE ImageProcess
    <3> DEFINE spec == parseHuaweiResize(request.spec)
    <3>1. request' = request /\ image = NoImage /\ request.spec \in Specs
      BY <2>2 DEF ImageProcess, ImageInv
    <3>2. CASE UNCHANGED image
      BY <2>1, <3>1, <3>2
    <3>3. CASE ~UNCHANGED image
      <4>1. /\ spec.ok /\ stage' = "replied"
            /\ ResizeReader(spec)
        BY <2>2, <3>3 DEF ImageProcess
      <4> HIDE DEF spec
      <4>2. PICK sw \in 1..MaxSide, sh \in 1..MaxSide :
              \E d \in transform(sw, sh, spec.w, spec.h, spec.mode) :
                image' = [of |-> <<sw, sh>>, to |-> d]
        BY <3>3, <4>1 DEF ResizeReader
      <4>3. PICK d \in transform(sw, sh, spec.w, spec.h, spec.mode) :
              image' = [of |-> <<sw, sh>>, to |-> d]
        BY <4>2
      <4>4. /\ spec.w \in Nat /\ spec.h \in Nat /\ (spec.w > 0 \/ spec.h > 0)
            /\ spec.mode \in {"fill", "fixed", "lfit"}
        BY <3>1, <4>1, ParsedSpec DEF spec
      <4>5. sw \in Nat /\ sh \in Nat /\ sw > 0 /\ sh > 0
        BY FrontEndAssumption
      <4>6. Fits(spec, sw, sh, d[1], d[2])
        BY <4>4, <4>5, TransformFits
      <4>7. /\ image'.of[1] = sw /\ image'.of[2] = sh
            /\ image'.to[1] = d[1] /\ image'.to[2] = d[2]
        BY <4>3
      <4>8. RendersFit'
        BY <3>1, <4>6, <4>7 DEF RendersFit, spec
      <4> QED  BY <3>1, <4>1, <4>8 DEF ImageInv
    <3> QED  BY <3>2, <3>3
  <2>3. CASE ArriveAny
    BY <2>1, <2>3, ArrivesWithSpec DEF ImageInv
  <2>4. CASE Again
    BY <2>1, <2>4, NoSpec DEF Again
  <2>5. CASE FixXMLContentType
    BY <2>1, <2>5, NoSpec DEF FixXMLContentType, ImageInv
  <2>6. CASE Boot \/ Serve \/ Backpressure \/ FixCopySource \/ Respond
    BY <2>1, <2>6 DEF Boot, Serve, Backpressure, FixCopySource, Respond, ImageInv
  <2>7. CASE UNCHANGED vars
    BY <2>7 DEF vars, ImageInv, RendersFit
  <2> QED  BY <2>2, <2>3, <2>4, <2>5, <2>6, <2>7 DEF Next
<1>3. ImageInv => RendersFit
  BY DEF ImageInv
<1> QED  BY <1>1, <1>2, <1>3, PTL DEF Spec

-----------------------------------------------------------------------------
(* The copy source *)

(* strings.Cut finds the first separator. *)
LEMMA CutAt ==
  ASSUME NEW S, NEW a \in Seq(S), NEW b \in Seq(S), NEW sep \in S,
         \A i \in 1..Len(a) : a[i] # sep
  PROVE  LET c == Cut(a \o <<sep>> \o b, sep) IN c.before = a /\ c.after = b
<1> DEFINE s == a \o <<sep>> \o b
           k == Len(a) + 1
           I == {j \in 1..Len(s) : s[j] = sep}
<1>1. a \o <<sep>> \in Seq(S) /\ Len(a \o <<sep>>) = k
  BY ConcatProperties
<1>2. /\ s \in Seq(S) /\ Len(s) = k + Len(b)
      /\ \A i \in 1..Len(a) : s[i] = a[i]
      /\ s[k] = sep
      /\ \A i \in 1..Len(b) : s[i + k] = b[i]
  BY <1>1
<1>3. SubSeq(s, 1, Len(a)) = a /\ SubSeq(s, k + 1, Len(s)) = b
  <2> HIDE DEF s
  <2>1. /\ SubSeq(s, 1, Len(a)) \in Seq(S) /\ Len(SubSeq(s, 1, Len(a))) = Len(a)
        /\ \A i \in 1..Len(a) : SubSeq(s, 1, Len(a))[i] = a[i]
    BY <1>2
  <2>2. /\ SubSeq(s, k + 1, Len(s)) \in Seq(S) /\ Len(SubSeq(s, k + 1, Len(s))) = Len(b)
        /\ \A i \in 1..Len(b) : SubSeq(s, k + 1, Len(s))[i] = b[i]
    BY <1>2
  <2> QED  BY <2>1, <2>2, SeqEqual
<1> HIDE DEF s
<1>4. k \in I /\ I \subseteq Nat /\ \A j \in I : k <= j
  <2>1. k \in I /\ I \subseteq Nat
    BY <1>2
  <2>2. ASSUME NEW j \in I, j < k PROVE FALSE
    <3>1. j \in 1..Len(a) /\ s[j] = sep
      BY <1>2, <2>2
    <3> QED  BY <1>2, <3>1
  <2> QED  BY <1>2, <2>1, <2>2
<1>5. Min(I) \in I /\ \A j \in I : Min(I) <= j
  <2> HIDE DEF I
  <2> QED  BY <1>4, Smallest
<1>6. Min(I) = k
  BY <1>4, <1>5
<1>7. I # {} /\ k > 0 /\ k - 1 = Len(a)
  BY <1>4
<1>8. Cut(s, sep).before = a /\ Cut(s, sep).after = b
  <2> HIDE DEF k
  <2> QED  BY <1>3, <1>6, <1>7 DEF Cut, SelectInSeq
<1> QED  BY <1>8 DEF s

(* strings.Cut where there is no separator. *)
LEMMA CutNone ==
  ASSUME NEW S, NEW s \in Seq(S), NEW sep, \A j \in 1..Len(s) : s[j] # sep
  PROVE  Cut(s, sep).before = s
<1>1. {j \in 1..Len(s) : s[j] = sep} = {}
  OBVIOUS
<1> QED  BY <1>1 DEF Cut, SelectInSeq

(* What a copy source names, decoded. *)
Named(key) == <<"a", "/">> \o key

(* Its characters. *)
LEMMA NamedType ==
  ASSUME NEW key \in Seq(Chars)
  PROVE  /\ Named(key) \in Seq(Chars) /\ Len(Named(key)) = Len(key) + 2
         /\ DOMAIN Named(key) = 1..(Len(key) + 2)
         /\ Named(key)[1] = "a" /\ Named(key)[2] = "/"
         /\ \A i \in 1..Len(key) : Named(key)[i + 2] = key[i]
<1>1. <<"a", "/">> \in Seq(Chars) /\ Len(<<"a", "/">>) = 2
  <2>1. "a" \in Chars /\ "/" \in Chars
    BY DEF Chars
  <2> QED  BY <2>1
<1>2. Len(key) \in Nat
  OBVIOUS
<1> QED  BY <1>1, <1>2 DEF Named

(* splitBucketKey takes it apart, also after another slash; slashes in the   *)
(* key do not matter.                                                        *)
LEMMA SplitNamed ==
  ASSUME NEW key \in Seq(Chars), key # <<>>, NEW p,
         p = Named(key) \/ p = <<"/">> \o Named(key)
  PROVE  LET name == splitBucketKey(p)
         IN  name.ok /\ name.bucket = <<"a">> /\ name.key = key
<1>1. "a" \in Chars /\ "/" \in Chars /\ <<"a">> \in Seq(Chars) /\ <<"/">> \in Seq(Chars)
  <2>1. "a" \in Chars /\ "/" \in Chars
    BY DEF Chars
  <2> QED  BY <2>1
<1>2. Named(key) = <<"a">> \o <<"/">> \o key
  BY <1>1 DEF Named
<1>3. TrimPrefix(p, "/") = Named(key)
  <2>1. CASE p = Named(key)
    <3>1. p # <<>> /\ Head(p) = "a"
      BY <2>1, NamedType
    <3> QED  BY <2>1, <3>1 DEF TrimPrefix
  <2>2. CASE p = <<"/">> \o Named(key)
    <3>1. p # <<>> /\ Head(p) = "/" /\ Tail(p) = Named(key)
      BY <1>1, <2>2, NamedType
    <3> QED  BY <2>2, <3>1 DEF TrimPrefix
  <2> QED  BY <2>1, <2>2
<1>4. Cut(Named(key), "/").before = <<"a">> /\ Cut(Named(key), "/").after = key
  <2>1. \A i \in 1..Len(<<"a">>) : <<"a">>[i] # "/"
    OBVIOUS
  <2> DEFINE bucket == <<"a">>
             slash == "/"
  <2>2. bucket \in Seq(Chars) /\ slash \in Chars /\ \A i \in 1..Len(bucket) : bucket[i] # slash
    BY <1>1, <2>1
  <2> HIDE DEF bucket, slash
  <2>3. LET c == Cut(bucket \o <<slash>> \o key, slash) IN c.before = bucket /\ c.after = key
    BY <2>2, CutAt
  <2> QED  BY <1>2, <2>3 DEF bucket, slash
<1> QED  BY <1>3, <1>4 DEF splitBucketKey

(* The characters a header is written with. *)
Written == [ch : Chars, pct : BOOLEAN]

(* A character that stands for itself is not one that is encoded. *)
LEMMA WrittenChars ==
  /\ \A c \in Chars : Lit(c) \in Written /\ Pct(c) \in Written
  /\ \A c : Lit(c).ch = c /\ Pct(c).ch = c
  /\ \A c, d : Lit(c) # Pct(d)
  /\ \A c, d : Lit(c) = Lit(d) => c = d
<1>1. \A c \in Chars : Lit(c) \in Written /\ Pct(c) \in Written
  BY DEF Lit, Pct, Written
<1>2. \A c : Lit(c).ch = c /\ Pct(c).ch = c /\ Lit(c).pct = FALSE /\ Pct(c).pct = TRUE
  BY DEF Lit, Pct
<1> QED  BY <1>1, <1>2

(* QueryEscape, character by character. *)
LEMMA Escaped ==
  ASSUME NEW key \in Seq(Chars)
  PROVE  /\ QueryEscape(key) \in Seq(Written) /\ Len(QueryEscape(key)) = Len(key)
         /\ \A i \in 1..Len(key) :
              QueryEscape(key)[i] = IF key[i] = "a" THEN Lit("a")
                                    ELSE IF key[i] = " " THEN Lit("+") ELSE Pct(key[i])
<1> DEFINE e == QueryEscape(key)
<1>1. DOMAIN key = 1..Len(key) /\ Len(key) \in Nat
  OBVIOUS
<1>2. \A i \in 1..Len(key) :
        e[i] = IF key[i] = "a" THEN Lit("a")
               ELSE IF key[i] = " " THEN Lit("+") ELSE Pct(key[i])
  BY <1>1 DEF QueryEscape
<1>3. DOMAIN e = 1..Len(key) /\ e = [i \in 1..Len(key) |-> e[i]]
  BY <1>1 DEF QueryEscape
<1>4. \A i \in 1..Len(key) : e[i] \in Written
  <2>1. "a" \in Chars /\ "+" \in Chars
    BY DEF Chars
  <2> TAKE i \in 1..Len(key)
  <2>2. key[i] \in Chars
    OBVIOUS
  <2>3. Lit("a") \in Written /\ Lit("+") \in Written /\ Pct(key[i]) \in Written
    BY <2>1, <2>2, WrittenChars
  <2> QED  BY <1>2, <2>3
<1> HIDE DEF e
<1>5. e \in Seq(Written) /\ Len(e) = Len(key)
  BY <1>1, <1>3, <1>4
<1> QED  BY <1>2, <1>5 DEF e

(* QueryUnescape undoes QueryEscape. *)
LEMMA EscapedReadsBack ==
  ASSUME NEW key \in Seq(Chars)
  PROVE  QueryUnescape(QueryEscape(key)) = key
<1> DEFINE e == QueryEscape(key)
<1>0. /\ e \in Seq(Written) /\ Len(e) = Len(key)
      /\ \A i \in 1..Len(key) :
           e[i] = IF key[i] = "a" THEN Lit("a")
                  ELSE IF key[i] = " " THEN Lit("+") ELSE Pct(key[i])
  BY Escaped
<1> HIDE DEF e
<1>1. DOMAIN e = 1..Len(key)
  BY <1>0, LenProperties
<1>2. \A i \in 1..Len(key) : (IF e[i] = Lit("+") THEN " " ELSE e[i].ch) = key[i]
  BY <1>0, WrittenChars
<1>3. QueryUnescape(e) = [i \in 1..Len(key) |-> key[i]]
  BY <1>1, <1>2 DEF QueryUnescape
<1> QED  BY <1>3 DEF e

(* The header that normalizeCopySource writes. *)
Normalized(key) == <<Lit("/")>> \o <<Lit("a")>> \o <<Lit("/")>> \o QueryEscape(key)

(* The same header, bracketed from the left and after its first character. *)
LEMMA Reassociated ==
  ASSUME NEW S, NEW x \in Seq(S), NEW y \in Seq(S), NEW e \in Seq(S)
  PROVE  x \o y \o x \o e = x \o (y \o x \o e)
<1>1. (x \o y) \o x = x \o (y \o x)
  BY ConcatAssociative
<1> DEFINE z == y \o x
<1>2. z \in Seq(S)
  BY ConcatProperties
<1> HIDE DEF z
<1>3. (x \o z) \o e = x \o (z \o e)
  BY <1>2, ConcatAssociative
<1> QED  BY <1>1, <1>3, Zenon DEF z

(* It is a header, and begins with a slash. *)
LEMMA NormalizedType ==
  ASSUME NEW key \in Seq(Chars)
  PROVE  /\ Lit("/") \in Written /\ Lit("a") \in Written
         /\ <<Lit("a")>> \in Seq(Written)
         /\ QueryEscape(key) \in Seq(Written)
         /\ Normalized(key) \in Seq(Written)
         /\ Normalized(key) = <<Lit("/")>> \o (<<Lit("a")>> \o <<Lit("/")>> \o QueryEscape(key))
         /\ TrimPrefix(Normalized(key), Lit("/")) = <<Lit("a")>> \o <<Lit("/")>> \o QueryEscape(key)
<1> DEFINE e == QueryEscape(key)
           slash == Lit("/")
           bucket == <<Lit("a")>>
           rest == bucket \o <<slash>> \o e
<1>1. slash \in Written /\ Lit("a") \in Written
  <2>1. "a" \in Chars /\ "/" \in Chars
    BY DEF Chars
  <2> QED  BY <2>1, WrittenChars
<1>2. e \in Seq(Written)
  BY Escaped
<1>3. bucket \in Seq(Written) /\ <<slash>> \in Seq(Written)
  BY <1>1
<1> HIDE DEF e, slash, bucket
<1>4. bucket \o <<slash>> \in Seq(Written) /\ rest \in Seq(Written)
  BY <1>2, <1>3, ConcatProperties
<1>5. <<slash>> \o bucket \o <<slash>> \o e = <<slash>> \o rest
  BY <1>2, <1>3, Reassociated
<1> HIDE DEF rest
<1>6. LET s == <<slash>> \o rest
      IN  s \in Seq(Written) /\ s # <<>> /\ Head(s) = slash /\ Tail(s) = rest
  BY <1>3, <1>4
<1>7. TrimPrefix(<<slash>> \o rest, slash) = rest
  BY <1>6 DEF TrimPrefix
<1> QED  BY <1>1, <1>2, <1>3, <1>5, <1>6, <1>7 DEF e, slash, bucket, rest, Normalized

(* gofakes3 copies from the object that a normalised header names. *)
LEMMA CopiesNamed ==
  ASSUME NEW key \in Seq(Chars)
  PROVE  copyObjectSource(Normalized(key)) = <<<<"a">>, key>>
<1> DEFINE e == QueryEscape(key)
           slash == Lit("/")
           bucket == <<Lit("a")>>
<1>1. /\ slash \in Written /\ e \in Seq(Written) /\ bucket \in Seq(Written)
      /\ TrimPrefix(Normalized(key), slash) = bucket \o <<slash>> \o e
  BY NormalizedType
<1>2. \A i \in 1..Len(bucket) : bucket[i] # slash
  BY WrittenChars
<1>3. QueryUnescape(bucket) = <<"a">>
  <2>1. Lit("a") # Lit("+") /\ Lit("a").ch = "a"
    BY WrittenChars
  <2>2. DOMAIN bucket = 1..1 /\ bucket[1] = Lit("a")
    OBVIOUS
  <2> HIDE DEF bucket
  <2>3. QueryUnescape(bucket) = [i \in 1..1 |-> "a"]
    BY <2>1, <2>2 DEF QueryUnescape
  <2> QED  BY <2>3
<1>4. QueryUnescape(e) = key
  BY EscapedReadsBack
<1> HIDE DEF e, slash, bucket
<1>5. LET c == Cut(bucket \o <<slash>> \o e, slash) IN c.before = bucket /\ c.after = e
  BY <1>1, <1>2, CutAt
<1> QED  BY <1>1, <1>3, <1>4, <1>5 DEF copyObjectSource, slash

(* raw, the header without its version, decodes to the source's name. *)
ReadsAs(raw, key) ==
  /\ raw \in Seq(Written)
  /\ \A i \in 1..Len(raw) : raw[i] # Lit("?") /\ raw[i] # Lit("%")
  /\ PathUnescape(TrimPrefix(raw, Lit("/"))) \in {Named(key), <<"/">> \o Named(key)}

(* A header that reads as a source is normalised to that source's header. *)
LEMMA NormalizesTo ==
  ASSUME NEW key \in Seq(Chars), key # <<>>, NEW h, ReadsAs(Cut(h, Lit("?")).before, key)
  PROVE  normalizeCopySource(h) = Normalized(key)
<1> DEFINE raw == Cut(h, Lit("?")).before
           name == splitBucketKey(PathUnescape(TrimPrefix(raw, Lit("/"))))
<1>1. name.ok /\ name.bucket = <<"a">> /\ name.key = key
  <2> DEFINE p == PathUnescape(TrimPrefix(raw, Lit("/")))
  <2>1. p = Named(key) \/ p = <<"/">> \o Named(key)
    BY DEF ReadsAs
  <2> HIDE DEF p
  <2>2. LET n == splitBucketKey(p) IN n.ok /\ n.bucket = <<"a">> /\ n.key = key
    BY <2>1, SplitNamed
  <2> QED  BY <2>2 DEF p
<1>2. Decodable(raw)
  BY LenProperties DEF Decodable, ReadsAs
<1>3. [i \in DOMAIN <<"a">> |-> Lit(<<"a">>[i])] = <<Lit("a")>>
  <2>1. DOMAIN <<"a">> = 1..1
    OBVIOUS
  <2>2. [i \in DOMAIN <<"a">> |-> Lit(<<"a">>[i])] = [i \in 1..1 |-> Lit("a")]
    BY <2>1
  <2> QED  BY <2>2
<1>4. normalizeCopySource(h) =
        IF Decodable(raw) /\ name.ok
        THEN <<Lit("/")>> \o [i \in DOMAIN name.bucket |-> Lit(name.bucket[i])]
               \o <<Lit("/")>> \o QueryEscape(name.key)
        ELSE h
  BY DEF normalizeCopySource
<1> HIDE DEF raw, name
<1>5. normalizeCopySource(h) =
        <<Lit("/")>> \o [i \in DOMAIN name.bucket |-> Lit(name.bucket[i])]
          \o <<Lit("/")>> \o QueryEscape(name.key)
  BY <1>1, <1>2, <1>4
<1> QED  BY <1>1, <1>3, <1>5 DEF Normalized

(* PathUnescape, character by character. *)
LEMMA PathRead ==
  ASSUME NEW s \in Seq(Written), NEW t \in Seq(Chars), Len(s) = Len(t),
         \A i \in 1..Len(s) : s[i].ch = t[i]
  PROVE  PathUnescape(s) = t
<1>1. DOMAIN s = 1..Len(s) /\ DOMAIN t = 1..Len(s)
  BY LenProperties
<1>2. PathUnescape(s) = [i \in 1..Len(s) |-> t[i]]
  BY <1>1 DEF PathUnescape
<1> QED  BY <1>1, <1>2

(* A sequence with one element before it. *)
LEMMA Prefixed ==
  ASSUME NEW S, NEW x \in S, NEW s \in Seq(S)
  PROVE  /\ <<x>> \o s \in Seq(S) /\ Len(<<x>> \o s) = Len(s) + 1
         /\ (<<x>> \o s)[1] = x /\ \A i \in 1..Len(s) : (<<x>> \o s)[i + 1] = s[i]
<1>1. Len(s) \in Nat /\ <<x>> \in Seq(S) /\ Len(<<x>>) = 1
  OBVIOUS
<1> QED  BY <1>1

(* A sequence with two elements before it. *)
LEMMA TwicePrefixed ==
  ASSUME NEW S, NEW x \in S, NEW y \in S, NEW s \in Seq(S)
  PROVE  LET t == <<x>> \o <<y>> \o s
         IN  /\ t \in Seq(S) /\ Len(t) = Len(s) + 2
             /\ t[1] = x /\ t[2] = y
             /\ \A i \in 1..Len(s) : t[i + 2] = s[i]
<1>1. /\ Len(s) \in Nat
      /\ <<x>> \o <<y>> \in Seq(S) /\ Len(<<x>> \o <<y>>) = 2
      /\ (<<x>> \o <<y>>)[1] = x /\ (<<x>> \o <<y>>)[2] = y
  OBVIOUS
<1> DEFINE p == <<x>> \o <<y>>
<1> HIDE DEF p
<1>2. LET t == p \o s
         IN  /\ t \in Seq(S) /\ Len(t) = Len(s) + 2
             /\ t[1] = x /\ t[2] = y
             /\ \A i \in 1..Len(s) : t[i + 2] = s[i]
  BY <1>1 DEF p
<1> QED  BY <1>2 DEF p

(* The key has no space. *)
Unspaced(key) == \A i \in DOMAIN key : key[i] # " "

(* PathUnescape undoes QueryEscape as well, then. *)
LEMMA UnspacedEscaped ==
  ASSUME NEW key \in Seq(Chars), Unspaced(key)
  PROVE  \A i \in 1..Len(key) :
           LET x == QueryEscape(key)[i] IN x.ch = key[i] /\ x # Lit("?") /\ x # Lit("%")
<1>1. \A i \in 1..Len(key) : QueryEscape(key)[i] \in {Lit("a"), Pct(key[i])}
                                 /\ (QueryEscape(key)[i] = Lit("a") => key[i] = "a")
  <2> TAKE i \in 1..Len(key)
  <2>1. i \in DOMAIN key
    BY LenProperties
  <2>2. key[i] # " "
    BY <2>1, Zenon DEF Unspaced
  <2>3. QueryEscape(key)[i] = IF key[i] = "a" THEN Lit("a")
                              ELSE IF key[i] = " " THEN Lit("+") ELSE Pct(key[i])
    BY Escaped, Zenon
  <2>4. QueryEscape(key)[i] = IF key[i] = "a" THEN Lit("a") ELSE Pct(key[i])
    BY <2>2, <2>3, Zenon
  <2> QED  BY <2>4, WrittenChars
<1> QED  BY <1>1, WrittenChars

(* A header that was normalised reads as the same source, unless there is a  *)
(* space.                                                                    *)
LEMMA NormalizedReads ==
  ASSUME NEW key \in Seq(Chars), Unspaced(key)
  PROVE  ReadsAs(Cut(Normalized(key), Lit("?")).before, key)
<1> DEFINE e == QueryEscape(key)
           rest == <<Lit("a")>> \o <<Lit("/")>> \o e
           n == Normalized(key)
<1>0. Len(key) \in Nat
  OBVIOUS
<1>1. e \in Seq(Written) /\ Len(e) = Len(key)
  BY Escaped, Zenon
<1>2. /\ Lit("/") \in Written /\ Lit("a") \in Written
      /\ n \in Seq(Written) /\ TrimPrefix(n, Lit("/")) = rest
  BY NormalizedType
<1>3. \A i \in 1..Len(key) : e[i].ch = key[i] /\ e[i] # Lit("?") /\ e[i] # Lit("%")
  BY UnspacedEscaped
<1>4. /\ rest \in Seq(Written) /\ Len(rest) = Len(key) + 2
      /\ rest[1] = Lit("a") /\ rest[2] = Lit("/")
      /\ \A i \in 1..Len(key) : rest[i + 2] = e[i]
  <2> HIDE DEF e
  <2> QED  BY <1>1, <1>2, TwicePrefixed
<1>5. /\ Len(n) = Len(key) + 3
      /\ n[1] = Lit("/") /\ n[2] = Lit("a") /\ n[3] = Lit("/")
      /\ \A i \in 1..Len(key) : n[i + 3] = e[i]
  <2>1. n = <<Lit("/")>> \o rest
    BY NormalizedType
  <2> HIDE DEF n, e, rest
  <2> DEFINE r == <<Lit("/")>> \o rest
  <2>2. /\ Len(r) = Len(rest) + 1
        /\ r[1] = Lit("/") /\ \A i \in 1..Len(rest) : r[i + 1] = rest[i]
    BY <1>2, <1>4, Prefixed
  <2>3. n = r
    BY <2>1
  <2> HIDE DEF r
  <2>4. r[1 + 1] = rest[1] /\ r[2 + 1] = rest[2]
    BY <1>0, <1>4, <2>2
  <2>5. ASSUME NEW i \in 1..Len(key) PROVE r[i + 3] = e[i]
    <3>1. i + 2 \in 1..Len(rest) /\ (i + 2) + 1 = i + 3
      BY <1>0, <1>4
    <3>2. r[(i + 2) + 1] = rest[i + 2]
      BY <2>2, <3>1
    <3> QED  BY <1>4, <3>1, <3>2
  <2> QED  BY <1>0, <1>4, <2>2, <2>3, <2>4, <2>5
<1> HIDE DEF n, rest, e
<1>6. \A i \in 1..Len(n) : n[i] # Lit("?") /\ n[i] # Lit("%")
  <2> TAKE i \in 1..Len(n)
  <2>0. i \in Nat /\ i <= Len(key) + 3 /\ i >= 1
    BY <1>0, <1>5
  <2>1. i \in {1, 2, 3} \/ i - 3 \in 1..Len(key)
    BY <1>0, <2>0
  <2>2. Lit("/") # Lit("?") /\ Lit("/") # Lit("%") /\ Lit("a") # Lit("?") /\ Lit("a") # Lit("%")
    BY WrittenChars
  <2>3. ASSUME i - 3 \in 1..Len(key) PROVE n[i] = e[i - 3]
    <3>1. (i - 3) + 3 = i
      BY <2>0
    <3> QED  BY <1>5, <2>3, <3>1
  <2> QED  BY <1>3, <1>5, <2>1, <2>2, <2>3
<1>7. Cut(n, Lit("?")).before = n
  BY <1>2, <1>6, CutNone
<1>8. PathUnescape(rest) = Named(key)
  <2>1. /\ Named(key) \in Seq(Chars) /\ Len(Named(key)) = Len(key) + 2
        /\ Named(key)[1] = "a" /\ Named(key)[2] = "/"
        /\ \A i \in 1..Len(key) : Named(key)[i + 2] = key[i]
    BY NamedType
  <2>2. \A i \in 1..Len(rest) : rest[i].ch = Named(key)[i]
    <3> TAKE i \in 1..Len(rest)
    <3>0. i \in Nat /\ i <= Len(key) + 2 /\ i >= 1
      BY <1>0, <1>4
    <3>1. i = 1 \/ i = 2 \/ i - 2 \in 1..Len(key)
      BY <1>0, <3>0
    <3>2. CASE i = 1 \/ i = 2
      <4>1. Lit("a").ch = "a" /\ Lit("/").ch = "/"
        BY WrittenChars
      <4> QED  BY <1>4, <2>1, <3>2, <4>1
    <3>3. CASE i - 2 \in 1..Len(key)
      <4>1. (i - 2) + 2 = i
        BY <3>0
      <4>2. rest[i] = e[i - 2] /\ Named(key)[i] = key[i - 2]
        BY <1>4, <2>1, <3>3, <4>1
      <4> QED  BY <1>3, <3>3, <4>2
    <3> QED  BY <3>1, <3>2, <3>3
  <2> QED  BY <1>4, <2>1, <2>2, PathRead
<1> QED  BY <1>2, <1>6, <1>7, <1>8 DEF ReadsAs, n

(* No space is written as a plus sign. *)
Legible(s, plus) == ~plus \/ Unspaced(s)

(* A character that is not escaped stands for itself, then. *)
LEMMA BareIsItself ==
  ASSUME NEW c, NEW plus \in BOOLEAN, ~plus \/ c # " ",
         c \in {"a", "/"} \cup (IF plus THEN {" "} ELSE {"+"})
  PROVE  Bare(c) = Lit(c) /\ c \in {"a", "/", "+"}
<1>1. CASE plus
  BY <1>1, Zenon DEF Bare
<1>2. CASE ~plus
  <2>1. c \in {"a", "/", "+"}
    BY <1>2, Zenon
  <2>2. c # " "
    BY <2>1, Zenon
  <2> QED  BY <2>1, <2>2, Zenon DEF Bare
<1> QED  BY <1>1, <1>2, Zenon

(* A source so encoded decodes to itself, and neither a question mark nor a  *)
(* percent sign stands for itself.                                           *)
LEMMA Encoded ==
  ASSUME NEW s \in Seq(Chars), NEW plus \in BOOLEAN, NEW e \in Encodings(s, plus),
         Legible(s, plus)
  PROVE  /\ e \in Seq(Written) /\ Len(e) = Len(s)
         /\ \A i \in 1..Len(s) : e[i].ch = s[i] /\ e[i] # Lit("?") /\ e[i] # Lit("%")
<1> DEFINE May == {"a", "/"} \cup (IF plus THEN {" "} ELSE {"+"})
           Must == {i \in DOMAIN s : s[i] \notin May}
<1>1. PICK E \in SUBSET (DOMAIN s) :
        e = [i \in DOMAIN s |-> IF i \in E \cup Must THEN Pct(s[i]) ELSE Bare(s[i])]
  BY Zenon DEF Encodings
<1>2. DOMAIN s = 1..Len(s) /\ Len(s) \in Nat
  OBVIOUS
<1>0. ASSUME NEW i \in DOMAIN s, i \notin Must
      PROVE  Bare(s[i]) = Lit(s[i]) /\ s[i] \in {"a", "/", "+"}
  <2>1. s[i] \in May
    BY <1>0, Zenon
  <2>2. ~plus \/ s[i] # " "
    BY Zenon DEF Legible, Unspaced
  <2> QED  BY <2>1, <2>2, BareIsItself, Zenon
<1> HIDE DEF Must, May
<1>3. \A i \in 1..Len(s) : \/ e[i] = Pct(s[i])
                           \/ e[i] = Lit(s[i]) /\ s[i] \in {"a", "/", "+"}
  BY <1>0, <1>1, <1>2
<1>4. \A i \in 1..Len(s) : e[i] \in Written
  <2> TAKE i \in 1..Len(s)
  <2>1. s[i] \in Chars
    OBVIOUS
  <2> QED  BY <1>3, <2>1, WrittenChars
<1>5. DOMAIN e = 1..Len(s) /\ e = [i \in 1..Len(s) |-> e[i]]
  BY <1>1, <1>2
<1>6. e \in Seq(Written) /\ Len(e) = Len(s)
  BY <1>2, <1>4, <1>5
<1>7. ASSUME NEW i \in 1..Len(s)
      PROVE  e[i].ch = s[i] /\ e[i] # Lit("?") /\ e[i] # Lit("%")
  BY <1>3, WrittenChars
<1> QED  BY <1>6, <1>7

(* The bucket's name has no space. *)
LEMMA NamedLegible ==
  ASSUME NEW key \in Seq(Chars), NEW plus, Legible(key, plus)
  PROVE  Legible(Named(key), plus)
<1> SUFFICES ASSUME Unspaced(key) PROVE Unspaced(Named(key))
  BY Zenon DEF Legible
<1> SUFFICES ASSUME NEW i \in DOMAIN Named(key) PROVE Named(key)[i] # " "
  BY Zenon DEF Unspaced
<1>1. \/ Named(key)[i] = "a" \/ Named(key)[i] = "/"
      \/ \E j \in DOMAIN key : Named(key)[i] = key[j]
  <2>1. i \in 1..(Len(key) + 2) /\ Len(key) \in Nat /\ DOMAIN key = 1..Len(key)
    BY NamedType
  <2>2. CASE i > 2
    <3>1. i - 2 \in 1..Len(key) /\ (i - 2) + 2 = i
      BY <2>1, <2>2
    <3>2. Named(key)[(i - 2) + 2] = key[i - 2]
      BY <3>1, NamedType
    <3> QED  BY <2>1, <3>1, <3>2
  <2>3. CASE i = 1 \/ i = 2
    BY <2>3, NamedType
  <2> QED  BY <2>1, <2>2, <2>3
<1> QED  BY <1>1, Zenon DEF Unspaced

(* Also with a slash, or an encoded slash, before it. *)
LEMMA NamedEncoded ==
  ASSUME NEW key \in Seq(Chars), NEW plus \in BOOLEAN, Legible(key, plus),
         NEW e \in Encodings(Named(key), plus), NEW lead \in Leads
  PROVE  ReadsAs(lead \o e, key)
<1> DEFINE s == Named(key)
           slash == Lit("/")
<1>1. s \in Seq(Chars) /\ Len(s) = Len(key) + 2 /\ s[1] = "a"
  BY NamedType
<1>2. /\ e \in Seq(Written) /\ Len(e) = Len(s)
      /\ \A i \in 1..Len(s) : e[i].ch = s[i] /\ e[i] # Lit("?") /\ e[i] # Lit("%")
  BY <1>1, NamedLegible, Encoded
<1>3. slash \in Written /\ Pct("/") \in Written /\ "/" \in Chars
  <2>1. "/" \in Chars
    BY DEF Chars
  <2> QED  BY <2>1, WrittenChars
<1> HIDE DEF s
<1>4. PathUnescape(e) = s
  BY <1>1, <1>2, PathRead
<1>5. e # <<>> /\ Head(e) # slash
  <2>1. 1 \in 1..Len(s)
    BY <1>1
  <2>2. e[1].ch = "a"
    BY <1>1, <1>2, <2>1
  <2>3. Lit("/").ch = "/"
    BY WrittenChars
  <2>4. Head(e) = e[1] /\ e # <<>>
    BY <1>1, <1>2
  <2> QED  BY <2>2, <2>3, <2>4
<1>6. CASE lead = <<>>
  <2>1. lead \o e = e
    BY <1>2, <1>6, ConcatEmptySeq
  <2>2. TrimPrefix(e, slash) = e
    BY <1>5 DEF TrimPrefix
  <2> QED  BY <1>2, <1>4, <2>1, <2>2 DEF ReadsAs, s
<1>7. ASSUME NEW c \in Written, lead = <<c>>, c.ch = "/", c # Lit("?"), c # Lit("%"),
             c = slash \/ c # slash
      PROVE  ReadsAs(lead \o e, key)
  <2> DEFINE r == <<c>> \o e
  <2>1. /\ r \in Seq(Written) /\ Len(r) = Len(e) + 1
        /\ r[1] = c /\ \A i \in 1..Len(e) : r[i + 1] = e[i]
    BY <1>2, Prefixed
  <2>2. r # <<>> /\ Head(r) = c /\ Tail(r) = e
    BY <1>2
  <2> HIDE DEF r
  <2>3. ASSUME NEW i \in 1..Len(r)
        PROVE  i = 1 \/ (i - 1 \in 1..Len(s) /\ r[i] = e[i - 1])
    <3>1. Len(s) \in Nat
      BY <1>1
    <3>2. i \in Nat /\ i >= 1 /\ i <= Len(s) + 1
      BY <1>2, <2>1, <3>1
    <3>3. CASE i # 1
      <4>1. i - 1 \in 1..Len(s) /\ (i - 1) + 1 = i
        BY <3>1, <3>2, <3>3
      <4> QED  BY <1>2, <2>1, <4>1
    <3> QED  BY <3>3
  <2>4. \A i \in 1..Len(r) : r[i] # Lit("?") /\ r[i] # Lit("%")
    BY <1>2, <1>7, <2>1, <2>3
  <2>5. PathUnescape(TrimPrefix(r, slash)) \in {s, <<"/">> \o s}
    <3>1. CASE c = slash
      BY <1>4, <2>2, <3>1 DEF TrimPrefix
    <3>2. CASE c # slash
      <4>1. TrimPrefix(r, slash) = r
        BY <2>2, <3>2 DEF TrimPrefix
      <4> DEFINE t == <<"/">> \o s
      <4>2. /\ t \in Seq(Chars) /\ Len(t) = Len(s) + 1
            /\ t[1] = "/" /\ \A i \in 1..Len(s) : t[i + 1] = s[i]
        BY <1>1, <1>3, Prefixed
      <4> HIDE DEF t
      <4>3. \A i \in 1..Len(r) : r[i].ch = t[i]
        <5> TAKE i \in 1..Len(r)
        <5>1. CASE i = 1
          BY <1>7, <2>1, <4>2, <5>1
        <5>2. CASE i # 1
          <6>1. i - 1 \in 1..Len(s) /\ r[i] = e[i - 1]
            BY <2>3, <5>2
          <6>2. t[(i - 1) + 1] = s[i - 1] /\ e[i - 1].ch = s[i - 1]
            BY <1>2, <4>2, <6>1
          <6>3. (i - 1) + 1 = i
            BY <2>1
          <6> QED  BY <6>1, <6>2, <6>3
        <5> QED  BY <5>1, <5>2
      <4>4. PathUnescape(r) = t
        BY <1>2, <2>1, <4>2, <4>3, PathRead
      <4> QED  BY <4>1, <4>4 DEF t
    <3> QED  BY <3>1, <3>2
  <2> QED  BY <1>7, <2>1, <2>4, <2>5 DEF ReadsAs, r, s
<1>8. /\ slash.ch = "/" /\ slash # Lit("?") /\ slash # Lit("%")
      /\ Pct("/").ch = "/" /\ Pct("/") # Lit("?") /\ Pct("/") # Lit("%")
  BY WrittenChars
<1> QED  BY <1>3, <1>6, <1>7, <1>8 DEF Leads

(* A header is put together of three parts. *)
Joins(h, l, x, v) == h = l \o x \o v

(* A slash or none, a source, a version or none. *)
LEMMA SourceParts ==
  ASSUME NEW key, NEW plus, NEW h \in Sources(key, plus)
  PROVE  \E l \in Leads, x \in Encodings(Named(key), plus), v \in Versions : Joins(h, l, x, v)
<1>1. \E l \in Leads, x \in Encodings(<<"a", "/">> \o key, plus), v \in Versions : h = l \o x \o v
  BY DEF Sources
<1> QED  BY <1>1 DEF Named, Joins

(* Every legible header an SDK may write reads as the source it stands for:  *)
(* the version is cut off where it begins.                                   *)
LEMMA SourceReads ==
  ASSUME NEW key \in Seq(Chars), NEW plus \in BOOLEAN, Legible(key, plus),
         NEW h \in Sources(key, plus)
  PROVE  ReadsAs(Cut(h, Lit("?")).before, key)
<1>1. PICK lead \in Leads, e \in Encodings(Named(key), plus), version \in Versions :
        Joins(h, lead, e, version)
  BY SourceParts, Zenon
<1> DEFINE raw == lead \o e
           ask == Lit("?")
<1>2. ReadsAs(raw, key)
  BY NamedEncoded
<1>3. raw \in Seq(Written) /\ \A i \in 1..Len(raw) : raw[i] # ask
  BY <1>2 DEF ReadsAs
<1>4. ask \in Written /\ Lit("a") \in Written
  <2>1. "?" \in Chars /\ "a" \in Chars
    BY DEF Chars
  <2> QED  BY <2>1, WrittenChars
<1>5. h = raw \o version
  BY <1>1 DEF Joins
<1> HIDE DEF raw, ask
<1>6. CASE version = <<>>
  <2>1. h = raw
    BY <1>3, <1>5, <1>6, ConcatEmptySeq
  <2>2. Cut(raw, ask).before = raw
    BY <1>3, CutNone
  <2> QED  BY <1>2, <2>1, <2>2 DEF ask
<1>7. CASE version = <<Lit("?"), Lit("a")>>
  <2> DEFINE v == Lit("a")
  <2>1. v \in Written /\ version = <<ask, v>>
    BY <1>4, <1>7 DEF ask
  <2> HIDE DEF v
  <2>2. <<ask>> \in Seq(Written) /\ <<v>> \in Seq(Written) /\ <<ask, v>> = <<ask>> \o <<v>>
    BY <1>4, <2>1
  <2>3. raw \o (<<ask>> \o <<v>>) = raw \o <<ask>> \o <<v>>
    BY <1>3, <2>2, ConcatAssociative
  <2>4. Cut(raw \o <<ask>> \o <<v>>, ask).before = raw
    <3> DEFINE b == <<v>>
    <3>1. b \in Seq(Written)
      BY <2>2
    <3> HIDE DEF b
    <3>2. LET c == Cut(raw \o <<ask>> \o b, ask) IN c.before = raw /\ c.after = b
      BY <1>3, <1>4, <3>1, CutAt
    <3> QED  BY <3>2 DEF b
  <2> QED  BY <1>2, <1>5, <2>1, <2>2, <2>3, <2>4 DEF ask
<1> QED  BY <1>1, <1>6, <1>7 DEF Versions

(* Until it is normalised, the header is what the client wrote; afterwards   *)
(* it is the one normalised form if that was legible, and for good if the    *)
(* key has no space.                                                         *)
CopyInv ==
  LET key == request.key
      plus == request.plus
  IN  /\ key \in Seq(Chars) /\ plus \in BOOLEAN
      /\ passes \in Nat
      /\ stage \in {"boot", "ready", "exit", "serving", "backpressure"} => passes = 0
      /\ stage = "image" => passes > 0
      /\ stage \in {"backpressure", "copysource"} /\ passes = 0 /\ key # <<>> =>
           header \in Sources(key, plus)
      /\ stage \in {"copysource", "image"} /\ passes > 0 /\ key # <<>>
           /\ (Unspaced(key) \/ (passes = 1 /\ ~plus)) =>
           header = Normalized(key)

(* Normalising leads there, the first time and again. *)
LEMMA NormalizeStep ==
  ASSUME NEW key \in Seq(Chars), key # <<>>, NEW h, NEW plus \in BOOLEAN,
         \/ h \in Sources(key, plus) /\ Legible(key, plus)
         \/ h = Normalized(key) /\ Unspaced(key)
  PROVE  normalizeCopySource(h) = Normalized(key)
<1>1. ReadsAs(Cut(h, Lit("?")).before, key)
  BY SourceReads, NormalizedReads
<1> QED  BY <1>1, NormalizesTo

(* The keys of clients are sequences of characters. *)
LEMMA KeyOfClient ==
  ASSUME NEW k \in KeysOfClients
  PROVE  k \in Seq(Chars)
<1>1. PICK n \in 1..MaxKeyLen : k \in [1..n -> Chars]
  BY DEF KeysOfClients
<1>2. n \in Nat
  BY KeyLenAssumption
<1> QED  BY <1>1, <1>2

(* A request with a key to copy from arrives with a header that stands for   *)
(* it.                                                                       *)
LEMMA ArrivesWithSource ==
  ASSUME ArriveAny
  PROVE  /\ stage = "serving" /\ stage' = "backpressure" /\ passes' = passes
         /\ request'.key \in Seq(Chars) /\ request'.plus \in BOOLEAN
         /\ request'.key # <<>> => header' \in Sources(request'.key, request'.plus)
<1>0. <<>> \in Seq(Chars) /\ NoRequest.key = <<>>
  BY EmptySeq DEF NoRequest
<1>1. CASE \E k \in KeysOfClients, plus \in BOOLEAN : \E h \in Sources(k, plus) :
             Arrive([NoRequest EXCEPT !.method = "PUT", !.keyed = TRUE, !.key = k, !.plus = plus], h)
  <2> DEFINE Q(k, plus) ==
               [NoRequest EXCEPT !.method = "PUT", !.keyed = TRUE, !.key = k, !.plus = plus]
  <2>0. PICK k \in KeysOfClients, plus \in BOOLEAN :
          \E h \in Sources(k, plus) : Arrive(Q(k, plus), h)
    BY <1>1
  <2>1. PICK h \in Sources(k, plus) : Arrive(Q(k, plus), h)
    BY <2>0
  <2>2. Q(k, plus).key = k /\ Q(k, plus).plus = plus
    BY DEF NoRequest
  <2> HIDE DEF Q
  <2>3. k \in Seq(Chars)
    BY KeyOfClient
  <2> QED  BY <2>1, <2>2, <2>3 DEF Arrive
<1>2. CASE \E s \in Specs, keyed \in BOOLEAN :
             Arrive([NoRequest EXCEPT !.method = "GET", !.keyed = keyed, !.spec = s], <<>>)
  BY <1>0, <1>2 DEF Arrive, NoRequest
<1>3. CASE \E m \in {"HEAD", "PUT", "DELETE"}, keyed \in BOOLEAN :
             Arrive([NoRequest EXCEPT !.method = m, !.keyed = keyed], <<>>)
  BY <1>0, <1>3 DEF Arrive, NoRequest
<1> QED  BY <1>1, <1>2, <1>3 DEF ArriveAny

(* gofakes3 copies from the object the client named (normalizeCopySource,    *)
(* splitBucketKey), for keys of any length: in every spelling that escapes   *)
(* for a path, normalised once; and, if the key has no space, in those that  *)
(* escape for a query too, normalised any number of times.                   *)
THEOREM CopiesItsSource == Spec => []CopyReadsItsSource
<1>0. <<>> \in Seq(Chars) /\ NoRequest.key = <<>> /\ NoRequest.plus \in BOOLEAN
  BY EmptySeq DEF NoRequest
<1>1. Init => CopyInv
  <2> SUFFICES ASSUME Init PROVE CopyInv
    OBVIOUS
  <2>1. request.key = <<>> /\ request.key \in Seq(Chars) /\ request.plus \in BOOLEAN
    BY <1>0, Zenon DEF Init
  <2>2. passes = 0 /\ stage = "boot" /\ 0 \in Nat
    BY DEF Init
  <2>3. stage # "image"
    BY <2>2
  <2> QED  BY <2>1, <2>2, <2>3, Zenon DEF CopyInv
<1>2. CopyInv /\ [Next]_vars => CopyInv'
  <2> SUFFICES ASSUME CopyInv, [Next]_vars PROVE CopyInv'
    OBVIOUS
  <2>1. CASE FixCopySource
    <3> DEFINE key == request.key
               plus == request.plus
    <3>1. /\ stage = "copysource" /\ key \in Seq(Chars) /\ plus \in BOOLEAN /\ passes \in Nat
          /\ request' = request /\ passes' = passes + 1 /\ stage' \in {"copysource", "image"}
          /\ header' = normalizeCopySource(header)
      BY <2>1 DEF FixCopySource, CopyInv
    <3>2. ASSUME key # <<>>, Unspaced(key) \/ (passes + 1 = 1 /\ ~plus)
          PROVE  header' = Normalized(key)
      <4>1. CASE passes = 0
        <5>1. header \in Sources(key, plus)
          BY <3>1, <3>2, <4>1 DEF CopyInv
        <5>2. Legible(key, plus)
          BY <3>2, Zenon DEF Legible
        <5> HIDE DEF key, plus
        <5> QED  BY <3>1, <3>2, <5>1, <5>2, NormalizeStep
      <4>2. CASE passes > 0 /\ Unspaced(key)
        <5>1. header = Normalized(key)
          BY <3>1, <3>2, <4>2 DEF CopyInv
        <5> HIDE DEF key
        <5> QED  BY <3>1, <3>2, <4>2, <5>1, NormalizeStep
      <4> QED  BY <3>1, <3>2, <4>1, <4>2
    <3>3. passes + 1 \in Nat /\ passes + 1 > 0
      BY <3>1
    <3> QED  BY <3>1, <3>2, <3>3 DEF CopyInv
  <2>2. CASE ArriveAny
    BY <2>2, ArrivesWithSource DEF CopyInv
  <2>3. CASE Again \/ FixXMLContentType
    <3>1. request'.key = <<>> /\ request'.key \in Seq(Chars) /\ request'.plus \in BOOLEAN
      BY <1>0, <2>3, Zenon DEF Again, FixXMLContentType
    <3>2. passes' = 0 /\ stage' # "image" /\ 0 \in Nat
      BY <2>3 DEF Again, FixXMLContentType
    <3> QED  BY <3>1, <3>2, Zenon DEF CopyInv
  <2>4. CASE Boot \/ Serve \/ Backpressure \/ ImageProcess \/ Respond
    BY <2>4 DEF Boot, Serve, Backpressure, ImageProcess, Respond, CopyInv
  <2>5. CASE UNCHANGED vars
    BY <2>5 DEF vars, CopyInv
  <2> QED  BY <2>1, <2>2, <2>3, <2>4, <2>5 DEF Next
<1>3. CopyInv => CopyReadsItsSource
  <2> SUFFICES ASSUME CopyInv, stage = "image", request.key # <<>>,
                      \/ ~ \E i \in DOMAIN request.key : request.key[i] = " "
                      \/ passes = 1 /\ ~request.plus
               PROVE  copyObjectSource(header) = <<<<"a">>, request.key>>
    BY Zenon DEF CopyReadsItsSource
  <2> DEFINE key == request.key
  <2>1. Unspaced(key) \/ (passes = 1 /\ ~request.plus)
    BY Zenon DEF Unspaced
  <2>2. key \in Seq(Chars)
    BY Zenon DEF CopyInv
  <2>3. passes > 0
    BY Zenon DEF CopyInv
  <2>4. header = Normalized(key)
    BY <2>1, <2>3, Zenon DEF CopyInv
  <2> HIDE DEF key
  <2>5. copyObjectSource(Normalized(key)) = <<<<"a">>, key>>
    BY <2>2, CopiesNamed, Zenon
  <2> QED  BY <2>4, <2>5, Zenon DEF key
<1> QED  BY <1>1, <1>2, <1>3, PTL DEF Spec
=============================================================================
