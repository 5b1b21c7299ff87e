----------------------------- MODULE CopySource -----------------------------
(* internal/s3gw/copysource.go.  A header is a sequence of characters, each  *)
(* written as it is or percent-encoded; "a" stands for every character that  *)
(* is never escaped, and a literal percent sign is a broken escape.          *)
EXTENDS Integers, Sequences, SequencesExt

Chars == {"a", "/", " ", "+", "?", "%"}

Lit(c) == [ch |-> c, pct |-> FALSE]
Pct(c) == [ch |-> c, pct |-> TRUE]

(* Net/url, which the header is read and written with (external). *)
Decodable(h) == \A i \in DOMAIN h : h[i] # Lit("%")
PathUnescape(h) == [i \in DOMAIN h |-> h[i].ch]
QueryUnescape(h) == [i \in DOMAIN h |-> IF h[i] = Lit("+") THEN " " ELSE h[i].ch]
QueryEscape(s) ==
  [i \in DOMAIN s |-> CASE s[i] = "a" -> Lit("a") [] s[i] = " " -> Lit("+") [] OTHER -> Pct(s[i])]

(* strings.Cut: before and after the first sep; found tells whether there is one. *)
Cut(s, sep) ==
  LET i == SelectInSeq(s, LAMBDA e : e = sep)
  IN  [found |-> i > 0,
       before |-> IF i > 0 THEN SubSeq(s, 1, i - 1) ELSE s,
       after |-> IF i > 0 THEN SubSeq(s, i + 1, Len(s)) ELSE <<>>]

TrimPrefix(s, c) == IF s # <<>> /\ Head(s) = c THEN Tail(s) ELSE s

splitBucketKey(p) ==
  LET parts == Cut(TrimPrefix(p, "/"), "/")
  IN  [ok |-> parts.after # <<>>, bucket |-> parts.before, key |-> parts.after]

(* Mutant: the version subresource is cut off after decoding. *)
normalizeCopySourceLate(h) ==
  LET dec == PathUnescape(TrimPrefix(h, Lit("/")))
      name == splitBucketKey(Cut(dec, "?").before)
  IN  IF Decodable(h) /\ name.ok
      THEN <<Lit("/")>> \o QueryEscape(name.bucket) \o <<Lit("/")>> \o QueryEscape(name.key)
      ELSE h

(* The new header, which is the old one where the code returns ok = false. *)
normalizeCopySource(h) ==
  LET raw == Cut(h, Lit("?")).before
      name == splitBucketKey(PathUnescape(TrimPrefix(raw, Lit("/"))))
  IN  IF Decodable(raw) /\ name.ok
      THEN <<Lit("/")>> \o [i \in DOMAIN name.bucket |-> Lit(name.bucket[i])]
             \o <<Lit("/")>> \o QueryEscape(name.key)
      ELSE h

(* What gofakes3 takes the header for: it splits before it decodes (external). *)
copyObjectSource(h) ==
  LET parts == Cut(TrimPrefix(h, Lit("/")), Lit("/"))
  IN  <<QueryUnescape(parts.before), QueryUnescape(parts.after)>>
-----------------------------------------------------------------------------
CONSTANT MaxKeyLen   \* bound: characters of a key

ASSUME KeyLenAssumption == MaxKeyLen \in Nat

KeysOfClients == UNION {[1..n -> Chars] : n \in 1..MaxKeyLen}

(* The ways SDKs write a source.  Any character may be percent-encoded; "a"  *)
(* and the slash may stand for themselves.  The SDKs differ in the plus      *)
(* sign: one that escapes for a path may write it for itself, one that       *)
(* escapes for a query (plus) may write it for a space and not for itself.   *)
Bare(c) == IF c = " " THEN Lit("+") ELSE Lit(c)

Encodings(s, plus) ==
  LET May == {"a", "/"} \cup (IF plus THEN {" "} ELSE {"+"})
      Must == {i \in DOMAIN s : s[i] \notin May}
  IN  {[i \in DOMAIN s |-> IF i \in E \cup Must THEN Pct(s[i]) ELSE Bare(s[i])] :
         E \in SUBSET (DOMAIN s)}

Leads == {<<>>, <<Lit("/")>>, <<Pct("/")>>}
Versions == {<<>>, <<Lit("?"), Lit("a")>>}

(* A slash before the bucket or a version after the key may be there. *)
Sources(key, plus) ==
  {lead \o h \o version :
     lead \in Leads, h \in Encodings(<<"a", "/">> \o key, plus), version \in Versions}
=============================================================================
