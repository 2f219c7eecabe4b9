-------------------------- MODULE VerificationProofs -------------------------
(***************************************************************************)
(* Registration and signatures: proved for every address, secret, body,    *)
(* clock and tolerance.                                                    *)
(***************************************************************************)
EXTENDS Verification, FiniteSetTheorems, SequenceTheorems, TLAPS

-----------------------------------------------------------------------------
(* The blocked ranges.                                                     *)

Octets == 0..255

Segments == 0..65535

V4 == Octets \X Octets \X Octets \X Octets

V6 == Segments \X Segments \X Segments \X Segments \X
      Segments \X Segments \X Segments \X Segments

(* Every host a URL may have.                                              *)
AllHosts ==
       [kind : {"name", "localhost"}, address : {<< >>}]
  \cup [kind : {"v4"}, address : V4]
  \cup [kind : {"v6"}, address : V6]

LEMMA BlockedPairs ==
  ASSUME NEW b \in Octets, NEW c \in Octets, NEW d \in Octets, NEW e \in Octets
  PROVE  IsBlockedV4(<< b, c, d, e >>) <=> ReservedPair(256 * b + c, 256 * d + e)
<1>1. \A n \in Octets :
        << b, c, d, e >> = << n, n, n, n >> <=> b = n /\ c = n /\ d = n /\ e = n
  OBVIOUS
<1>2. \A x \in Octets, y \in Octets, z \in Octets :
        << b, c, d >> = << x, y, z >> <=> b = x /\ c = y /\ d = z
  OBVIOUS
<1> QED
  BY <1>1, <1>2, SMTT(30) DEF IsBlockedV4, IsSharedV4, ReservedPair, Octets

LEMMA MaskedRanges ==
  ASSUME NEW s \in Segments
  PROVE  /\ Masked(s, 65024) = 64512 <=> s \in 64512..65023
         /\ Masked(s, 65472) = 65152 <=> s \in 65152..65215
<1>1. Masked(s, 65024) = 64512 <=> s \in 64512..65023
  BY SMTT(150) DEF Masked, Segments
<1>2. Masked(s, 65472) = 65152 <=> s \in 65152..65215
  BY SMTT(150) DEF Masked, Segments
<1> QED
  BY <1>1, <1>2

LEMMA Halves ==
  ASSUME NEW s \in Segments
  PROVE  /\ s \div 256 \in Octets /\ s % 256 \in Octets
         /\ 256 * (s \div 256) + (s % 256) = s
<1> DEFINE q == s \div 256
           r == s % 256
<1>1. s \in Int /\ 0 <= s /\ s <= 65535
  BY SMTT(60) DEF Segments
<1>2. q \in Int /\ r \in Int /\ 0 <= r /\ r <= 255 /\ 256 * q + r = s
  BY <1>1, SMTT(30)
<1> HIDE DEF q, r
<1>3. 0 <= q /\ q <= 255
  BY <1>1, <1>2
<1>4. q \in Octets /\ r \in Octets /\ 256 * q + r = s
  BY <1>2, <1>3 DEF Octets
<1> QED
  BY <1>4 DEF q, r

(* is_blocked_host (endpoints.rs:81) refuses exactly the hosts that are    *)
(* "not routable from the relay": proved for all 2^32 and 2^128 addresses, *)
(* an IPv4 address in IPv6 notation included.                              *)
THEOREM RangesAreAlwaysExact ==
  ASSUME Hosts \subseteq AllHosts
  PROVE  VerificationSpec => []RangesAreExact
<1>1. ASSUME NEW h \in AllHosts
      PROVE  IsBlockedHost(h) <=> ReservedHost(h)
  <2>1. CASE h \in [kind : {"name", "localhost"}, address : {<< >>}]
    <3>1. h.kind \in {"name", "localhost"}
      BY <2>1
    <3> QED
      BY <3>1 DEF IsBlockedHost, ReservedHost
  <2>2. CASE h \in [kind : {"v4"}, address : V4]
    <3>1. PICK b \in Octets, c \in Octets, d \in Octets, e \in Octets :
            h.address = << b, c, d, e >>
      BY <2>2 DEF V4
    <3>2. h.kind = "v4" /\ h.address[1] = b /\ h.address[2] = c /\ h.address[3] = d /\ h.address[4] = e
      BY <2>2, <3>1
    <3>3. ReservedHost(h) <=> ReservedPair(256 * b + c, 256 * d + e)
      BY <3>2 DEF ReservedHost
    <3> QED
      BY <3>1, <3>2, <3>3, BlockedPairs DEF IsBlockedHost
  <2>3. CASE h \in [kind : {"v6"}, address : V6]
    <3>1. PICK s1 \in Segments, s2 \in Segments, s3 \in Segments, s4 \in Segments,
               s5 \in Segments, s6 \in Segments, s7 \in Segments, s8 \in Segments :
            h.address = << s1, s2, s3, s4, s5, s6, s7, s8 >>
      BY <2>3 DEF V6
    <3> DEFINE a == h.address
    <3>2. /\ a[1] = s1 /\ a[2] = s2 /\ a[3] = s3 /\ a[4] = s4
          /\ a[5] = s5 /\ a[6] = s6 /\ a[7] = s7 /\ a[8] = s8
      BY <3>1
    <3> HIDE DEF a
    <3>3. (\A n \in 1..5 : a[n] = 0) <=> s1 = 0 /\ s2 = 0 /\ s3 = 0 /\ s4 = 0 /\ s5 = 0
      BY <3>2
    <3>4. (\A n \in 1..7 : a[n] = 0) <=> (\A n \in 1..5 : a[n] = 0) /\ s6 = 0 /\ s7 = 0
      BY <3>2
    <3>5. IsBlockedV4(Mapped(a)) <=> ReservedPair(s7, s8)
      <4>1. Mapped(a) = << s7 \div 256, s7 % 256, s8 \div 256, s8 % 256 >>
        BY <3>2 DEF Mapped
      <4>2. PICK b \in Octets, c \in Octets, d \in Octets, e \in Octets :
              /\ Mapped(a) = << b, c, d, e >>
              /\ 256 * b + c = s7 /\ 256 * d + e = s8
        BY <4>1, Halves
      <4> QED
        BY <4>2, BlockedPairs
    <3>6. IsBlockedV6(a) <=>
            \/ s1 \in 64512..65023 \/ s1 \in 65152..65215
            \/ (\A n \in 1..5 : a[n] = 0) /\ s6 = 65535 /\ ReservedPair(s7, s8)
            \/ (\A n \in 1..5 : a[n] = 0) /\ s6 = 0 /\ s7 = 0 /\ s8 \in {0, 1}
      BY <3>2, <3>4, <3>5, MaskedRanges DEF IsBlockedV6, IsMapped
    <3>7. ReservedHost(h) <=>
            \/ s1 \in 64512..65023 \/ s1 \in 65152..65215
            \/ (\A n \in 1..5 : a[n] = 0) /\ s6 = 65535 /\ ReservedPair(s7, s8)
            \/ (\A n \in 1..5 : a[n] = 0) /\ s6 = 0 /\ s7 = 0 /\ s8 \in {0, 1}
      <4>1. h.kind = "v6"
        BY <2>3
      <4> QED
        BY <3>2, <4>1 DEF ReservedHost, a
    <3> QED
      <4>1. h.kind = "v6"
        BY <2>3
      <4> QED
        BY <3>6, <3>7, <4>1 DEF IsBlockedHost, a
  <2> QED
    BY <2>1, <2>2, <2>3 DEF AllHosts
<1>2. RangesAreExact
  BY <1>1 DEF RangesAreExact
<1> QED
  BY <1>2, PTL

-----------------------------------------------------------------------------
(* One signature in one header.                                            *)

Sealed(k, ts, body) ==
  Item("x-signature-ed25519", "lower", k, 0, StampText[ts] \o body.text)

Stamp(ts) == Item("x-signature-timestamp", "number", NoKey, 0, StampText[ts])

LEMMA SendsDiscord ==
  ASSUME NEW k, NEW ts, NEW body
  PROVE  \A items \in Sends("discord", {k}, ts, body) :
           items = << Sealed(k, ts, body), Stamp(ts) >>
<1>1. Sends("discord", {k}, ts, body) = {<< Sealed(k, ts, body), Stamp(ts) >>}
  BY SMTT(30) DEF Sends, Sealed, Stamp
<1> QED
  BY <1>1

LEMMA OneHeader ==
  ASSUME NEW x, NEW name
  PROVE  Header(<< x >>, name) = {y \in {x} : y.name = name}
BY DEF Header

LEMMA TwoHeaders ==
  ASSUME NEW x, NEW y, x.name # y.name
  PROVE  /\ Header(<< x, y >>, x.name) = {x}
         /\ Header(<< x, y >>, y.name) = {y}
<1> DEFINE items == << x, y >>
<1>1. DOMAIN items = {1, 2} /\ items[1] = x /\ items[2] = y
  OBVIOUS
<1> HIDE DEF items
<1>2. /\ \A k \in 1..(1 - 1) : items[k].name # x.name
      /\ ~ \A k \in 1..(2 - 1) : items[k].name = y.name
      /\ \A k \in 1..(2 - 1) : items[k].name # y.name
  BY <1>1
<1>3. {m \in DOMAIN items :
         items[m].name = x.name /\ \A k \in 1..(m - 1) : items[k].name # x.name} = {1}
  BY <1>1, <1>2
<1>4. {m \in DOMAIN items :
         items[m].name = y.name /\ \A k \in 1..(m - 1) : items[k].name # y.name} = {2}
  BY <1>1, <1>2
<1>5. Header(items, x.name) = {x} /\ Header(items, y.name) = {y}
  BY <1>1, <1>3, <1>4 DEF Header
<1> QED
  BY <1>5 DEF items

(* All providers but stripe sign with one key.                             *)
IsSingle(keys) == \E k : keys = {k}

LEMMA GithubIsExact ==
  ASSUME NEW keys, IsSingle(keys), NEW ts, NEW signed, NEW body, NEW secret,
         NEW items \in Sends("github", keys, ts, signed)
  PROVE  VerifyGithub(secret, body, items) <=> secret \in keys /\ body.text = signed.text
<1>0. PICK k : keys = {k}
  BY DEF IsSingle
<1> DEFINE sig == Item("x-hub-signature-256", "sha256=lower", k, 0, signed.text)
<1>1. items = << sig >>
  BY <1>0 DEF Sends
<1>2. /\ sig.name = "x-hub-signature-256" /\ sig.text = "sha256=lower"
      /\ sig.key = k /\ sig.over = signed.text
  BY DEF Item
<1> HIDE DEF sig
<1>3. Header(items, "x-hub-signature-256") = {sig}
  BY <1>1, <1>2, OneHeader
<1>4. IsMac(sig, "github", secret, body.text) <=> secret = k /\ body.text = signed.text
  BY <1>2 DEF IsMac, Readable
<1> QED
  BY <1>0, <1>3, <1>4 DEF VerifyGithub

LEMMA GenericIsExact ==
  ASSUME NEW keys, IsSingle(keys), NEW ts, NEW signed, NEW body, NEW secret,
         NEW items \in Sends("generic", keys, ts, signed)
  PROVE  VerifyGeneric(secret, body, items) <=> secret \in keys /\ body.text = signed.text
<1>0. PICK k : keys = {k}
  BY DEF IsSingle
<1>1. PICK name \in {"x-signature", "signature"}, text \in Readable["generic"] :
        items = << Item(name, text, k, 0, signed.text) >>
  BY <1>0 DEF Sends
<1> DEFINE sig == Item(name, text, k, 0, signed.text)
<1>2. sig.name = name /\ sig.text = text /\ sig.key = k /\ sig.over = signed.text
  BY DEF Item
<1> HIDE DEF sig
<1>3. /\ name = "x-signature" => Header(items, "x-signature") = {sig}
      /\ name = "signature" =>
           Header(items, "x-signature") = {} /\ Header(items, "signature") = {sig}
  BY <1>1, <1>2, OneHeader DEF sig
<1>4. VerifyGeneric(secret, body, items) <=> IsMac(sig, "generic", secret, body.text)
  BY <1>3 DEF VerifyGeneric
<1> QED
  BY <1>0, <1>2, <1>4 DEF IsMac

(* The digest's text is the one that was signed, with the key of today.    *)
FieldsAsSent(secret, keys, body, signed) ==
  \E f \in body.fields, g \in signed.fields, k \in keys :
    Joined(f) \o secret = Joined(g) \o k

LEMMA MidtransIsExact ==
  ASSUME NEW keys, IsSingle(keys), NEW ts, NEW signed \in Bodies, NEW body, NEW secret,
         NEW items \in Sends("midtrans", keys, ts, signed)
  PROVE  VerifyMidtrans(secret, body, items) <=> FieldsAsSent(secret, keys, body, signed)
<1>0. PICK k : keys = {k}
  BY DEF IsSingle
<1>1. PICK g \in signed.fields :
        items = << Item("signature_key", "lower", NoKey, 0, Joined(g) \o k) >>
  BY <1>0 DEF Sends
<1>2. \A h \in signed.fields : h = g
  BY VerificationAssumption
<1> DEFINE sig == Item("signature_key", "lower", NoKey, 0, Joined(g) \o k)
<1>3. /\ sig.name = "signature_key" /\ sig.text = "lower"
      /\ sig.key = NoKey /\ sig.over = Joined(g) \o k
  BY DEF Item
<1> HIDE DEF sig
<1>4. Header(items, "signature_key") = {sig}
  BY <1>1, <1>3, OneHeader DEF sig
<1>5. \A f : Payload(f, secret) = Joined(f) \o secret
  BY DEF Payload, Joined
<1>6. \A f : IsMac(sig, "midtrans", NoKey, Payload(f, secret)) <=>
              Joined(f) \o secret = Joined(g) \o k
  BY <1>3, <1>5 DEF IsMac, Readable
<1>7. VerifyMidtrans(secret, body, items) <=>
        \E f \in body.fields : Joined(f) \o secret = Joined(g) \o k
  BY <1>4, <1>6 DEF VerifyMidtrans
<1> QED
  BY <1>0, <1>2, <1>7 DEF FieldsAsSent

LEMMA StampedHeaders ==
  ASSUME NEW k, NEW ts, NEW signed, NEW u
  PROVE  LET items == << Sealed(k, ts, signed), Stamp(u) >>
         IN  /\ Header(items, "x-signature-ed25519") = {Sealed(k, ts, signed)}
             /\ Header(items, "x-signature-timestamp") = {Stamp(u)}
             /\ Named(items, "x-signature-timestamp") = {Stamp(u)}
<1> DEFINE sig   == Sealed(k, ts, signed)
           time  == Stamp(u)
           items == << sig, time >>
<1>1. sig.name = "x-signature-ed25519" /\ time.name = "x-signature-timestamp"
  BY DEF Item, Sealed, Stamp
<1> HIDE DEF sig, time
<1>2. /\ Header(items, "x-signature-ed25519") = {sig}
      /\ Header(items, "x-signature-timestamp") = {time}
  BY <1>1, TwoHeaders
<1>3. DOMAIN items = {1, 2} /\ items[1] = sig /\ items[2] = time
  OBVIOUS
<1> HIDE DEF items
<1>4. Named(items, "x-signature-timestamp") = {time}
  BY <1>1, <1>3 DEF Named
<1> QED
  BY <1>2, <1>4 DEF sig, time, items

(* The timestamp and the body are, end to end, what was signed.            *)
StampAsSent(u, body, ts, signed) ==
  StampText[u] \o body.text = StampText[ts] \o signed.text

LEMMA DiscordIsExact ==
  ASSUME NEW k, NEW ts, NEW signed, NEW body, NEW secret, NEW u
  PROVE  VerifyDiscord(secret, body, << Sealed(k, ts, signed), Stamp(u) >>) <=>
           secret \in PublicKeys /\ secret = k /\ StampAsSent(u, body, ts, signed)
<1> DEFINE sig   == Sealed(k, ts, signed)
           time  == Stamp(u)
           items == << sig, time >>
<1>1. /\ sig.text = "lower" /\ sig.key = k /\ sig.over = StampText[ts] \o signed.text
      /\ time.over = StampText[u]
  BY DEF Item, Sealed, Stamp
<1>2. /\ Header(items, "x-signature-ed25519") = {sig}
      /\ Header(items, "x-signature-timestamp") = {time}
  BY StampedHeaders
<1> HIDE DEF sig, time, items
<1>3. IsMac(sig, "discord", secret, time.over \o body.text) <=>
        secret = k /\ StampAsSent(u, body, ts, signed)
  BY <1>1 DEF IsMac, Readable, StampAsSent
<1>4. VerifyDiscord(secret, body, items) <=>
        secret \in PublicKeys /\ IsMac(sig, "discord", secret, time.over \o body.text)
  BY <1>2 DEF VerifyDiscord
<1> QED
  BY <1>3, <1>4 DEF sig, time, items

-----------------------------------------------------------------------------
(* Stripe's elements, in any order.                                        *)

(* A sequence of all elements of a finite set has each in one place.       *)
LEMMA Orders ==
  ASSUME NEW S, IsFiniteSet(S), NEW f \in SetToSeqs(S)
  PROVE  /\ DOMAIN f \subseteq Nat
         /\ \A n \in DOMAIN f : f[n] \in S
         /\ \A x \in S : \E n \in DOMAIN f : f[n] = x
         /\ \A m, n \in DOMAIN f : f[m] = f[n] => m = n
<1> DEFINE D == 1..Cardinality(S)
<1>1. f \in [D -> S] /\ \A m, n \in D : m # n => f[m] # f[n]
  BY DEF SetToSeqs
<1>2. Cardinality(S) \in Nat
  BY FS_CardinalityType
<1>3. IsFiniteSet(D) /\ Cardinality(D) = Cardinality(S)
  BY <1>2, FS_Interval
<1>4. f \in Injection(D, S)
  BY <1>1 DEF Injection, IsInjective
<1>5. f \in Surjection(D, S)
  BY <1>3, <1>4, FS_Injection
<1>6. DOMAIN f = D /\ D \subseteq Nat
  BY <1>1, <1>2
<1> QED
  BY <1>1, <1>5, <1>6 DEF Surjection

LEMMA PairIsFinite ==
  ASSUME NEW x, NEW y
  PROVE  IsFiniteSet({x, y})
<1>1. {x, y} = {x} \cup {y}
  OBVIOUS
<1>2. IsFiniteSet({x} \cup {y})
  BY FS_Singleton, FS_Union
<1> QED
  BY <1>1, <1>2

LEMMA NatReflexive == \A n \in Nat : n <= n
OBVIOUS

LEMMA SendsStripe ==
  ASSUME NEW keys, NEW ts, NEW body
  PROVE  LET message == << ts, body.text >>
             time    == Item("t", "number", NoKey, ts, NoText)
             others  == {Item("t", "junk", NoKey, 0, NoText), Item("v0", "lower", NoKey, 0, message)}
             sigs    == {Item("v1", "lower", k, 0, message) : k \in keys}
         IN  Sends("stripe", keys, ts, body) =
               UNION {SetToSeqs({time} \cup sigs \cup extra) : extra \in SUBSET others}
BY SMTT(30) DEF Sends

LEMMA StripeIsExact ==
  ASSUME NEW keys, IsFiniteSet(keys), NEW ts, NEW signed, NEW body, NEW secret, NEW t,
         NEW items \in Sends("stripe", keys, ts, signed)
  PROVE  VerifyStripe(secret, body, items, t) <=>
           secret \in keys /\ body.text = signed.text /\ InTolerance(ts, t)
<1> DEFINE message == << ts, signed.text >>
           time   == Item("t", "number", NoKey, ts, NoText)
           others == {Item("t", "junk", NoKey, 0, NoText), Item("v0", "lower", NoKey, 0, message)}
           sig(k) == Item("v1", "lower", k, 0, message)
           sigs   == {sig(k) : k \in keys}
<1>1. PICK extra \in SUBSET others : items \in SetToSeqs({time} \cup sigs \cup extra)
  <2>1. items \in UNION {SetToSeqs({time} \cup sigs \cup extra) : extra \in SUBSET others}
    BY SendsStripe, Zenon
  <2> QED
    BY <2>1, Zenon
<1> DEFINE S == {time} \cup sigs \cup extra
<1>2. IsFiniteSet(S)
  <2> DEFINE f == [k \in keys |-> sig(k)]
  <2>1. f \in Surjection(keys, sigs)
    BY DEF Surjection
  <2>2. IsFiniteSet(sigs)
    BY <2>1, FS_Surjection
  <2>3. IsFiniteSet(others)
    BY PairIsFinite, Zenon
  <2>4. IsFiniteSet(extra)
    BY <2>3, FS_Subset
  <2>5. IsFiniteSet({time})
    BY FS_Singleton
  <2> HIDE DEF time, sigs
  <2>6. IsFiniteSet({time} \cup sigs)
    BY <2>2, <2>5, FS_Union
  <2> QED
    BY <2>4, <2>6, FS_Union
<1>3. /\ DOMAIN items \subseteq Nat
      /\ \A n \in DOMAIN items : items[n] \in S
      /\ \A x \in S : \E n \in DOMAIN items : items[n] = x
      /\ \A m, n \in DOMAIN items : items[m] = items[n] => m = n
  BY <1>1, <1>2, Orders
<1>4. \A x \in S : /\ x.name = "t" /\ x.text = "number" => x = time
                   /\ x.name = "v1" => \E k \in keys : x = sig(k)
  <2>1. time.name # "v1"
    BY DEF Item
  <2>2. \A k \in keys : sig(k).name # "t"
    BY DEF Item
  <2>3. \A x \in others : x.name # "v1" /\ (x.name = "t" => x.text # "number")
    <3>1. /\ Item("t", "junk", NoKey, 0, NoText).name = "t"
          /\ Item("t", "junk", NoKey, 0, NoText).text = "junk"
          /\ Item("v0", "lower", NoKey, 0, message).name = "v0"
      BY DEF Item
    <3>2. "t" # "v1" /\ "junk" # "number" /\ "v0" # "t" /\ "v0" # "v1"
      OBVIOUS
    <3> QED
      BY <3>1, <3>2, Zenon
  <2> HIDE DEF time, sig, others
  <2> QED
    BY <2>1, <2>2, <2>3
<1>5. /\ time.name = "t" /\ time.text = "number" /\ time.at = ts
      /\ \A k \in keys : IsMac(sig(k), "stripe", secret, << ts, body.text >>) <=>
                           k = secret /\ body.text = signed.text
      /\ \A k \in keys : sig(k).name = "v1"
  BY DEF Item, IsMac, Readable
<1>6. time \in S /\ \A k \in keys : sig(k) \in S
  OBVIOUS
<1> HIDE DEF time, sig, sigs, S
<1>7. PICK n \in DOMAIN items : items[n] = time
  BY <1>3, <1>6
<1>8. \A m : StampAt(items, m) <=> m = n
  <2>1. Times(items) = {n}
    BY <1>3, <1>4, <1>5, <1>7 DEF Times
  <2>2. n \in Nat
    BY <1>3, <1>7
  <2>3. n <= n
    BY <2>2, NatReflexive
  <2> QED
    BY <2>1, <2>2, <2>3 DEF StampAt
<1>9. \A x : x \in Named(items, "v1") <=> \E k \in keys : x = sig(k)
  <2>1. ASSUME NEW x \in Named(items, "v1")
        PROVE  \E k \in keys : x = sig(k)
    <3>1. PICK m \in DOMAIN items : items[m].name = "v1" /\ x = items[m]
      BY DEF Named
    <3> QED
      BY <1>3, <1>4, <3>1
  <2>2. ASSUME NEW k \in keys
        PROVE  sig(k) \in Named(items, "v1")
    <3>1. PICK m \in DOMAIN items : items[m] = sig(k)
      BY <1>3, <1>6
    <3> QED
      BY <1>5, <3>1 DEF Named
  <2> QED
    BY <2>1, <2>2
<1>10. VerifyStripe(secret, body, items, t) <=>
         /\ InTolerance(ts, t)
         /\ \E x \in Named(items, "v1") : IsMac(x, "stripe", secret, << ts, body.text >>)
  BY <1>5, <1>7, <1>8 DEF VerifyStripe
<1> QED
  BY <1>5, <1>9, <1>10

-----------------------------------------------------------------------------
(* What is on the wire was made for the endpoint, and what was answered is *)
(* what the signature said at that time.                                   *)

IsRequest(m) ==
  m = [items |-> m.items, body |-> m.body, keys |-> m.keys, ts |-> m.ts, signed |-> m.signed]

ClockTimes == 0..(MaxTime + MaxSkew)

(* As it was sent, but for discord's timestamp.                            *)
Carries(p, m) ==
  IF p = "discord"
  THEN \E k \in Secrets, u \in ClockTimes :
         m.keys = {k} /\ m.items = << Sealed(k, m.ts, m.signed), Stamp(u) >>
  ELSE m.items \in Sends(p, m.keys, m.ts, m.signed)

MadeFor(row, m) ==
  /\ IsRequest(m)
  /\ m.keys \subseteq Secrets
  /\ m.ts \in ClockTimes
  /\ m.signed \in Bodies
  /\ m.body \in Bodies
  /\ \E p \in ProviderOf(row.provider) :
       /\ p # "stripe" => \E k \in Secrets : m.keys = {k}
       /\ Carries(p, m)

VerifiesFor(row, m, t) ==
  \E p \in ProviderOf(row.provider) : VerifySignature(p, row.secret, m.body, m.items, t)

WireInv ==
  /\ wire # {} \/ verdict # {} => registered # NoEndpoint
  /\ registered # NoEndpoint => registration # 0
  /\ registered.secret \in Text
  /\ \A m \in wire : MadeFor(registered, m)
  /\ \A v \in verdict :
       MadeFor(registered, v.request) /\ (v.ok <=> VerifiesFor(registered, v.request, v.at))

LEMMA ProviderIsUnique ==
  ASSUME NEW text, NEW p \in ProviderOf(text)
  PROVE  ProviderOf(text) = {p} /\ p \in {"github", "stripe", "midtrans", "discord", "generic"}
<1>1. Providers = {"github", "stripe", "midtrans", "discord", "generic"}
  BY DEF Providers, Spellings
<1>2. /\ Spellings["github"] = {"github", "GitHub"} /\ Spellings["stripe"] = {"stripe", "Stripe"}
      /\ Spellings["midtrans"] = {"midtrans"} /\ Spellings["discord"] = {"discord", "DISCORD"}
      /\ Spellings["generic"] = {"generic"}
  BY DEF Spellings
<1>3. ASSUME NEW q \in Providers, NEW r \in Providers,
             text \in Spellings[q], text \in Spellings[r]
      PROVE  q = r
  BY <1>1, <1>2, <1>3
<1> QED
  BY <1>1, <1>3 DEF ProviderOf

(* The five providers together.                                            *)
LEMMA VerdictIsExact ==
  ASSUME NEW m, MadeFor(registered, m), NEW t
  PROVE  VerifiesFor(registered, m, t) <=>
           /\ SignedAsSent(m)
           /\ IsStripe => InTolerance(m.ts, t)
           /\ IsDiscord => registered.secret \in PublicKeys
<1>1. PICK p \in ProviderOf(registered.provider) :
        /\ p # "stripe" => \E k \in Secrets : m.keys = {k}
        /\ Carries(p, m)
  BY DEF MadeFor
<1>2. ProviderOf(registered.provider) = {p} /\ p \in {"github", "stripe", "midtrans", "discord", "generic"}
  BY ProviderIsUnique
<1>3. VerifiesFor(registered, m, t) <=> VerifySignature(p, registered.secret, m.body, m.items, t)
  BY <1>2 DEF VerifiesFor
<1>a. /\ IsStripe <=> p = "stripe"
      /\ IsMidtrans <=> p = "midtrans"
      /\ IsDiscord <=> p = "discord"
  BY <1>2 DEF IsStripe, IsMidtrans, IsDiscord
<1>b. p # "discord" => m.items \in Sends(p, m.keys, m.ts, m.signed)
  BY <1>1 DEF Carries
<1>4. CASE p = "github"
  <2>1. IsSingle(m.keys)
    BY <1>1, <1>4 DEF IsSingle
  <2>2. VerifyGithub(registered.secret, m.body, m.items) <=>
          registered.secret \in m.keys /\ m.body.text = m.signed.text
    BY <1>b, <1>4, <2>1, GithubIsExact
  <2>3. SignedAsSent(m) <=> registered.secret \in m.keys /\ m.body.text = m.signed.text
    BY <1>a, <1>4 DEF SignedAsSent
  <2> QED
    BY <1>a, <1>3, <1>4, <2>2, <2>3 DEF VerifySignature
<1>5. CASE p = "generic"
  <2>1. IsSingle(m.keys)
    BY <1>1, <1>5 DEF IsSingle
  <2>2. VerifyGeneric(registered.secret, m.body, m.items) <=>
          registered.secret \in m.keys /\ m.body.text = m.signed.text
    BY <1>b, <1>5, <2>1, GenericIsExact
  <2>3. SignedAsSent(m) <=> registered.secret \in m.keys /\ m.body.text = m.signed.text
    BY <1>a, <1>5 DEF SignedAsSent
  <2> QED
    BY <1>a, <1>3, <1>5, <2>2, <2>3 DEF VerifySignature
<1>6. CASE p = "midtrans"
  <2>1. IsSingle(m.keys)
    BY <1>1, <1>6 DEF IsSingle
  <2>2. VerifyMidtrans(registered.secret, m.body, m.items) <=>
          FieldsAsSent(registered.secret, m.keys, m.body, m.signed)
    <3>1. m.signed \in Bodies /\ m.items \in Sends("midtrans", m.keys, m.ts, m.signed)
      BY <1>b, <1>6 DEF MadeFor
    <3> QED
      BY <2>1, <3>1, MidtransIsExact
  <2>3. SignedAsSent(m) <=> FieldsAsSent(registered.secret, m.keys, m.body, m.signed)
    BY <1>a, <1>6 DEF SignedAsSent, FieldsAsSent
  <2> QED
    BY <1>a, <1>3, <1>6, <2>2, <2>3 DEF VerifySignature
<1>7. CASE p = "discord"
  <2>1. PICK k \in Secrets, u \in ClockTimes :
          m.keys = {k} /\ m.items = << Sealed(k, m.ts, m.signed), Stamp(u) >>
    BY <1>1, <1>7 DEF Carries
  <2>2. VerifyDiscord(registered.secret, m.body, m.items) <=>
          /\ registered.secret \in PublicKeys /\ registered.secret = k
          /\ StampAsSent(u, m.body, m.ts, m.signed)
    BY <2>1, DiscordIsExact
  <2>3. Stamps(m) = {Stamp(u)} /\ Stamp(u).over = StampText[u]
    <3>1. Stamp(u).over = StampText[u]
      BY DEF Stamp, Item
    <3> QED
      BY <2>1, <3>1, StampedHeaders DEF Stamps
  <2>4. SignedAsSent(m) <=>
          registered.secret = k /\ StampAsSent(u, m.body, m.ts, m.signed)
    BY <1>a, <1>7, <2>1, <2>3 DEF SignedAsSent, StampAsSent
  <2> QED
    BY <1>a, <1>3, <1>7, <2>2, <2>4 DEF VerifySignature
<1>8. CASE p = "stripe"
  <2>1. IsFiniteSet(m.keys)
    BY VerificationAssumption, FS_Subset DEF MadeFor
  <2>2. VerifyStripe(registered.secret, m.body, m.items, t) <=>
          registered.secret \in m.keys /\ m.body.text = m.signed.text /\ InTolerance(m.ts, t)
    BY <1>b, <1>8, <2>1, StripeIsExact
  <2>3. SignedAsSent(m) <=> registered.secret \in m.keys /\ m.body.text = m.signed.text
    BY <1>a, <1>8 DEF SignedAsSent
  <2> QED
    BY <1>a, <1>3, <1>8, <2>2, <2>3 DEF VerifySignature
<1> QED
  BY <1>2, <1>4, <1>5, <1>6, <1>7, <1>8

LEMMA Restamps ==
  ASSUME NEW k, NEW ts, NEW signed, NEW u, NEW v
  PROVE  LET items == << Sealed(k, ts, signed), Stamp(u) >>
         IN  [n \in DOMAIN items |-> Restamped(items[n], v)] = << Sealed(k, ts, signed), Stamp(v) >>
<1> DEFINE sig   == Sealed(k, ts, signed)
           items == << sig, Stamp(u) >>
<1>1. Restamped(sig, v) = sig /\ Restamped(Stamp(u), v) = Stamp(v)
  BY DEF Restamped, Sealed, Stamp, Item
<1> HIDE DEF sig
<1>2. DOMAIN items = 1..2 /\ items[1] = sig /\ items[2] = Stamp(u)
  OBVIOUS
<1> HIDE DEF items
<1>3. [n \in DOMAIN items |-> Restamped(items[n], v)] =
        [n \in 1..2 |-> IF n = 1 THEN sig ELSE Stamp(v)]
  BY <1>1, <1>2
<1>4. [n \in 1..2 |-> IF n = 1 THEN sig ELSE Stamp(v)] = << sig, Stamp(v) >>
  OBVIOUS
<1> QED
  BY <1>3, <1>4 DEF sig, items

LEMMA WireStep == WireInv /\ [VerificationNext]_verificationVars => WireInv'
<1> SUFFICES ASSUME WireInv, [VerificationNext]_verificationVars
             PROVE  WireInv'
  OBVIOUS
<1>1. CASE Register /\ UNCHANGED << now, wire, verdict >>
  <2>1. registered = NoEndpoint /\ wire = {} /\ verdict = {}
    BY <1>1 DEF Register, WireInv
  <2>2. registered' # NoEndpoint => registration' # 0
    BY <1>1, <2>1 DEF Register
  <2>3. registered'.secret \in Text
    <3>1. << >> \in Text
      BY DEF Text
    <3>2. ASSUME NEW req \in NewEndpoint
          PROVE  [provider |-> req.provider, secret |-> req.secret].secret \in Text
      BY <3>1, VerificationAssumption DEF NewEndpoint
    <3>3. registered' = registered \/
            \E req \in NewEndpoint : registered' = [provider |-> req.provider, secret |-> req.secret]
      BY <1>1 DEF Register
    <3> QED
      BY <3>2, <3>3 DEF WireInv
  <2> QED
    BY <1>1, <2>1, <2>2, <2>3 DEF WireInv
<1>2. ASSUME NEW p \in Providers, NEW keys \in (SUBSET Secrets) \ {{}},
             NEW ts \in ClockTimes, NEW body \in Bodies, Send(p, keys, ts, body)
      PROVE  WireInv'
  <2>1. PICK items \in Sends(p, keys, ts, body) :
          wire' = {[items |-> items, body |-> body, keys |-> keys, ts |-> ts, signed |-> body]}
    BY <1>2 DEF Send
  <2> DEFINE m == [items |-> items, body |-> body, keys |-> keys, ts |-> ts, signed |-> body]
  <2>2. /\ m.items = items /\ m.body = body /\ m.keys = keys /\ m.ts = ts /\ m.signed = body
        /\ IsRequest(m)
    BY DEF IsRequest
  <2>3. /\ p \in ProviderOf(registered.provider)
        /\ p # "stripe" => \E k \in Secrets : keys = {k}
    BY <1>2 DEF Send
  <2>4. MadeFor(registered, m)
    <3> HIDE DEF m
    <3>1. p = "discord" => \E k \in Secrets :
            keys = {k} /\ items = << Sealed(k, ts, body), Stamp(ts) >>
      BY <2>1, <2>3, SendsDiscord
    <3>2. Carries(p, m)
      BY <2>1, <2>2, <3>1 DEF Carries
    <3> QED
      BY <2>2, <2>3, <3>2 DEF MadeFor
  <2>5. /\ registered # NoEndpoint /\ verdict' = {}
        /\ registered' = registered /\ registration' = registration
    BY <1>2 DEF Send
  <2>6. wire' = {m}
    BY <2>1
  <2> HIDE DEF m
  <2> QED
    BY <2>4, <2>5, <2>6 DEF WireInv
<1>3. ASSUME NEW body \in Bodies, wire # {}, Rewrite(body)
      PROVE  WireInv'
  <2>1. /\ wire' = {[m EXCEPT !.body = body] : m \in wire} /\ verdict' = {}
        /\ registered' = registered /\ registration' = registration
    BY <1>3 DEF Rewrite
  <2>2. ASSUME NEW m \in wire
        PROVE  MadeFor(registered, [m EXCEPT !.body = body])
    <3> DEFINE n == [m EXCEPT !.body = body]
    <3>1. IsRequest(m)
      BY <2>2 DEF WireInv, MadeFor
    <3>2. n = [items |-> m.items, body |-> body, keys |-> m.keys, ts |-> m.ts, signed |-> m.signed]
      BY <3>1 DEF IsRequest
    <3> HIDE DEF n
    <3>3. n.items = m.items /\ n.body = body /\ n.keys = m.keys /\ n.ts = m.ts /\ n.signed = m.signed
      BY <3>2
    <3>4. IsRequest(n)
      BY <3>2, <3>3 DEF IsRequest
    <3>5. MadeFor(registered, n)
      BY <2>2, <3>3, <3>4 DEF WireInv, MadeFor, Carries
    <3> QED
      BY <3>5 DEF n
  <2> QED
    BY <1>3, <2>1, <2>2 DEF WireInv
<1>3a. ASSUME NEW ts \in ClockTimes, wire # {}, Restamp(ts)
       PROVE  WireInv'
  <2> DEFINE Moved(items) == [n \in DOMAIN items |-> Restamped(items[n], ts)]
  <2>1. /\ wire' = {[m EXCEPT !.items = Moved(m.items)] : m \in wire} /\ verdict' = {}
        /\ registered' = registered /\ registration' = registration
        /\ "discord" \in ProviderOf(registered.provider)
    <3>1. \A m \in wire : [m EXCEPT !.items = [n \in DOMAIN @ |-> Restamped(@[n], ts)]] =
                           [m EXCEPT !.items = Moved(m.items)]
      BY DEF WireInv, MadeFor, IsRequest
    <3> QED
      BY <1>3a, <3>1 DEF Restamp
  <2> HIDE DEF Moved
  <2>2. ASSUME NEW m \in wire
        PROVE  MadeFor(registered, [m EXCEPT !.items = Moved(m.items)])
    <3> DEFINE n == [m EXCEPT !.items = Moved(m.items)]
    <3>1. MadeFor(registered, m) /\ IsRequest(m)
      BY <2>2 DEF WireInv, MadeFor
    <3>2. n = [items |-> Moved(m.items), body |-> m.body, keys |-> m.keys, ts |-> m.ts,
               signed |-> m.signed]
      BY <3>1 DEF IsRequest
    <3> HIDE DEF n
    <3>3. /\ n.items = Moved(m.items) /\ n.body = m.body /\ n.keys = m.keys
          /\ n.ts = m.ts /\ n.signed = m.signed
      BY <3>2
    <3>4. IsRequest(n)
      BY <3>2, <3>3 DEF IsRequest
    <3>5. Carries("discord", m)
      BY <2>1, <3>1, ProviderIsUnique DEF MadeFor
    <3>6. PICK k \in Secrets, u \in ClockTimes :
            m.keys = {k} /\ m.items = << Sealed(k, m.ts, m.signed), Stamp(u) >>
      BY <3>5 DEF Carries
    <3>7. Moved(m.items) = << Sealed(k, m.ts, m.signed), Stamp(ts) >>
      BY <3>6, Restamps DEF Moved
    <3>8. Carries("discord", n)
      BY <3>3, <3>6, <3>7 DEF Carries
    <3>9. MadeFor(registered, n)
      BY <2>1, <3>1, <3>3, <3>4, <3>6, <3>8 DEF MadeFor
    <3> QED
      BY <3>9 DEF n
  <2> QED
    BY <1>3a, <2>1, <2>2 DEF WireInv
<1>4. CASE Tick
  BY <1>4 DEF Tick, WireInv
<1>5. CASE Arrive
  <2>1. PICK m \in wire : verdict' = {[request |-> m, at |-> now, ok |-> Accepts(m)]}
    BY <1>5 DEF Arrive
  <2>2. UNCHANGED << registered, registration, now, wire >>
    BY <1>5 DEF Arrive
  <2>3. ASSUME NEW v \in verdict'
        PROVE  v.request = m /\ v.at = now /\ v.ok = Accepts(m)
    BY <2>1
  <2>4. Accepts(m) = VerifiesFor(registered, m, now)
    BY DEF Accepts, VerifiesFor
  <2> QED
    BY <2>2, <2>3, <2>4 DEF WireInv
<1>6. CASE UNCHANGED verificationVars
  BY <1>6 DEF verificationVars, WireInv
<1> QED
  BY <1>1, <1>2, <1>3, <1>3a, <1>4, <1>5, <1>6 DEF VerificationNext, ClockTimes

LEMMA WireInvariance == VerificationSpec => []WireInv
<1>1. VerificationInit => WireInv
  <2>1. << >> \in Text
    BY DEF Text
  <2>2. NoEndpoint.secret \in Text
    BY <2>1 DEF NoEndpoint
  <2> QED
    BY <2>2 DEF VerificationInit, RegistrationInit, WireInv
<1> QED
  BY <1>1, WireStep, PTL DEF VerificationSpec

(* verify_signature lets nothing pass that the provider did not make with  *)
(* the endpoint's secret over the very text that it signs, and stripe's    *)
(* only in time: for every body, secret, clock, skew and tolerance.        *)
THEOREM OnlyGenuineAccepted == VerificationSpec => []AcceptedIsGenuine
<1>1. WireInv => AcceptedIsGenuine
  <2> SUFFICES ASSUME WireInv, NEW v \in verdict, v.ok
               PROVE  Genuine(v)
    BY DEF AcceptedIsGenuine
  <2>1. MadeFor(registered, v.request) /\ VerifiesFor(registered, v.request, v.at)
    BY DEF WireInv
  <2> QED
    BY <2>1, VerdictIsExact DEF Genuine, InTolerance
<1> QED
  BY <1>1, WireInvariance, PTL

(* And it turns away nothing the provider did make: stripe's elements may  *)
(* come in any order, with any number of signatures and unknown schemes,   *)
(* and a body that midtrans' fields survive may be written anew.           *)
THEOREM AllGenuineAccepted == VerificationSpec => []GenuineIsAccepted
<1>1. WireInv => GenuineIsAccepted
  <2> SUFFICES ASSUME WireInv, NEW v \in verdict, Genuine(v),
                      IsDiscord => registered.secret \in PublicKeys
               PROVE  v.ok
    BY DEF GenuineIsAccepted, IsDiscord
  <2>1. MadeFor(registered, v.request) /\ (v.ok <=> VerifiesFor(registered, v.request, v.at))
    BY DEF WireInv
  <2>2. VerifiesFor(registered, v.request, v.at)
    BY <2>1, VerdictIsExact DEF Genuine, InTolerance
  <2> QED
    BY <2>1, <2>2
<1> QED
  BY <1>1, WireInvariance, PTL

-----------------------------------------------------------------------------
(* What is fixed by a text that was joined without separators.             *)

(* A name for \o that the lemmas below can be instantiated with.           *)
EndToEnd(a, b) == a \o b

LEMMA Joins ==
  \A a, b \in Text :
    /\ EndToEnd(a, b) \in Text
    /\ Len(a) \in Nat /\ Len(b) \in Nat /\ Len(EndToEnd(a, b)) = Len(a) + Len(b)
    /\ \A n \in 1..(Len(a) + Len(b)) :
         EndToEnd(a, b)[n] = IF n <= Len(a) THEN a[n] ELSE b[n - Len(a)]
  BY ConcatProperties, LenProperties DEF Text, EndToEnd

LEMMA JoinsAlike ==
  \A a, b, c, d \in Text :
    Len(a) = Len(b) /\ Len(c) = Len(d) =>
      /\ EndToEnd(a, c) \in Text /\ EndToEnd(b, d) \in Text
      /\ Len(EndToEnd(a, c)) = Len(EndToEnd(b, d))
<1> SUFFICES ASSUME NEW a \in Text, NEW b \in Text, NEW c \in Text, NEW d \in Text,
                    Len(a) = Len(b), Len(c) = Len(d)
             PROVE  /\ EndToEnd(a, c) \in Text /\ EndToEnd(b, d) \in Text
                    /\ Len(EndToEnd(a, c)) = Len(EndToEnd(b, d))
  OBVIOUS
<1>1. /\ EndToEnd(a, c) \in Text /\ EndToEnd(b, d) \in Text
      /\ Len(EndToEnd(a, c)) = Len(a) + Len(c) /\ Len(EndToEnd(b, d)) = Len(b) + Len(d)
  BY Joins
<1> QED
  BY <1>1

(* Equal texts, cut after equally many characters, have equal parts.       *)
LEMMA SplitsAlike ==
  \A a, b, c, d \in Text :
    Len(a) = Len(b) /\ EndToEnd(a, c) = EndToEnd(b, d) => a = b /\ c = d
<1> SUFFICES ASSUME NEW a \in Text, NEW b \in Text, NEW c \in Text, NEW d \in Text,
                    Len(a) = Len(b), EndToEnd(a, c) = EndToEnd(b, d)
             PROVE  a = b /\ c = d
  OBVIOUS
<1>1. /\ Len(a) \in Nat /\ Len(b) \in Nat /\ Len(c) \in Nat /\ Len(d) \in Nat
      /\ Len(c) = Len(d)
  <2>1. /\ Len(a) \in Nat /\ Len(c) \in Nat /\ Len(EndToEnd(a, c)) = Len(a) + Len(c)
        /\ Len(b) \in Nat /\ Len(d) \in Nat /\ Len(EndToEnd(b, d)) = Len(b) + Len(d)
    BY Joins
  <2>2. Len(a) + Len(c) = Len(a) + Len(d)
    BY <2>1
  <2> QED
    BY <2>1, <2>2
<1>2. /\ \A n \in 1..(Len(a) + Len(c)) :
           EndToEnd(a, c)[n] = IF n <= Len(a) THEN a[n] ELSE c[n - Len(a)]
      /\ \A n \in 1..(Len(b) + Len(d)) :
           EndToEnd(b, d)[n] = IF n <= Len(b) THEN b[n] ELSE d[n - Len(b)]
  BY Joins
<1>3. ASSUME NEW n \in 1..Len(a)
      PROVE  a[n] = b[n]
  <2>1. n \in 1..(Len(a) + Len(c)) /\ n \in 1..(Len(b) + Len(d)) /\ n <= Len(a) /\ n <= Len(b)
    BY <1>1
  <2> QED
    BY <1>2, <2>1
<1>4. ASSUME NEW n \in 1..Len(c)
      PROVE  c[n] = d[n]
  <2> DEFINE p == Len(a) + n
  <2>1. /\ p \in 1..(Len(a) + Len(c)) /\ p \in 1..(Len(b) + Len(d))
        /\ ~(p <= Len(a)) /\ ~(p <= Len(b)) /\ p - Len(a) = n /\ p - Len(b) = n
    BY <1>1
  <2> HIDE DEF p
  <2> QED
    BY <1>2, <2>1
<1> QED
  BY <1>1, <1>3, <1>4, SeqEqual DEF Text

(* The same for midtrans' four parts: three cuts.                          *)
LEMMA FieldsSplitAlike ==
  ASSUME NEW f \in SignedFields, NEW g \in SignedFields, SameLengths(f, g),
         NEW j \in Text, NEW k \in Text, EndToEnd(Joined(f), j) = EndToEnd(Joined(g), k)
  PROVE  f = g /\ j = k
<1>1. /\ f.order_id \in Text /\ f.status_code \in Text /\ f.gross_amount \in Text
      /\ g.order_id \in Text /\ g.status_code \in Text /\ g.gross_amount \in Text
  BY DEF SignedFields
<1>2. /\ Len(f.order_id) = Len(g.order_id) /\ Len(f.status_code) = Len(g.status_code)
      /\ Len(f.gross_amount) = Len(g.gross_amount)
  BY DEF SameLengths
<1> DEFINE fs == EndToEnd(f.order_id, f.status_code)
           gs == EndToEnd(g.order_id, g.status_code)
           fj == EndToEnd(fs, f.gross_amount)
           gj == EndToEnd(gs, g.gross_amount)
<1>3. EndToEnd(fj, j) = EndToEnd(gj, k)
  BY DEF Joined, EndToEnd
<1>4. fs \in Text /\ gs \in Text /\ Len(fs) = Len(gs)
  BY <1>1, <1>2, JoinsAlike, SMTT(20)
<1>5. fj \in Text /\ gj \in Text /\ Len(fj) = Len(gj)
  <2> HIDE DEF fs, gs
  <2> QED
    BY <1>1, <1>2, <1>4, JoinsAlike
<1>6. fj = gj /\ j = k
  <2> HIDE DEF fj, gj
  <2> QED
    BY <1>3, <1>5, SplitsAlike
<1>7. fs = gs /\ f.gross_amount = g.gross_amount
  <2> HIDE DEF fs, gs
  <2> QED
    BY <1>1, <1>4, <1>6, SplitsAlike
<1>8. f.order_id = g.order_id /\ f.status_code = g.status_code
  BY <1>1, <1>2, <1>7, SplitsAlike
<1> QED
  BY <1>6, <1>7, <1>8 DEF SignedFields

(* Where the parts of a signed text end is all that its signature leaves   *)
(* open (midtrans.rs:22, discord.rs:24): for all fields, bodies, secrets   *)
(* and timestamps.                                                         *)
THEOREM PartsKept == VerificationSpec => []PartsAreKept
<1>1. WireInv => PartsAreKept
  <2> SUFFICES ASSUME WireInv, NEW v \in verdict, v.ok
               PROVE  LET m == v.request
                      IN  /\ IsMidtrans =>
                               \A f \in m.body.fields, g \in m.signed.fields :
                                 SameLengths(f, g) => f = g /\ registered.secret \in m.keys
                          /\ IsDiscord =>
                               \A t \in Stamps(m) :
                                 Len(t.over) = Len(StampText[m.ts]) =>
                                   t.over = StampText[m.ts] /\ m.body.text = m.signed.text
    BY DEF PartsAreKept
  <2> DEFINE m == v.request
  <2>1. MadeFor(registered, m) /\ VerifiesFor(registered, m, v.at)
    BY DEF WireInv
  <2>2. SignedAsSent(m) /\ registered.secret \in Text
    BY <2>1, VerdictIsExact, VerificationAssumption DEF WireInv
  <2> HIDE DEF m
  <2>3. ASSUME IsMidtrans, NEW f \in m.body.fields, NEW g \in m.signed.fields, SameLengths(f, g)
        PROVE  f = g /\ registered.secret \in m.keys
    <3>1. PICK f1 \in m.body.fields, g1 \in m.signed.fields, k \in m.keys :
            Joined(f1) \o registered.secret = Joined(g1) \o k
      BY <2>2, <2>3 DEF SignedAsSent
    <3>2. f1 = f /\ g1 = g /\ f \in SignedFields /\ g \in SignedFields /\ k \in Text
      BY <2>1, <3>1, VerificationAssumption DEF MadeFor
    <3>3. EndToEnd(Joined(f), registered.secret) = EndToEnd(Joined(g), k)
      BY <3>1, <3>2 DEF EndToEnd
    <3>4. f = g /\ registered.secret = k
      BY <2>2, <2>3, <3>2, <3>3, FieldsSplitAlike
    <3> QED
      BY <3>4
  <2>4. ASSUME IsDiscord, NEW t \in Stamps(m), Len(t.over) = Len(StampText[m.ts])
        PROVE  t.over = StampText[m.ts] /\ m.body.text = m.signed.text
    <3>1. Carries("discord", m)
      BY <2>1, <2>4, ProviderIsUnique DEF MadeFor, IsDiscord
    <3>2. PICK k \in Secrets, u \in ClockTimes :
            m.items = << Sealed(k, m.ts, m.signed), Stamp(u) >>
      BY <3>1 DEF Carries
    <3>3. Stamps(m) = {Stamp(u)} /\ Stamp(u).over = StampText[u]
      <4>1. Stamp(u).over = StampText[u]
        BY DEF Stamp, Item
      <4> QED
        BY <3>2, <4>1, StampedHeaders DEF Stamps
    <3>4. EndToEnd(t.over, m.body.text) = EndToEnd(StampText[m.ts], m.signed.text)
      BY <2>2, <2>4, <3>3 DEF SignedAsSent, EndToEnd
    <3>5. /\ t.over \in Text /\ StampText[m.ts] \in Text
          /\ m.body.text \in Text /\ m.signed.text \in Text
      BY <2>1, <2>4, <3>3, VerificationAssumption DEF MadeFor, ClockTimes
    <3> QED
      BY <2>4, <3>4, <3>5, SplitsAlike
  <2> QED
    BY <2>3, <2>4 DEF m
<1> QED
  BY <1>1, WireInvariance, PTL
=============================================================================
