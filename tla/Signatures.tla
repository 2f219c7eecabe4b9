----------------------------- MODULE Signatures -----------------------------
(***************************************************************************)
(* src/crypto: when a request is taken to be signed with the secret of an  *)
(* endpoint. A text is a sequence of characters, a character a number. A   *)
(* MAC is the key and the message it was made from, so only that key makes *)
(* it; a digest is the message alone. A request carries a sequence of      *)
(* items: its headers, the elements of stripe's one header, or midtrans'   *)
(* signature field. An item is a name, what kind of text it is, and what   *)
(* the text says: a number "at", a text "over", or a MAC made by "key" of  *)
(* the message "over".                                                     *)
(***************************************************************************)
EXTENDS Integers, Sequences

CONSTANTS
  Tolerance,        (* DEFAULT_TOLERANCE_SECS                              *)
  PublicKeys        (* the secrets that are 32 bytes of hex on the curve   *)

(* Provider::from_str ignores the case.                                    *)
Spellings ==
  [github   |-> {"github", "GitHub"},   stripe  |-> {"stripe", "Stripe"},
   midtrans |-> {"midtrans"},           discord |-> {"discord", "DISCORD"},
   generic  |-> {"generic"}]

Providers == DOMAIN Spellings

ProviderOf(text) == {p \in Providers : text \in Spellings[p]}

-----------------------------------------------------------------------------
(* A body is its bytes and what they parse to: the fields that midtrans    *)
(* signs, in a set of one, or in none if one of them is missing or is not  *)
(* a string.                                                               *)

Text == Seq(Nat)

SignedFields == [order_id : Text, status_code : Text, gross_amount : Text]

NoKey == << >>

Apart(m, n) == IF m < n THEN n - m ELSE m - n

Named(items, name) == {items[n] : n \in {m \in DOMAIN items : items[m].name = name}}

(* headers.get(name): the first of that name, if there is one.             *)
Header(items, name) ==
  {items[n] : n \in {m \in DOMAIN items :
      items[m].name = name /\ \A k \in 1..(m - 1) : items[k].name # name}}

(* The texts that decode to the MAC they spell: hex in either case, its    *)
(* surrounding blanks removed or not, and github's behind "sha256=".       *)
Readable ==
  [github   |-> {"sha256=lower", "sha256=upper"},
   stripe   |-> {"lower", "upper", "blanks"},
   midtrans |-> {"lower"},
   discord  |-> {"lower", "upper"},
   generic  |-> {"lower", "upper", "blanks"}]

(* mac.verify_slice, verify_strict, and the comparison of the hex texts    *)
(* for midtrans.                                                           *)
IsMac(item, provider, secret, message) ==
  /\ item.text \in Readable[provider]
  /\ item.key = secret
  /\ item.over = message

VerifyGithub(secret, body, items) ==
  \E sig \in Header(items, "x-hub-signature-256") : IsMac(sig, "github", secret, body.text)

(* The header "signature" is looked at if there is no "x-signature".       *)
VerifyGeneric(secret, body, items) ==
  LET first == Header(items, "x-signature")
  IN  \E sig \in IF first = {} THEN Header(items, "signature") ELSE first :
        IsMac(sig, "generic", secret, body.text)

(* Mutant of Payload: two fields are swapped.                              *)
PayloadSwapped(f, server_key) ==
  f.order_id \o f.gross_amount \o f.status_code \o server_key

(* format!("{}{}{}{}", ...): nothing marks where one part ends.            *)
Payload(f, server_key) ==
  f.order_id \o f.status_code \o f.gross_amount \o server_key

VerifyMidtrans(secret, body, items) ==
  \E f \in body.fields, sig \in Header(items, "signature_key") :
    IsMac(sig, "midtrans", NoKey, Payload(f, secret))

(* The message is the timestamp's text and the body, again end to end.     *)
VerifyDiscord(secret, body, items) ==
  /\ secret \in PublicKeys
  /\ \E sig \in Header(items, "x-signature-ed25519"),
        t \in Header(items, "x-signature-timestamp") :
        IsMac(sig, "discord", secret, t.over \o body.text)

(* The elements "t" that are numbers.                                      *)
Times(items) == {n \in DOMAIN items : items[n].name = "t" /\ items[n].text = "number"}

(* Mutant of StampAt: an unreadable "t" is taken as 0.                     *)
StampAtOrZero(items, n) ==
  /\ items[n].name = "t"
  /\ \A m \in DOMAIN items : items[m].name = "t" => m <= n

(* The last of them is the timestamp.                                      *)
StampAt(items, n) == n \in Times(items) /\ \A m \in Times(items) : m <= n

(* Mutant of InTolerance: saturating_sub for abs_diff.                     *)
InTolerancePast(ts, now) == now - ts <= Tolerance

InTolerance(ts, now) == Apart(now, ts) <= Tolerance

(* Any one of the v1 signatures is enough. The message is "ts.body": as a  *)
(* number has no dot in it, it tells the two apart.                        *)
VerifyStripe(secret, body, items, now) ==
  \E n \in DOMAIN items :
    /\ StampAt(items, n)
    /\ InTolerance(items[n].at, now)
    /\ \E sig \in Named(items, "v1") : IsMac(sig, "stripe", secret, << items[n].at, body.text >>)

(* verify_signature: FALSE is InvalidSignature.                            *)
VerifySignature(provider, secret, body, items, now) ==
  \/ provider = "github"   /\ VerifyGithub(secret, body, items)
  \/ provider = "stripe"   /\ VerifyStripe(secret, body, items, now)
  \/ provider = "midtrans" /\ VerifyMidtrans(secret, body, items)
  \/ provider = "discord"  /\ VerifyDiscord(secret, body, items)
  \/ provider = "generic"  /\ VerifyGeneric(secret, body, items)
=============================================================================
