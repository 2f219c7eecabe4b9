---------------------------- MODULE Verification ----------------------------
(***************************************************************************)
(* One endpoint is registered, a provider signs requests for it the way    *)
(* its documentation has it, and ingest (src/api/ingest.rs) verifies them  *)
(* when they arrive: later, by another clock, with what was signed changed *)
(* on the way or not, and signed with the endpoint's secret, an older one, *)
(* or both.                                                                *)
(***************************************************************************)
EXTENDS Registration, SequencesExt

CONSTANTS
  Bodies,           (* what a provider has to say                          *)
  StampText,        (* the text that discord writes for a time             *)
  MaxTime,          (* bound: the clock of the relay                       *)
  MaxSkew           (* bound: how far a provider's clock is from it        *)

ASSUME VerificationAssumption ==
  /\ IsFiniteSet(Secrets)
  /\ Secrets \subseteq Text
  /\ \A b \in Bodies :
       /\ b.text \in Text
       /\ b.fields \subseteq SignedFields
       /\ \A f, g \in b.fields : f = g
  /\ \A ts \in 0..(MaxTime + MaxSkew) : StampText[ts] \in Text

VARIABLES
  now,              (* the relay's clock                                   *)
  wire,             (* the requests on their way: at most one              *)
  verdict           (* the request that was just answered, when, and how   *)

verificationVars == << registered, registration, now, wire, verdict >>

VerificationInit ==
  /\ RegistrationInit
  /\ now = 0
  /\ wire = {}
  /\ verdict = {}

-----------------------------------------------------------------------------
(* Providers.                                                              *)

Item(name, text, key, at, over) ==
  [name |-> name, text |-> text, key |-> key, at |-> at, over |-> over]

NoText == << >>

(* What midtrans' documentation has it sign, before the key.               *)
Joined(f) == f.order_id \o f.status_code \o f.gross_amount

(* What a provider sends: one item, or for stripe the timestamp, a v1 for  *)
(* each key in use, and elements of other schemes, in any order.           *)
Sends(p, keys, ts, body) ==
  CASE p = "github" ->
         {<< Item("x-hub-signature-256", text, k, 0, body.text) >> :
             text \in {"sha256=lower"}, k \in keys}
    [] p = "stripe" ->
         LET message == << ts, body.text >>
             time    == Item("t", "number", NoKey, ts, NoText)
             others  == {Item("t", "junk", NoKey, 0, NoText), Item("v0", "lower", NoKey, 0, message)}
             sigs    == {Item("v1", "lower", k, 0, message) : k \in keys}
         IN  UNION {SetToSeqs({time} \cup sigs \cup extra) : extra \in SUBSET others}
    [] p = "midtrans" ->
         {<< Item("signature_key", "lower", NoKey, 0, Joined(f) \o k) >> :
             f \in body.fields, k \in keys}
    [] p = "discord" ->
         {<< Item("x-signature-ed25519", "lower", k, 0, StampText[ts] \o body.text),
             Item("x-signature-timestamp", "number", NoKey, 0, StampText[ts]) >> : k \in keys}
    [] p = "generic" ->
         {<< Item(name, text, k, 0, body.text) >> :
             name \in {"x-signature", "signature"}, text \in Readable["generic"], k \in keys}

(* A provider signs body by its own clock.                                 *)
Send(p, keys, ts, body) ==
  /\ registered # NoEndpoint
  /\ p \in ProviderOf(registered.provider)
  /\ p # "stripe" => \E k \in Secrets : keys = {k}
  /\ \E items \in Sends(p, keys, ts, body) :
       wire' = {[items |-> items, body |-> body, keys |-> keys, ts |-> ts, signed |-> body]}
  /\ verdict' = {}
  /\ UNCHANGED << registered, registration, now >>

(* Something on the way writes the body anew.                              *)
Rewrite(body) ==
  /\ wire' = {[m EXCEPT !.body = body] : m \in wire}
  /\ verdict' = {}
  /\ UNCHANGED << registered, registration, now >>

Restamped(item, ts) ==
  IF item.name = "x-signature-timestamp" THEN [item EXCEPT !.over = StampText[ts]] ELSE item

(* Or discord's timestamp, which nobody compares with a clock.             *)
Restamp(ts) ==
  /\ "discord" \in ProviderOf(registered.provider)
  /\ wire' = {[m EXCEPT !.items = [n \in DOMAIN @ |-> Restamped(@[n], ts)]] : m \in wire}
  /\ verdict' = {}
  /\ UNCHANGED << registered, registration, now >>

Tick ==
  /\ now < MaxTime
  /\ now' = now + 1
  /\ verdict' = {}
  /\ UNCHANGED << registered, registration, wire >>

-----------------------------------------------------------------------------

(* The row's provider and secret, as ingest reads them.                    *)
Accepts(m) ==
  \E p \in ProviderOf(registered.provider) :
    VerifySignature(p, registered.secret, m.body, m.items, now)

(* The request stays on the wire: a provider sends it until it is accepted,*)
(* and a copy of it may still arrive after that.                           *)
Arrive ==
  \E m \in wire :
    /\ verdict' = {[request |-> m, at |-> now, ok |-> Accepts(m)]}
    /\ UNCHANGED << registered, registration, now, wire >>

VerificationNext ==
  \/ Register /\ UNCHANGED << now, wire, verdict >>
  \/ /\ wire = {}
     /\ \E p \in Providers, keys \in (SUBSET Secrets) \ {{}},
           ts \in 0..(MaxTime + MaxSkew), body \in Bodies :
          Apart(now, ts) <= MaxSkew /\ Send(p, keys, ts, body)
  \/ wire # {} /\ \E body \in Bodies : Rewrite(body)
  \/ wire # {} /\ \E ts \in 0..(MaxTime + MaxSkew) : Restamp(ts)
  \/ Tick
  \/ Arrive

VerificationSpec == VerificationInit /\ [][VerificationNext]_verificationVars

-----------------------------------------------------------------------------

IsStripe == "stripe" \in ProviderOf(registered.provider)

IsMidtrans == "midtrans" \in ProviderOf(registered.provider)

IsDiscord == "discord" \in ProviderOf(registered.provider)

Stamps(m) == Named(m.items, "x-signature-timestamp")

(* What the provider signs is as it was, character by character: the body, *)
(* discord's timestamp and the body, or midtrans' fields and the key.      *)
SignedAsSent(m) ==
  /\ ~IsMidtrans => registered.secret \in m.keys
  /\ ~IsMidtrans /\ ~IsDiscord => m.body.text = m.signed.text
  /\ IsDiscord =>
       \E t \in Stamps(m) : t.over \o m.body.text = StampText[m.ts] \o m.signed.text
  /\ IsMidtrans =>
       \E f \in m.body.fields, g \in m.signed.fields, k \in m.keys :
         Joined(f) \o registered.secret = Joined(g) \o k

(* The request is one the provider made with the endpoint's secret, what   *)
(* the provider signs is as it was, and stripe's is not too old or too new.*)
Genuine(v) ==
  /\ SignedAsSent(v.request)
  /\ IsStripe => Apart(v.at, v.request.ts) <= Tolerance

(* A genuine request is accepted, whatever the order of stripe's elements, *)
(* whichever else is among them, whether the provider signs with an older  *)
(* secret too, and at either edge of the tolerance. The endpoint's secret  *)
(* is one that can verify: RegisteredCanVerify is about the others.        *)
GenuineIsAccepted ==
  \A v \in verdict :
    Genuine(v) /\ ("discord" \in ProviderOf(registered.provider) => registered.secret \in PublicKeys)
      => v.ok

(* A request is accepted only if it is genuine: not under another secret,  *)
(* not after the text that was signed changed, and not one that stripe     *)
(* signed at another time than the one that is compared with the clock.    *)
(* The text is all that a signature fixes: midtrans' fields are joined     *)
(* with the key, and discord's timestamp with the body, without a          *)
(* separator (midtrans.rs:22, discord.rs:24), so a part may end elsewhere. *)
AcceptedIsGenuine == \A v \in verdict : v.ok => Genuine(v)

SameLengths(f, g) ==
  /\ Len(f.order_id) = Len(g.order_id)
  /\ Len(f.status_code) = Len(g.status_code)
  /\ Len(f.gross_amount) = Len(g.gross_amount)

(* Nothing but that is left open: if midtrans' fields are as long as those *)
(* that were signed, or discord's timestamp is, an accepted request has    *)
(* the very fields, the very timestamp and body, and the key that were     *)
(* signed. So a changed character is noticed, wherever it is in them.      *)
PartsAreKept ==
  \A v \in verdict : v.ok =>
    LET m == v.request
    IN  /\ IsMidtrans =>
             \A f \in m.body.fields, g \in m.signed.fields :
               SameLengths(f, g) => f = g /\ registered.secret \in m.keys
        /\ IsDiscord =>
             \A t \in Stamps(m) :
               Len(t.over) = Len(StampText[m.ts]) =>
                 t.over = StampText[m.ts] /\ m.body.text = m.signed.text

(* "so a bad configuration fails loudly on the operator's request instead  *)
(* of silently poisoning every later ingest" (endpoints.rs:31): some       *)
(* request that a provider makes with the endpoint's secret is accepted.   *)
RegisteredCanVerify ==
  registered # NoEndpoint =>
    \E p \in ProviderOf(registered.provider), body \in Bodies :
    \E items \in Sends(p, {registered.secret}, now, body) :
      VerifySignature(p, registered.secret, body, items, now)
=============================================================================
