---------------------------- MODULE Registration ----------------------------
(***************************************************************************)
(* validate_new_endpoint of src/api/endpoints.rs: what a new endpoint has  *)
(* to look like. A name or a secret is empty or not, a provider is a text  *)
(* of the request, and a target is a URL that was parsed (or not) into a   *)
(* scheme and a host.                                                      *)
(***************************************************************************)
EXTENDS Signatures

CONSTANTS
  ProviderTexts,    (* what requests give as provider                      *)
  Secrets,          (* the secrets that are not empty                      *)
  Targets,          (* what requests give as target_url                    *)
  Hosts             (* the hosts that IsBlockedHost is compared over       *)

-----------------------------------------------------------------------------
(* Addresses: four octets, or eight segments.                              *)

(* Mutant of IsSharedV4: 100.64.0.0/10 ends one block early.               *)
IsSharedV4Short(a) == a[1] = 100 /\ a[2] \in 64..126

(* 100.64.0.0/10, by its octets.                                           *)
IsSharedV4(a) == a[1] = 100 /\ a[2] \in 64..127

IsBlockedV4(a) ==
  \/ a[1] = 127
  \/ a[1] = 10 \/ (a[1] = 172 /\ a[2] \in 16..31) \/ (a[1] = 192 /\ a[2] = 168)
  \/ a[1] = 169 /\ a[2] = 254
  \/ a \in {<< 255, 255, 255, 255 >>, << 0, 0, 0, 0 >>}
  \/ << a[1], a[2], a[3] >> \in {<< 192, 0, 2 >>, << 198, 51, 100 >>, << 203, 0, 113 >>}
  \/ IsSharedV4(a)

(* segment & mask, for a mask of the highest bits.                         *)
Masked(segment, mask) == segment - (segment % (65536 - mask))

IsMapped(s) == s[6] = 65535 /\ \A n \in 1..5 : s[n] = 0

Mapped(s) == << s[7] \div 256, s[7] % 256, s[8] \div 256, s[8] % 256 >>

IsBlockedV6(s) ==
  \/ (\A n \in 1..7 : s[n] = 0) /\ s[8] \in {0, 1}
  \/ Masked(s[1], 65024) = 64512                                (* fc00::/7 *)
  \/ Masked(s[1], 65472) = 65152                               (* fe80::/10 *)
  \/ IsMapped(s) /\ IsBlockedV4(Mapped(s))

IsBlockedHost(h) ==
  \/ h.kind = "localhost"
  \/ h.kind = "v4" /\ IsBlockedV4(h.address)
  \/ h.kind = "v6" /\ IsBlockedV6(h.address)

IsGoodTarget(t) ==
  t.scheme \in {"http", "https"} /\ ~IsBlockedHost(t.host)

-----------------------------------------------------------------------------

VARIABLES
  registered,       (* the endpoint row, or the one of no endpoint         *)
  registration      (* the answer, 0 while there is none                   *)

NoEndpoint == [provider |-> "", secret |-> << >>]

NewEndpoint ==
  [named : BOOLEAN, provider : ProviderTexts, secret : Secrets \cup {<< >>}, target : Targets]

RegistrationInit ==
  /\ registered = NoEndpoint
  /\ registration = 0

IsValid(req) ==
  /\ req.named
  /\ ProviderOf(req.provider) # {}
  /\ req.secret # << >>
  /\ IsGoodTarget(req.target)

(* create_endpoint, once: the row keeps the provider as it was spelled; a  *)
(* refusal is a 400, which leaves nothing for a second request to find.    *)
Register ==
  /\ registration = 0
  /\ \E req \in NewEndpoint :
       IF IsValid(req)
       THEN /\ registered'   = [provider |-> req.provider, secret |-> req.secret]
            /\ registration' = 201
       ELSE /\ registration' = 400
            /\ UNCHANGED registered

-----------------------------------------------------------------------------
(* The ranges that are "not routable from the relay" (endpoints.rs:75), as *)
(* intervals of the address's 16-bit halves and segments.                  *)

ReservedPair(hi, lo) ==
  \/ hi \in 32512..32767                                     (* 127.0.0.0/8 *)
  \/ hi \in 2560..2815                                        (* 10.0.0.0/8 *)
  \/ hi \in 44048..44063                                   (* 172.16.0.0/12 *)
  \/ hi = 49320                                           (* 192.168.0.0/16 *)
  \/ hi = 43518                                           (* 169.254.0.0/16 *)
  \/ hi \in 25664..25727                                   (* 100.64.0.0/10 *)
  \/ hi = 49152 /\ lo \in 512..767                          (* 192.0.2.0/24 *)
  \/ hi = 50739 /\ lo \in 25600..25855                   (* 198.51.100.0/24 *)
  \/ hi = 51968 /\ lo \in 28928..29183                    (* 203.0.113.0/24 *)
  \/ hi = 0 /\ lo = 0
  \/ hi = 65535 /\ lo = 65535

ReservedHost(h) ==
  \/ h.kind = "localhost"
  \/ /\ h.kind = "v4"
     /\ ReservedPair(256 * h.address[1] + h.address[2], 256 * h.address[3] + h.address[4])
  \/ /\ h.kind = "v6"
     /\ \/ h.address[1] \in 64512..65023 \cup 65152..65215
        \/ /\ \A n \in 1..5 : h.address[n] = 0
           /\ \/ h.address[6] = 65535 /\ ReservedPair(h.address[7], h.address[8])
              \/ h.address[6] = 0 /\ h.address[7] = 0 /\ h.address[8] \in {0, 1}

(* A host is refused exactly if it is in one of the ranges: no address at  *)
(* the edge of a range falls on the wrong side of a mask or a comparison,  *)
(* in whichever of its notations. (Compared once: for the request to come.)*)
RangesAreExact ==
  registration = 0 => \A h \in Hosts : IsBlockedHost(h) <=> ReservedHost(h)
=============================================================================
