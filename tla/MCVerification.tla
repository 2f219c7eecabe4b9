--------------------------- MODULE MCVerification ---------------------------
(* Requests and bodies in a few shapes, hosts on both sides of every edge  *)
(* of the ranges; the .cfg files give the other constants.                 *)
EXTENDS Verification

Fields(order, code, amount) ==
  {[order_id |-> order, status_code |-> code, gross_amount |-> amount]}

Body(text, fields) == [text |-> text, fields |-> fields]

(* Digits are numbers below 10. The first two bodies differ in what is not *)
(* signed, the third has other fields that join to the same text, the      *)
(* fourth the same parts swapped, the fifth hands its amount to the key,   *)
(* and the last has no fields; three begin with what may end a timestamp.  *)
MCBodies ==
  {Body(<< 20 >>,    Fields(<< 1, 2 >>, << 0 >>, << 5 >>)),
   Body(<< 21 >>,    Fields(<< 1, 2 >>, << 0 >>, << 5 >>)),
   Body(<< 0, 20 >>, Fields(<< 1 >>, << 2, 0 >>, << 5 >>)),
   Body(<< 1, 20 >>, Fields(<< 1, 2 >>, << 5 >>, << 0 >>)),
   Body(<< 2, 20 >>, Fields(<< 1, 2 >>, << 0 >>, << >>)),
   Body(<< 22 >>,    {})}

(* Of the two secrets one ends with the other.                             *)
MCSecrets == {<< 11 >>, << 5, 11 >>}

MCOneKey == {<< 11 >>}

(* The digits of a clock that counts to the base of 3, so that the times   *)
(* of the instances have one digit or two.                                 *)
MCStampText == [ts \in 0..8 |-> IF ts < 3 THEN << ts >> ELSE << ts \div 3, ts % 3 >>]

NamedHost == [kind |-> "name", address |-> << >>]

MCTargets ==
       {[scheme |-> s, host |-> NamedHost] : s \in {"http", "https", "ftp"}}
  \cup {[scheme |-> "https", host |-> [kind |-> "v4", address |-> << 127, 0, 0, 1 >>]]}

V4Addresses ==
  {<< a, b, c, d >> :
     a \in {0, 9, 10, 11, 100, 126, 127, 128, 169, 172, 192, 198, 203, 255},
     b \in {0, 15, 16, 31, 32, 51, 63, 64, 127, 128, 168, 254, 255},
     c \in {0, 2, 100, 113, 255},
     d \in {0, 1, 255}}

(* Addresses by their prefix, and those that end in an IPv4 address.       *)
V6Addresses ==
       {<< s, 0, 0, 0, 0, 0, 0, d >> :
          s \in {0, 1, 64511, 64512, 65023, 65024, 65151, 65152, 65215, 65216},
          d \in {0, 1, 2, 65535}}
  \cup {<< 0, 0, 0, 0, fifth, sixth, 256 * v[1] + v[2], 256 * v[3] + v[4] >> :
          fifth \in {0, 1}, sixth \in {0, 65534, 65535}, v \in V4Addresses}

MCHosts ==
       {NamedHost, [kind |-> "localhost", address |-> << >>]}
  \cup {[kind |-> "v4", address |-> v] : v \in V4Addresses}
  \cup {[kind |-> "v6", address |-> v] : v \in V6Addresses}
=============================================================================
