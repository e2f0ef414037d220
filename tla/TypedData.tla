------------------------------ MODULE TypedData ------------------------------
(***************************************************************************)
(* Numbers in the structs that clients sign (src/backend/main.mo, EIP-712).*)
(* A request brings them as Nat, of any size.  encodeUint256 writes the 64 *)
(* lowest hex digits of a number into the struct, and everything else the  *)
(* gates do, the replay check first, takes the number as it came.          *)
(***************************************************************************)
EXTENDS Integers

CONSTANTS
  Domains,  \* EIP-712 domain separators
  Width     \* 2^256

ASSUME TypedDataConstants == Width \in Nat \ {0}

(* A nonce counts within the domain its request names. *)
Nonces == [domain : Domains, number : Nat]

encodeUint256(n) == n % Width

(* What of a nonce is signed, under the domain separator. *)
EncodedNonce(n) == [n EXCEPT !.number = encodeUint256(@)]

(* The nonce of a request is a uint256, as the typed data have it. *)
Fits(q) == q.nonce.number < Width

=============================================================================
