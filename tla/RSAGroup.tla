------------------------------ MODULE RSAGroup ------------------------------
(***************************************************************************)
(* The group the CL-RSA-B accumulator works in, and the BigNumber          *)
(* operations (crate unknown_order) the code calls on it.                  *)
(*                                                                         *)
(* generate_rsa_primes draws safe primes p = 2p'+1 and q = 2q'+1, so the   *)
(* quadratic residues modulo p*q form a cyclic group of order p'*q'.  A    *)
(* residue is represented by its discrete logarithm to a fixed generator:  *)
(* modmul adds logarithms, modpow multiplies one by the exponent.  Nothing *)
(* the code does with residues depends on more than that.                  *)
(***************************************************************************)
EXTENDS Integers, FiniteSetsExt

CONSTANTS PP, QQ                \* p' and q', the Sophie Germain primes

IsPrime(n) == n \in Nat /\ n > 1 /\ \A d \in 2..(n-1) : n % d # 0

(* helpers.rs:4-9: two safe primes.  They are drawn independently; that    *)
(* they differ is not checked by the code and holds but for a chance of    *)
(* one in 2^1500.                                                          *)
ASSUME SafePrimes ==
  /\ PP \in Nat \ {0} /\ QQ \in Nat \ {0} /\ PP # QQ
  /\ IsPrime(PP) /\ IsPrime(2*PP + 1)
  /\ IsPrime(QQ) /\ IsPrime(2*QQ + 1)

Phi == (2*PP) * (2*QQ)          \* the trapdoor, (p-1)*(q-1)
Ord == PP * QQ                  \* the order of the quadratic residues

Group == 0 .. (Ord - 1)

-----------------------------------------------------------------------------
modmul(u, v) == (u + v) % Ord
modpow(u, e) == (u * (e % Ord)) % Ord

(* invert(phi): None when there is no inverse.                             *)
Inverses(x) == { y \in 0 .. (Phi - 1) : ((x % Phi) * y) % Phi = 1 }

(* extended_gcd(x, y) for a prime x > 2, as a Bezout pair a*x + b*y = gcd:  *)
(* when x does not divide y, the pair Euclid's algorithm ends with (|b| is  *)
(* at most x/2), and either of the two trivial pairs when it does.          *)
GcdResults(x, y) ==
  IF y % x = 0
  THEN { [gcd |-> x, a |-> 1, b |-> 0] } \cup
       (IF x = y THEN { [gcd |-> x, a |-> 0, b |-> 1] } ELSE {})
  ELSE { [gcd |-> 1, a |-> (1 - b*y) \div x, b |-> b] :
           b \in { c \in -(x \div 2) .. (x \div 2) : (c * (y % x)) % x = 1 } }
=============================================================================
