------------------------------- MODULE NodeId -------------------------------
(***************************************************************************)
(* Node identifiers and the XOR metric (meshweaver/kademlia/node_id.py).    *)
(*                                                                         *)
(* An identifier is ID_BITS bits long (256 in the code).  It is modelled   *)
(* by the set of the bit positions that are 1, position 0 being the least  *)
(* significant one, so the XOR of two identifiers is the symmetric         *)
(* difference of the two sets.  How an identifier is derived (SHA-256 of   *)
(* "host:port") and printed (hex) only matters through the identifiers     *)
(* being distinct, and is left to the choice of the constants.             *)
(***************************************************************************)
EXTENDS Integers, FiniteSetsExt

CONSTANT ID_BITS                    \* the length of an identifier in bits

ASSUME IdBitsAssumption == ID_BITS \in Nat \ {0}

BitPositions == 0 .. ID_BITS - 1

NodeIds == SUBSET BitPositions

\* The bit positions in which a and b differ.
Xor(a, b) == (a \ b) \cup (b \ a)

\* The number whose binary digits are the bits of id: after i steps, the
\* number that its i highest bits make.
from_bytes(id) ==
    LET number[i \in 0 .. ID_BITS] ==
          IF i = 0 THEN 0
          ELSE 2 * number[i - 1] + (IF ID_BITS - i \in id THEN 1 ELSE 0)
    IN  number[ID_BITS]

\* int.from_bytes(a) ^ int.from_bytes(b), as a number.
xor_distance(a, b) == from_bytes(Xor(a, b))

\* 2^i, in the form the proofs can unfold.
PowerOfTwo[i \in 0 .. ID_BITS] == IF i = 0 THEN 1 ELSE 2 * PowerOfTwo[i - 1]

=============================================================================
