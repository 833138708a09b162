----------------------------- MODULE HeaderPow -----------------------------
(***************************************************************************)
(* The proof-of-work arithmetic of src/src/header.c.  A target is a number *)
(* of Digits digits in base Base (32 bytes in the code); its compact form  *)
(* holds an exponent, a sign bit and the three leading digits.             *)
(***************************************************************************)
EXTENDS Integers, FiniteSetsExt

CONSTANTS
    Base,    \* 256 in the code
    Digits   \* 32 in the code

ASSUME BaseAssumption == Base \in {2 * k : k \in 1..128} /\ Digits \in Nat \ 0..3

Mantissas == Base ^ 3          \* 1 << 24
SignBit == Mantissas \div 2    \* 0x800000
MaxTarget == Base ^ Digits     \* 1 << 256
Invalid == -1                  \* the function returns false

\* hsk_pow_to_target.  The shift is masked to the width of the target.
PowToTarget(bits) ==
    LET exponent == bits \div Mantissas
        field    == bits % SignBit
        negative == bits % Mantissas >= SignBit
        mantissa == IF exponent <= 3 THEN field \div Base ^ (3 - exponent)
                    ELSE field
        shift    == IF exponent <= 3 THEN 0 ELSE (exponent - 3) % Digits
        target   == mantissa * Base ^ shift
    IN  IF bits = 0 \/ negative \/ target >= MaxTarget THEN Invalid
        ELSE target

\* hsk_pow_to_bits.
PowToBits(target) ==
    LET exponent == Min({k \in 0..Digits : target < Base ^ k})
        mantissa == IF exponent <= 3 THEN target * Base ^ (3 - exponent)
                    ELSE target \div Base ^ (exponent - 3)
    IN  IF exponent = 0 THEN 0
        ELSE IF mantissa >= SignBit
             THEN (exponent + 1) * Mantissas + mantissa \div Base
             ELSE exponent * Mantissas + mantissa

\* hsk_header_get_proof, for bits that hsk_pow_to_target accepts.
GetProof(bits) == MaxTarget \div (PowToTarget(bits) + 1)

============================================================================
