------------------------------- MODULE Words -------------------------------
(***************************************************************************)
(* The u32 fields of fixtures and frames: Field bytes, low byte first, a   *)
(* byte being a number below Radix.                                        *)
(***************************************************************************)
EXTENDS Integers, SequencesExt

CONSTANTS
    Radix,       \* 256
    Field        \* 4

ASSUME WordAssumption ==
    /\ Radix \in Nat \ {0, 1}
    /\ Field \in Nat \ {0}

\* Radix ^ Field
Modulus ==
    LET power[n \in 0 .. Field] == IF n = 0 THEN 1 ELSE Radix * power[n - 1] IN power[Field]

\* (v as u32).to_le_bytes()
Word(v) ==
    LET rest[i \in 0 .. Field] == IF i = 0 THEN v ELSE rest[i - 1] \div Radix
    IN  [i \in 1 .. Field |-> rest[i - 1] % Radix]

\* u32::from_le_bytes: high[n] is the number of the last n bytes.
Number(bytes) ==
    LET high[n \in 0 .. Len(bytes)] ==
            IF n = 0 THEN 0 ELSE bytes[Len(bytes) - n + 1] + Radix * high[n - 1]
    IN  high[Len(bytes)]
=============================================================================
