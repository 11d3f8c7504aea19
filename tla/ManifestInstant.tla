--------------------------- MODULE ManifestInstant ---------------------------
(***************************************************************************)
(* sqlInstant: the conversion of a manifest's createdAt, a count of        *)
(* microseconds since 1970 of either sign, to the seconds and microseconds *)
(* of a SQL timestamp.  BigInt division truncates toward zero, so the code *)
(* shifts a negative count before it divides.                              *)
(***************************************************************************)
EXTENDS Integers

CONSTANTS Micros,    \* microseconds in a second (1000000n in the code)
          Earliest,  \* first instant of year 1 (-62135596800000000n)
          Latest     \* last instant of year 9999 (253402300799999999n)

ASSUME InstantAssumption ==
    /\ Micros \in Nat \ {0}
    /\ Earliest \in Int
    /\ Latest \in Int

\* The ISO second and the six digits behind the point.
Timestamp == [second : Int, micro : 0..(Micros - 1)]

\* Division of two BigInts.
Truncated(a, b) == IF a >= 0 THEN a \div b ELSE -((-a) \div b)

\* Mutant: the shift of negative counts is forgotten.
TruncatedSeconds(us) == Truncated(us, Micros)

Seconds(us) ==
    IF us < 0 THEN Truncated(us - (Micros - 1), Micros) ELSE Truncated(us, Micros)

\* Outside the calendar of the public API.
Refused(us) == us < Earliest \/ us > Latest

SqlInstant(us) == [second |-> Seconds(us), micro |-> us - Seconds(us) * Micros]
=============================================================================
