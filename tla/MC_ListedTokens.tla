--------------------------- MODULE MC_ListedTokens ---------------------------
(***************************************************************************)
(* Two keys, three addresses.  The maps list a token that moved from a1   *)
(* to a2, two tokens with no old address, and a1 again at a later time,    *)
(* which DO NOTHING leaves at its first timestamp.                         *)
(***************************************************************************)
EXTENDS ListedTokens

CONSTANTS a1, a2, a3, k1, k2

MCInputs ==
    { { [key |-> k1, address |-> a2, ts |-> 2, old |-> <<[address |-> a1, ts |-> 1]>>] },
      { [key |-> k1, address |-> a1, ts |-> 1, old |-> << >>],
        [key |-> k2, address |-> a3, ts |-> 1, old |-> << >>] },
      { [key |-> k1, address |-> a1, ts |-> 3, old |-> << >>] } }
=============================================================================
