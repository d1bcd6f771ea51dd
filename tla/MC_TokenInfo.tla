---------------------------- MODULE MC_TokenInfo ----------------------------
(***************************************************************************)
(* Three tokens, bytes32 of width 3:                                       *)
(*   a1  symbol "aA" from ERC20 (Type2 would give "a"); name only from     *)
(*       Type2, "A" followed by NUL and a stray byte;                      *)
(*   a2  symbol only from Type2, "aaA" with no NUL; name "" from ERC20;    *)
(*   a3  symbol predefined "A" (cachedSymbols), no variant decodes.        *)
(***************************************************************************)
EXTENDS TokenInfo

CONSTANTS a1, a2, a3, c1, c2

NoAnswer == [ok |-> FALSE]
Ans(v) == [ok |-> TRUE, v |-> v]

MCAnswers ==
    (a1 :> [symbol |-> <<Ans(<<Lo, Up>>), Ans(<<Lo, 0, Lo>>)>>,
            name   |-> <<NoAnswer, Ans(<<Up, 0, Lo>>)>>])
    @@ (a2 :> [symbol |-> <<NoAnswer, Ans(<<Lo, Lo, Up>>)>>,
               name   |-> <<Ans(<< >>), NoAnswer>>])
    @@ (a3 :> [symbol |-> <<NoAnswer, NoAnswer>>,
               name   |-> <<NoAnswer, NoAnswer>>])

\* The callers run the same code.
Symmetry == Permutations({c1, c2})

MCSeeds == [symbol |-> (a3 :> <<Up>>), name |-> [a \in {} |-> << >>]]
=============================================================================
