------------------------- MODULE MC_PaginatedFetch -------------------------
(* Two addresses with transactions on blocks 0..3, pages of two, and an    *)
(* int of 3 bits (-4..3), so that flags of 4 and 5 do not fit.             *)
EXTENDS PaginatedFetch

MCAddresses == <<"a1", "a2">>

MCTxBlocks ==
    << [normal |-> <<0, 1, 1, 2, 3>>, internal |-> << >>, transfer |-> <<1, 3>>],
       [normal |-> <<2, 2>>, internal |-> <<3>>, transfer |-> <<0, 3, 3>>] >>
=============================================================================
