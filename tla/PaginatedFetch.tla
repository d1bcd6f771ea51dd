--------------------------- MODULE PaginatedFetch ---------------------------
(***************************************************************************)
(* The accounting reserve-transaction-fetcher command and the Etherscan     *)
(* fetcher behind it (accounting/.../fetcher/fetcher.go and               *)
(* accounting/cmd/accounting-reserve-transaction-fetcher/main.go).         *)
(*                                                                         *)
(* For each address, in flag order, the command fetches the normal, the    *)
(* internal and the ERC20-transfer transactions of [from, to).  Each fetch *)
(* converts the big.Int bounds to int (to becomes the inclusive to - 1,    *)
(* both must fit the int width), then asks Etherscan for page 1, 2, ... of *)
(* Offset transactions until Etherscan answers "No transactions found".    *)
(* Any other error ends the fetch and the command with that error.         *)
(*                                                                         *)
(* A transaction is abstracted to its block number; the Etherscan client   *)
(* is the environment: a page of the matching transactions, the            *)
(* no-transactions sentinel when the page is empty, or another error.      *)
(***************************************************************************)
EXTENDS Integers, Sequences

CONSTANTS
    Nil,         \* a nil *big.Int: the flag was not given
    Addresses,   \* the addresses flag, a sequence in flag order
    Offset,      \* transactions per page (const offset = 500)
    IntBits,     \* width of Go's int, which bounds the block numbers
    FromBlocks,  \* candidate from-block flags (integers or Nil)
    ToBlocks,    \* candidate to-block flags (integers or Nil)
    TxBlocks     \* TxBlocks[a][k]: blocks of address a's transactions of kind k,
                 \* ascending, as Etherscan lists them

ASSUME Offset \in Nat \ {0} /\ IntBits \in Nat \ {0}

VARIABLES
    from, to,    \* the block flags, fixed for the run
    ai, ki,      \* the address and the kind being fetched
    fpc,         \* the fetch: "bounds", "page", "returned" or "failed"
    startBlock, endBlock, \* the int bounds passed to Etherscan (or Nil)
    page,        \* the page counter of the loop
    results,     \* the transactions concatenated so far
    got,         \* the fetches that returned: [addr, kind, txs] records
    status       \* the command: "running", "ok" or "error"

vars == <<from, to, ai, ki, fpc, startBlock, endBlock, page, results, got, status>>

\* The fetches in the order run calls them: NormalTx, InternalTx, ERC20Transfer.
Kinds == <<"normal", "internal", "transfer">>

\* big.Int.IsInt64, for an int of IntBits bits.
IsInt(x) == -(2 ^ (IntBits - 1)) <= x /\ x <= 2 ^ (IntBits - 1) - 1

\* The inclusive end Etherscan is asked for: "includes the transactions of to block".
ToInclusive(t) == IF t = Nil THEN Nil ELSE t - 1

\* Both bounds pass their IsInt64 check.
BoundsFit == (from = Nil \/ IsInt(from)) /\ (to = Nil \/ IsInt(to - 1))

\* What Etherscan holds for the query: transactions with startBlock <= b <= endBlock.
Matching(a, k, s, e) ==
    SelectSeq(TxBlocks[a][k], LAMBDA b : (s = Nil \/ s <= b) /\ (e = Nil \/ b <= e))

\* Page p of the matching transactions, Offset per page, counted from 1.
PageOf(txs, p) ==
    SubSeq(txs, (p - 1) * Offset + 1,
           IF p * Offset < Len(txs) THEN p * Offset ELSE Len(txs))

\* The page Etherscan answers for the current call.
PageTxs == PageOf(Matching(ai, Kinds[ki], startBlock, endBlock), page)

\* Fault model: the IsInt64 checks are dropped and the value wraps, as
\* int(x.Int64()) does for a big.Int that does not fit.
Wrap(x) == ((x + 2 ^ (IntBits - 1)) % (2 ^ IntBits)) - 2 ^ (IntBits - 1)
ConvertBoundsUnchecked ==
    /\ status = "running" /\ fpc = "bounds"
    /\ fpc' = "page" /\ page' = 1 /\ results' = << >>
    /\ startBlock' = IF from = Nil THEN Nil ELSE Wrap(from)
    /\ endBlock' = IF to = Nil THEN Nil ELSE Wrap(to - 1)
    /\ UNCHANGED <<from, to, ai, ki, got, status>>

\* Fault model: paging starts at index 0.
ConvertBoundsPageZero ==
    /\ status = "running" /\ fpc = "bounds"
    /\ IF BoundsFit
       THEN /\ fpc' = "page" /\ page' = 0 /\ results' = << >>
            /\ startBlock' = from /\ endBlock' = ToInclusive(to)
       ELSE /\ fpc' = "failed"
            /\ UNCHANGED <<page, results, startBlock, endBlock>>
    /\ UNCHANGED <<from, to, ai, ki, got, status>>

\* fetch, lines before the page loop: clone the bounds, check each fits an
\* int (returning "unsupported block" otherwise), translate to inclusive.
ConvertBounds ==
    /\ status = "running" /\ fpc = "bounds"
    /\ IF BoundsFit
       THEN /\ fpc' = "page" /\ page' = 1 /\ results' = << >>
            /\ startBlock' = from /\ endBlock' = ToInclusive(to)
       ELSE /\ fpc' = "failed"
            /\ UNCHANGED <<page, results, startBlock, endBlock>>
    /\ UNCHANGED <<from, to, ai, ki, got, status>>

\* One iteration of the page loop: the sentinel ends it normally, another
\* error ends the fetch, a page of transactions is appended.
FetchPage ==
    /\ status = "running" /\ fpc = "page"
    /\ \/ /\ PageTxs = << >>          \* IsEtherscanNotransactionFound
          /\ fpc' = "returned" /\ UNCHANGED <<page, results>>
       \/ /\ PageTxs # << >>
          /\ results' = results \o PageTxs /\ page' = page + 1
          /\ UNCHANGED fpc
       \/ /\ fpc' = "failed"           \* any other client error
          /\ UNCHANGED <<page, results>>
    /\ UNCHANGED <<from, to, ai, ki, startBlock, endBlock, got, status>>

\* run: the fetch returned; log the transactions and start the next fetch,
\* or return nil after the last kind of the last address.
NextFetch ==
    /\ status = "running" /\ fpc = "returned"
    /\ got' = got \cup {[addr |-> ai, kind |-> Kinds[ki], txs |-> results]}
    /\ IF ki < Len(Kinds)
       THEN ki' = ki + 1 /\ UNCHANGED ai /\ fpc' = "bounds" /\ UNCHANGED status
       ELSE IF ai < Len(Addresses)
            THEN ai' = ai + 1 /\ ki' = 1 /\ fpc' = "bounds" /\ UNCHANGED status
            ELSE status' = "ok" /\ UNCHANGED <<ai, ki, fpc>>
    /\ UNCHANGED <<from, to, startBlock, endBlock, page, results>>

\* run: the fetch failed; return its error, ending the command.
ReturnError ==
    /\ status = "running" /\ fpc = "failed"
    /\ status' = "error"
    /\ UNCHANGED <<from, to, ai, ki, fpc, startBlock, endBlock, page, results, got>>

Init ==
    /\ from \in FromBlocks /\ to \in ToBlocks
    /\ ai = 1 /\ ki = 1 /\ fpc = "bounds"
    /\ startBlock = Nil /\ endBlock = Nil /\ page = 1 /\ results = << >>
    /\ got = {}
    /\ status = "running"

\* The command has returned and the process exits.
Terminated == status # "running" /\ UNCHANGED vars

Next == ConvertBounds \/ FetchPage \/ NextFetch \/ ReturnError \/ Terminated

Spec == Init /\ [][Next]_vars

-----------------------------------------------------------------------------
TypeOK ==
    /\ fpc \in {"bounds", "page", "returned", "failed"}
    /\ status \in {"running", "ok", "error"}
    /\ ai \in 1..Len(Addresses) /\ ki \in 1..Len(Kinds)
    /\ page \in Nat \ {0}

\* The transactions of [from, to) in Etherscan's order: what a fetch must return.
Expected(a, k) ==
    SelectSeq(TxBlocks[a][k], LAMBDA b : (from = Nil \/ from <= b) /\ (to = Nil \/ b < to))

\* Every fetch that returned gave exactly the transactions of blocks
\* [from, to), none lost or repeated across pages, and only when both bounds
\* fit an int: the to - 1 translation, the IsInt64 checks and the page loop
\* with its sentinel together (fetcher.go fetch).
FetchReturnsRange ==
    \A r \in got : BoundsFit /\ r.txs = Expected(r.addr, r.kind)
=============================================================================
