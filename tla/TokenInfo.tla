----------------------------- MODULE TokenInfo -----------------------------
(***************************************************************************)
(* The token metadata cache of lib/blockchain/token_info.go                *)
(* (TokenInfoGetter), shared by concurrent callers of Symbol and Name.     *)
(*                                                                         *)
(* A call loads the address from the sync.Map of its kind; on a miss it    *)
(* runs getNameOrSymbol over the two ABI variants -- the string-returning  *)
(* ERC20 and the bytes32-returning ERC20Type2 -- going on to the next only *)
(* on an "abi: cannot marshal" error, then stores the result (Symbol: in   *)
(* upper case; Name: only when there was no error).  Load and Store are    *)
(* separate steps: other callers run between them.                         *)
(*                                                                         *)
(* A string is a sequence of characters and a bytes32 a sequence of bytes *)
(* of a small width, over 0 (NUL), Lo (a lower-case letter) and Up (its    *)
(* upper case).  The contract answers are constants of the chain; an RPC  *)
(* error (timeout, node failure) can happen at any call.                   *)
(***************************************************************************)
EXTENDS Integers, Sequences, TLC

CONSTANTS
    Callers,    \* goroutines calling Symbol or Name
    Addresses,  \* token addresses asked for
    Answers,    \* Answers[a][op][i]: [ok |-> FALSE] (cannot marshal) or
                \* [ok |-> TRUE, v |-> the string, or the bytes32 for i = 2]
    Seeds       \* Seeds[op]: the predefined cache (cachedSymbols of the
                \* deployment, cachedName)

Ops == {"symbol", "name"}
NumFns == 2        \* getSymbolFns, getNameFns: the ERC20 variant, then Type2
Lo == 1
Up == 2

VARIABLES
    cache,      \* cache[op]: the sync.Map cachedSymbol or cachedName
    pc,         \* pc[c]: "idle" or "resolve"
    op,         \* op[c]: the method c is in
    addr,       \* addr[c]: the address it was asked for
    fn,         \* fn[c]: the getNameOrSymbolFunc being tried
    returned    \* history: the [op, a, v] values calls returned with nil error

vars == <<cache, pc, op, addr, fn, returned>>

\* bytes32ToString: count the bytes before the first 0, then slice.
RECURSIVE LeadingNonZero(_, _)
LeadingNonZero(b, i) ==
    IF i > Len(b) THEN Len(b)
    ELSE IF b[i] = 0 THEN i - 1 ELSE LeadingNonZero(b, i + 1)

bytes32ToString(b) == SubSeq(b, 1, LeadingNonZero(b, 1))

\* strings.ToUpper.
ToUpper(s) == [k \in DOMAIN s |-> IF s[k] = Lo THEN Up ELSE s[k]]

\* What getNameOrSymbol does after fn i answered: an error that is not
\* "cannot marshal" is returned at once (modelled in Resolve); a marshal
\* error goes on to the next fn, or ends the loop with that error after
\* the last; a result breaks out of the loop.
FnStepNoBreak(i, ans) ==
    IF i < NumFns THEN "continue" ELSE IF ans.ok THEN "done" ELSE "fail"

FnStep(i, ans) ==
    IF ans.ok THEN "done" ELSE IF i < NumFns THEN "continue" ELSE "fail"

\* The value the method returns for fn i's result: getName2 and getSymbol2
\* convert the bytes32; Symbol upper-cases.
Result(o, i, raw) ==
    LET s == IF i = 2 THEN bytes32ToString(raw) ELSE raw
    IN  IF o = "symbol" THEN ToUpper(s) ELSE s

\* Symbol or Name is called: a hit returns the cached string; a miss
\* starts getNameOrSymbol.
Call(c) ==
    /\ pc[c] = "idle"
    /\ \E o \in Ops, a \in Addresses :
          IF a \in DOMAIN cache[o]
          THEN /\ returned' = returned \cup {[op |-> o, a |-> a, v |-> cache[o][a]]}
               /\ UNCHANGED <<pc, op, addr, fn>>
          ELSE /\ pc' = [pc EXCEPT ![c] = "resolve"]
               /\ op' = [op EXCEPT ![c] = o]
               /\ addr' = [addr EXCEPT ![c] = a]
               /\ fn' = [fn EXCEPT ![c] = 1]
               /\ UNCHANGED returned
    /\ UNCHANGED cache

\* One iteration of getNameOrSymbol for caller c, and what the method does
\* with its outcome: store and return the result, or return the error.
Resolve(c) ==
    /\ pc[c] = "resolve"
    /\ LET o == op[c]  a == addr[c]  i == fn[c]  ans == Answers[a][o][i] IN
       \/ /\ pc' = [pc EXCEPT ![c] = "idle"]             \* RPC error
          /\ UNCHANGED <<cache, fn, returned>>
       \/ /\ FnStep(i, ans) = "continue"
          /\ fn' = [fn EXCEPT ![c] = i + 1]
          /\ UNCHANGED <<cache, pc, returned>>
       \/ /\ FnStep(i, ans) = "fail"
          /\ pc' = [pc EXCEPT ![c] = "idle"]
          /\ UNCHANGED <<cache, fn, returned>>
       \/ /\ FnStep(i, ans) = "done"
          /\ LET v == Result(o, i, ans.v) IN
             /\ cache' = [cache EXCEPT ![o] = (a :> v) @@ @]
             /\ returned' = returned \cup {[op |-> o, a |-> a, v |-> v]}
          /\ pc' = [pc EXCEPT ![c] = "idle"]
          /\ UNCHANGED fn
    /\ UNCHANGED <<op, addr>>

\* NewTokenSymbol: the options store the deployment's symbols, then the
\* predefined names are stored.
Init ==
    /\ cache = Seeds
    /\ pc = [c \in Callers |-> "idle"]
    /\ op = [c \in Callers |-> "symbol"]
    /\ addr = [c \in Callers |-> CHOOSE a \in Addresses : TRUE]
    /\ fn = [c \in Callers |-> 1]
    /\ returned = {}

Next == \E c \in Callers : Call(c) \/ Resolve(c)

Spec == Init /\ [][Next]_vars

-----------------------------------------------------------------------------
\* Reference definitions: the C string in a bytes32 is the longest prefix
\* with no NUL; an address resolves to its predefined value, else to the
\* first ABI variant that decodes.
CString(b) ==
    SubSeq(b, 1, CHOOSE n \in 0..Len(b) :
                    (\A k \in 1..n : b[k] # 0) /\ (n = Len(b) \/ b[n + 1] = 0))

Resolved(o, a) ==
    IF a \in DOMAIN Seeds[o] THEN Seeds[o][a]
    ELSE LET i == CHOOSE j \in 1..NumFns :
                      Answers[a][o][j].ok /\ \A k \in 1..j - 1 : ~Answers[a][o][k].ok
             s == IF i = 2 THEN CString(Answers[a][o][i].v) ELSE Answers[a][o][i].v
         IN  IF o = "symbol" THEN ToUpper(s) ELSE s

\* Every value Symbol or Name returns without error, from the cache or from
\* the chain, whichever caller filled the cache and however the callers
\* interleave between Load and Store, is the address's resolved value: the
\* predefined one, else the first ABI variant's that decodes, with the
\* bytes32 cut at its first NUL (getNameOrSymbol's continue and break,
\* bytes32ToString, ToUpper before Store).
ReturnsResolved ==
    \A r \in returned : r.v = Resolved(r.op, r.a)
=============================================================================
