---------------------------- MODULE PubkeyIndex ----------------------------
(***************************************************************************)
(* The computor list of methods/guest/src/main.rs: reject_duplicate_pubkeys *)
(* sorts the indices by key and compares neighbours, find_computor searches *)
(* the sorted indices.  Sorting and searching are Rust's library: any      *)
(* permutation in key order, and a search that probes anywhere inside the  *)
(* range it has left.                                                      *)
(***************************************************************************)
EXTENDS Integers

CONSTANTS
    NUMBER_OF_COMPUTORS,
    MaxKey       \* keys are 0 .. MaxKey, in the order of their bytes

ASSUME IndexAssumption ==
    /\ NUMBER_OF_COMPUTORS \in Nat \ {0}
    /\ MaxKey \in Nat

Slot == 0 .. NUMBER_OF_COMPUTORS - 1
Key == 0 .. MaxKey

VARIABLES
    pubkeys,     \* the list
    order,       \* the sorted indices
    phase,       \* "sort", "windows", "idle", "search", "panic"
    key,         \* what find_computor looks for, -1 before the first call
    lo, hi,      \* the range of positions left to search: lo .. hi - 1
    answer       \* its result: an index, or -1 for None

indexVars == <<pubkeys, order, phase, key, lo, hi, answer>>

-----------------------------------------------------------------------------
InKeyOrder(o) == \A p, q \in Slot : p < q => pubkeys[o[p]] <= pubkeys[o[q]]

\* The arrangements of the indices: each occurs, and once.
Orders ==
    {o \in [Slot -> Slot] :
        /\ \A i \in Slot : \E p \in Slot : o[p] = i
        /\ \A p, q \in Slot : p # q => o[p] # o[q]}

IndexInit ==
    /\ pubkeys \in [Slot -> Key]
    /\ order = [p \in Slot |-> p]
    /\ phase = "sort"
    /\ key = -1 /\ lo = 0 /\ hi = 0 /\ answer = -1

\* sort_unstable_by_key: equal keys in any order.
Sort ==
    /\ phase = "sort"
    /\ order' \in {o \in Orders : InKeyOrder(o)}
    /\ phase' = "windows"
    /\ UNCHANGED <<pubkeys, key, lo, hi, answer>>

\* Mutant: the neighbours of the list and not those of the sorted order.
ListNeighboursDiffer ==
    \A p \in 0 .. NUMBER_OF_COMPUTORS - 2 : pubkeys[p] # pubkeys[p + 1]

NeighboursDiffer ==
    \A p \in 0 .. NUMBER_OF_COMPUTORS - 2 : pubkeys[order[p]] # pubkeys[order[p + 1]]

\* windows(2): equal neighbours panic.
Windows ==
    /\ phase = "windows"
    /\ phase' = IF NeighboursDiffer THEN "idle" ELSE "panic"
    /\ UNCHANGED <<pubkeys, order, key, lo, hi, answer>>

\* find_computor, for the source of a reveal or of a commit.
Find(k) ==
    /\ phase = "idle"
    /\ phase' = "search"
    /\ key' = k
    /\ lo' = 0 /\ hi' = NUMBER_OF_COMPUTORS
    /\ answer' = -1
    /\ UNCHANGED <<pubkeys, order>>

\* Mutant: the list itself is searched, not the sorted indices.
ProbeUnsorted(mid) ==
    /\ phase = "search"
    /\ mid \in lo .. hi - 1
    /\ lo' = IF pubkeys[mid] < key THEN mid + 1 ELSE lo
    /\ hi' = IF pubkeys[mid] > key THEN mid ELSE hi
    /\ answer' = IF pubkeys[mid] = key THEN mid ELSE -1
    /\ phase' = IF pubkeys[mid] = key THEN "idle" ELSE "search"
    /\ UNCHANGED <<pubkeys, order, key>>

\* binary_search_by: Ok(pos) becomes sorted[pos].
Probe(mid) ==
    LET probed == pubkeys[order[mid]]
    IN  /\ phase = "search"
        /\ mid \in lo .. hi - 1
        /\ lo' = IF probed < key THEN mid + 1 ELSE lo
        /\ hi' = IF probed > key THEN mid ELSE hi
        /\ answer' = IF probed = key THEN order[mid] ELSE -1
        /\ phase' = IF probed = key THEN "idle" ELSE "search"
        /\ UNCHANGED <<pubkeys, order, key>>

NotFound ==
    /\ phase = "search"
    /\ lo = hi
    /\ phase' = "idle"
    /\ UNCHANGED <<pubkeys, order, key, lo, hi, answer>>

IndexNext ==
    \/ Sort
    \/ Windows
    \/ \E k \in Key : Find(k)
    \/ \E mid \in Slot : Probe(mid)
    \/ NotFound

IndexSpec == IndexInit /\ [][IndexNext]_indexVars

-----------------------------------------------------------------------------
(* Properties.                                                             *)

\* Type invariant.
IndexTypeOK ==
    /\ pubkeys \in [Slot -> Key]
    /\ order \in [Slot -> Slot]
    /\ phase \in {"sort", "windows", "idle", "search", "panic"}
    /\ key \in Key \cup {-1}
    /\ lo \in 0 .. NUMBER_OF_COMPUTORS /\ hi \in 0 .. NUMBER_OF_COMPUTORS
    /\ answer \in Slot \cup {-1}

Distinct == \A i, j \in Slot : i # j => pubkeys[i] # pubkeys[j]

\* Comparing neighbours of the sorted order is enough: a list gets past the check
\* exactly when no key occurs twice in it, wherever in the list the two are.
RepeatedKeysPanic ==
    /\ phase \in {"idle", "search"} => Distinct
    /\ phase = "panic" => ~Distinct

\* find_computor answers with the index at which the list holds the key, and with
\* None exactly when the list does not hold it: the index that enters the
\* knowledge proof and marks the computor as seen is the signer's own.
FindsTheComputor ==
    phase = "idle" /\ key # -1 =>
        IF answer = -1 THEN \A i \in Slot : pubkeys[i] # key ELSE pubkeys[answer] = key
=============================================================================
