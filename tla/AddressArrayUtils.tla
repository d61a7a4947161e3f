------------------------- MODULE AddressArrayUtils -------------------------
(***************************************************************************)
(* The address-array library contracts/lib/AddressArrayUtils.sol, on       *)
(* sequences.  Indices start at 1 here and at 0 in the contracts.          *)
(***************************************************************************)
EXTENDS Integers, Sequences

Entries(A) == {A[i] : i \in DOMAIN A}

contains(A, a) == \E i \in DOMAIN A : A[i] = a

\* The index of the first occurrence of a; used only when A contains a.
indexOf(A, a) ==
    CHOOSE i \in DOMAIN A : A[i] = a /\ \A j \in 1..(i - 1) : A[j] # a

hasDuplicate(A) == \E i, j \in DOMAIN A : i < j /\ A[i] = A[j]

\* The last element takes the place of the removed one, then the array is
\* popped: the order of the others is not kept.  Reverts unless A contains a.
removeStorage(A, a) ==
    [k \in 1..(Len(A) - 1) |-> IF k = indexOf(A, a) THEN A[Len(A)] ELSE A[k]]

\* The order-preserving removal used on memory arrays.
pop(A, index) ==
    [k \in 1..(Len(A) - 1) |-> IF k < index THEN A[k] ELSE A[k + 1]]

remove(A, a) == pop(A, indexOf(A, a))

=============================================================================
