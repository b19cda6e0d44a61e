------------------------------ MODULE ByteQueue ------------------------------
(***************************************************************************)
(* What a user of lin_io::ByteBuffer relies on: a queue of bytes with a    *)
(* limit.  Nothing here speaks of capacity, holes or moved memory.         *)
(***************************************************************************)
EXTENDS Integers, Sequences

CONSTANTS Bytes, Indeterminate, MaxAdd

VARIABLES items,   \* the valid data, oldest byte first
          limit,   \* the limit the user asked for
          threw    \* the last call threw ResourceLimitException

vars == <<items, limit, threw>>

Cell == Bytes \cup {Indeterminate}

Strings(n) == UNION {[1..k -> Cell] : k \in 0..n}

Init == items = <<>> /\ limit \in Nat /\ threw = FALSE

(* Bytes are only ever added behind the ones already there.                *)
Extend(n) ==
    /\ \E bs \in Strings(n) : items' = items \o bs
    /\ threw' = FALSE
    /\ UNCHANGED limit

(* An addition is refused only when it would pass the limit.               *)
Refuse(n) ==
    /\ Len(items) + n > limit
    /\ threw' = TRUE
    /\ UNCHANGED <<items, limit>>

DropFront ==
    /\ \E k \in 0..Len(items) : items' = SubSeq(items, k + 1, Len(items))
    /\ threw' = FALSE
    /\ UNCHANGED limit

DropBack ==
    /\ \E k \in 0..Len(items) : items' = SubSeq(items, 1, k)
    /\ threw' = FALSE
    /\ UNCHANGED limit

SetLimit ==
    /\ limit' >= Len(items)
    /\ threw' = FALSE
    /\ UNCHANGED items

(* Rearranging memory: compact and gc.                                     *)
Rearrange == threw' = FALSE /\ UNCHANGED <<items, limit>>

Next ==
    \/ \E n \in 0..MaxAdd : Extend(n) \/ Refuse(n)
    \/ DropFront \/ DropBack \/ SetLimit \/ Rearrange

Spec == Init /\ [][Next]_vars
=============================================================================
