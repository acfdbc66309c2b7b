---------------------------- MODULE PinnedStore ----------------------------
(* What the cache of dra-driver-model-cache promises to its callers: a     *)
(* store of items in which a pinned item is never dropped, and in which    *)
(* the item dropped is always the one that was touched longest ago among   *)
(* those nobody has pinned.  Sizes, locks, directories and callbacks are   *)
(* not part of the promise.                                                *)

CONSTANTS Item, User

VARIABLES
    stored,   \* the items present
    pins,     \* who holds each item
    before    \* <<i, j>>: i was last touched before j

vars == <<stored, pins, before>>

TypeOK == /\ stored \subseteq Item
          /\ pins \in [Item -> SUBSET User]
          /\ before \subseteq stored \X stored

Init == /\ stored = {}
        /\ pins = [i \in Item |-> {}]
        /\ before = {}

TouchLast(i) == before' = {p \in before : p[1] # i}
                            \union ((stored \ {i}) \X {i})

Put(i) == /\ i \notin stored
          /\ stored' = stored \union {i}
          /\ TouchLast(i)
          /\ UNCHANGED pins

Pin(i, u) == /\ i \in stored
             /\ pins' = [pins EXCEPT ![i] = @ \union {u}]
             /\ TouchLast(i)
             /\ UNCHANGED stored

Unpin(i, u) == /\ i \in stored
               /\ pins' = [pins EXCEPT ![i] = @ \ {u}]
               /\ UNCHANGED <<stored, before>>

Drop(i) == /\ i \in stored
           /\ pins[i] = {}
           /\ \A j \in stored \ {i} : pins[j] = {} => <<i, j>> \in before
           /\ stored' = stored \ {i}
           /\ before' = {p \in before : i \notin {p[1], p[2]}}
           /\ UNCHANGED pins

Next == \/ \E i \in Item : Put(i) \/ Drop(i)
        \/ \E i \in Item, u \in User : Pin(i, u) \/ Unpin(i, u)

Spec == Init /\ [][Next]_vars
=============================================================================
