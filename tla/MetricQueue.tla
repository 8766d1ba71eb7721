---------------------------- MODULE MetricQueue ----------------------------
(* What the metric queue promises: the metrics of one producer come out once
   each and in the order they went in.  Between producers there is no order.   *)
EXTENDS Sequences, SequencesExt

CONSTANTS Producers, Consumers, Items, NoItem

VARIABLES contents,  \* what each producer has put in
          held       \* what each consumer has taken out and not yet handed on

vars == <<contents, held>>

Init == /\ contents = [p \in Producers |-> <<>>]
        /\ held = [c \in Consumers |-> NoItem]

Put(p) == /\ \E item \in Items : contents' = [contents EXCEPT ![p] = Append(@, item)]
          /\ UNCHANGED held

Take(c, p) == /\ contents[p] # <<>>
              /\ held[c] = NoItem
              /\ contents' = [contents EXCEPT ![p] = Tail(@)]
              /\ held' = [held EXCEPT ![c] = Head(contents[p])]

HandOn(c) == /\ held' = [held EXCEPT ![c] = NoItem]
             /\ UNCHANGED contents

Next == \/ \E c \in Consumers : HandOn(c) \/ \E p \in Producers : Take(c, p)
        \/ \E p \in Producers : Put(p)

Spec == Init /\ [][Next]_vars
=============================================================================
