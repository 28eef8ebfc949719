------------------------------ MODULE Mailbox ------------------------------
(***************************************************************************)
(* What the simulator's message store promises each ESME identity, stated *)
(* without buckets: one queue of pending messages per identity, ordered   *)
(* by the time still to wait before delivery and, among messages due at  *)
(* the same instant, by the order they were put.  Only the head of a      *)
(* queue can be taken, and only once it is due.                            *)
(*                                                                         *)
(* Time is kept relative to the present: an entry's "due" is the number   *)
(* of clock units left before its delivery instant (0 = due now or       *)
(* overdue); Elapse is one unit of time passing.                          *)
(***************************************************************************)
EXTENDS Naturals, FiniteSets, Sequences, SequencesExt

CONSTANTS
    Ids,        \* ESME identities a queue can be kept for
    Msgs,       \* the messages
    MaxDelay    \* the longest delay a message can be put with

VARIABLE mbox   \* mbox[id]: the pending messages of identity id, in delivery order

Entry == [due : 0..MaxDelay, m : Msgs]

TypeOK == mbox \in [Ids -> Seq(Entry)]

Init == mbox = [id \in Ids |-> <<>>]

\* A message put with delay d goes behind every entry due no later than d.
Put(id, d, m) ==
    LET q == mbox[id]
        behind == Cardinality({i \in 1..Len(q) : q[i].due <= d})
    IN  mbox' = [mbox EXCEPT ![id] = InsertAt(q, behind + 1, [due |-> d, m |-> m])]

\* Only the head of a queue is taken, and only when it is due.
Take(id) ==
    /\ mbox[id] # <<>>
    /\ Head(mbox[id]).due = 0
    /\ mbox' = [mbox EXCEPT ![id] = Tail(@)]

Elapse ==
    mbox' = [id \in Ids |->
               [i \in 1..Len(mbox[id]) |->
                  [mbox[id][i] EXCEPT !.due = IF @ > 0 THEN @ - 1 ELSE 0]]]

Next ==
    \/ \E id \in Ids, d \in 1..MaxDelay, m \in Msgs : Put(id, d, m)
    \/ \E id \in Ids : Take(id)
    \/ Elapse

Spec == Init /\ [][Next]_mbox

=============================================================================
