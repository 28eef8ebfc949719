---------------------------- MODULE MessageStore ----------------------------
(***************************************************************************)
(* The message store of the SMSC simulator: class MessageDeliverer.       *)
(*                                                                         *)
(* mapInstance (static MDMap) maps an ESME system_id to a MessageDeliverer *)
(* whose mq is an STL map from delivery time to a FIFO list of messages.  *)
(* Here mq is a sequence of time-lists ("buckets") kept in ascending time *)
(* order, as the std::map iterates them; mapInstance is a function whose  *)
(* domain is the set of identities that currently have an entry.          *)
(*                                                                         *)
(* Times are relative to the present: a bucket's "due" is the number of   *)
(* clock units until its delivery time; 0 means firstListTime <= now.     *)
(* Delays given to add are at least 1 (the caller always adds jitter of   *)
(* at least 3 seconds to a time that is not in the past), so buckets that *)
(* have reached 0 are never added to again, as in the code, where they    *)
(* carry distinct times in the past.                                      *)
(***************************************************************************)
EXTENDS Naturals, FiniteSets, Sequences, SequencesExt, TLC

CONSTANTS
    Ids,         \* system_id values
    Msgs,        \* MessageDeliverer::Message values
    MaxDelay,    \* longest delay (clock units) a message is added with
    MaxPending   \* bound on the pending messages of one identity (the code has none)

VARIABLE mapInstance

Bucket == [due : 0..MaxDelay, msgs : Seq(Msgs)]

TypeOK ==
    /\ DOMAIN mapInstance \subseteq Ids
    /\ \A id \in DOMAIN mapInstance : mapInstance[id] \in Seq(Bucket)

----------------------------------------------------------------------------
(* Operators on one mq and on a whole mapInstance value.                  *)

\* Fault variant of add: a new time-list goes after all others (a list
\* in place of the time-ordered std::map).
addAppend(mq, timeDeliver, msg) ==
    IF \E i \in 1..Len(mq) : mq[i].due = timeDeliver
    THEN LET i == CHOOSE i \in 1..Len(mq) : mq[i].due = timeDeliver
         IN  [mq EXCEPT ![i].msgs = Append(@, msg)]
    ELSE Append(mq, [due |-> timeDeliver, msgs |-> <<msg>>])

\* MessageDeliverer::add: append msg to the time-list of timeDeliver,
\* inserting a new time-list at its place in time order when there is none.
add(mq, timeDeliver, msg) ==
    IF \E i \in 1..Len(mq) : mq[i].due = timeDeliver
    THEN LET i == CHOOSE i \in 1..Len(mq) : mq[i].due = timeDeliver
         IN  [mq EXCEPT ![i].msgs = Append(@, msg)]
    ELSE LET earlier == Cardinality({i \in 1..Len(mq) : mq[i].due < timeDeliver})
         IN  InsertAt(mq, earlier + 1, [due |-> timeDeliver, msgs |-> <<msg>>])

\* Fault variant of IsDue: the firstListTime > now test is dropped.
IsDueAlways(mq) == mq # <<>>

\* MessageDeliverer::get succeeds: there is a time-list and the first is due.
IsDue(mq) == mq # <<>> /\ mq[1].due = 0

\* The message MessageDeliverer::get returns: the front of the first list.
Front1(mq) == mq[1].msgs[1]

\* MessageDeliverer::get removes that message, and the list once empty.
get(mq) ==
    IF Len(mq[1].msgs) = 1 THEN Tail(mq)
    ELSE [mq EXCEPT ![1].msgs = Tail(@)]

\* Fault variant of PutOp: getInstance always makes a new deliverer,
\* replacing the one the identity had.
PutOpFresh(st, id, timeDeliver, msg) ==
    [x \in DOMAIN st \cup {id} |-> IF x = id THEN add(<<>>, timeDeliver, msg) ELSE st[x]]

\* getInstance(systemID)->add(timeDeliver, msg): create the entry if absent.
PutOp(st, id, timeDeliver, msg) ==
    IF id \in DOMAIN st
    THEN [st EXCEPT ![id] = add(@, timeDeliver, msg)]
    ELSE st @@ (id :> add(<<>>, timeDeliver, msg))

\* getInstance_get(systemID, msg) returns true.
CanGet(st, id) == id \in DOMAIN st /\ IsDue(st[id])

\* Fault variant of AfterGet: the deliverer is erased after every get.
AfterGetErase(st, id) == Restrict(st, DOMAIN st \ {id})

\* The mapInstance left by a successful getInstance_get: the deliverer is
\* deleted and its entry erased once its queue is empty.
AfterGet(st, id) ==
    LET mq == get(st[id])
    IN  IF mq = <<>> THEN Restrict(st, DOMAIN st \ {id})
        ELSE [st EXCEPT ![id] = mq]

\* One clock unit passes: every delivery time comes one unit closer.
ElapseOp(st) ==
    [id \in DOMAIN st |->
       [i \in 1..Len(st[id]) |->
          [st[id][i] EXCEPT !.due = IF @ > 0 THEN @ - 1 ELSE 0]]]

Pending(st, id) ==
    IF id \in DOMAIN st
    THEN FoldSeq(LAMBDA b, n : n + Len(b.msgs), 0, st[id])
    ELSE 0

----------------------------------------------------------------------------
(* The store on its own, with any caller.                                 *)

Init == mapInstance = <<>>

Put(id, timeDeliver, msg) ==
    /\ Pending(mapInstance, id) < MaxPending
    /\ mapInstance' = PutOp(mapInstance, id, timeDeliver, msg)

GetInstanceGet(id) ==
    /\ CanGet(mapInstance, id)
    /\ mapInstance' = AfterGet(mapInstance, id)

Elapse == mapInstance' = ElapseOp(mapInstance)

Next ==
    \/ \E id \in Ids, t \in 1..MaxDelay, m \in Msgs : Put(id, t, m)
    \/ \E id \in Ids : GetInstanceGet(id)
    \/ Elapse

Spec == Init /\ [][Next]_mapInstance

----------------------------------------------------------------------------
(* Refinement: reading the time-lists of an identity one after the other  *)
(* gives the abstract Mailbox queue of that identity.                     *)

Flatten(mq) ==
    FlattenSeq([i \in 1..Len(mq) |->
                  [j \in 1..Len(mq[i].msgs) |-> [due |-> mq[i].due, m |-> mq[i].msgs[j]]]])

Queues(st) == [id \in Ids |-> IF id \in DOMAIN st THEN Flatten(st[id]) ELSE <<>>]

Abstract == INSTANCE Mailbox WITH mbox <- Queues(mapInstance)

\* The bucketed std::map of lists delivers, per identity, in ascending
\* delivery time and FIFO among equal times, never before the time, and
\* loses or duplicates nothing: every step of add, get and the clock is a
\* step of the abstract Mailbox.
MailboxRefined == Abstract!Spec

=============================================================================
