-------------------------------- MODULE SMSC --------------------------------
(***************************************************************************)
(* The SMSC simulator (src/example/smsc_simulator/smsc.cpp): the select() *)
(* loop of main() multiplexing SMPP sessions (class SMPPSession), their    *)
(* bind state machine, the enquire_link keepalive and the delivery of due *)
(* messages from the shared MessageStore, with the ESMEs at the other end *)
(* of each TCP connection acting arbitrarily within a budget.             *)
(*                                                                         *)
(* A connection slot c \in 1..NConns stands for a file descriptor: accept *)
(* returns the lowest free one, and the timeout pass of main() visits     *)
(* them in ascending order.  A PDU is a record holding the command and    *)
(* what its parse yields; TCP delivers the bytes of a connection in order *)
(* and may deliver a PDU in pieces ("partial").                           *)
(*                                                                         *)
(* Time advances one unit per select() timeout; the session keeps the     *)
(* time elapsed since its timestamps rather than the timestamps:          *)
(*   idle    = now - lastPDUFromESMETime      (capped at IdleLimit + 1)   *)
(*   pendAge = now - enquireLinkRespPending   (capped at RespLimit + 1)   *)
(*   closeIn = closingTime - now              (floored at 0)              *)
(* with heard, pending and closing standing for the timestamp being       *)
(* non-zero, and probed (kept only when ObserveProbes) for an            *)
(* enquire_link sent since the last PDU received.  IdleLimit, RespLimit,  *)
(* CloseDelay and Jitter are the code's 120 s, 60 s, 5 s and             *)
(* 3 + rand() % 10 s scaled down.                                         *)
(***************************************************************************)
EXTENDS Naturals, FiniteSets, Sequences, SequencesExt, TLC

CONSTANTS
    NConns,       \* descriptors available for SMPP sessions
    BindIds,      \* system_id values ESMEs bind with (may include Empty)
    Empty,        \* the empty system_id ""
    NULL,         \* an empty sessionSockMap entry
    Versions,     \* interface_version values ESMEs send (0x33 = 51, 0x34 = 52)
    RelDelays,    \* delays a relative schedule_delivery_time asks for
    Jitter,       \* the 3 + rand() % 10 seconds added to delivery times
    IdleLimit,    \* 120 s of inactivity before enquire_link
    RespLimit,    \* 60 s to wait for enquire_link_resp
    CloseDelay,   \* 5 s from unbind to closing the session
    MaxPDUs,      \* ESME budget: PDUs (or pieces of one) sent over all connections
    MaxConnects,  \* ESME budget: connection attempts
    Segmented,    \* whether a PDU may arrive split over two reads
    ObserveReplies, \* whether lastReply records the responses sent
    ObserveProbes   \* whether a session records an enquire_link sent since its last PDU

ASSUME NConns \in Nat \ {0}
ASSUME Empty \notin BindIds \/ Empty \in BindIds
ASSUME Jitter \subseteq Nat \ {0} /\ Jitter # {}
ASSUME RelDelays \subseteq Nat /\ IdleLimit \in Nat /\ RespLimit \in Nat /\ CloseDelay \in Nat

Conns == 1..NConns
Ids == BindIds \cup {Empty}
MsgIds == 1..MaxPDUs
MaxSeqNoDelay == CHOOSE x \in RelDelays \cup {0} : \A y \in RelDelays : y <= x
MaxDelay == MaxSeqNoDelay + (CHOOSE x \in Jitter : \A y \in Jitter : y <= x)

\* Messages as the store keeps them: their id, registered_delivery set,
\* whether destination_addr contains the system_id (the MO loopback test),
\* and the length of the smscMessageID issued for them.
Message == [k : MsgIds, rd : BOOLEAN, loop : BOOLEAN, idlen : {8, 64}]

\* The deliver_sm PDUs timedCheck synthesizes: which address of the message
\* each puts in its source_addr and destination_addr, esm_class, and the
\* receipted_message_id TLV (its length field and the bytes appended).
NoTLV == [len |-> 0, value |-> 0]
DeliverSM == [src : {"source_addr", "destination_addr"},
              dst : {"source_addr", "destination_addr"}, esm : {0, 4},
              idTLV : {NoTLV} \cup [len : {65}, value : {9, 65}]]

VARIABLES
    sessionSockMap, \* sessionSockMap[c]: the SMPPSession of descriptor c, or NULL
    mapInstance,    \* MessageDeliverer::mapInstance, the message store
    mux,            \* 0: main() is in select(); c: the timeout pass is at descriptor c
    pendingConns,   \* connections queued on the listening socket
    inbound,        \* inbound[c]: complete PDUs received on c and not yet read
    partial,        \* partial[c]: part of one more PDU has arrived on c
    peerClosed,     \* peerClosed[c]: the ESME has closed connection c
    lastReply,      \* lastReply[c]: the response sent to the last PDU read on c
    budget,         \* PDUs the ESMEs may still send
    connects,       \* connections the ESMEs may still open
    nextMsg,        \* history: id of the next accepted message
    ledger          \* history: ledger[k] = owner, the length of the id issued,
                    \*   the deliver_sm PDUs sent for k, time left to the requested
                    \*   delivery time, and how often k was taken from the store

vars == <<sessionSockMap, mapInstance, mux, pendingConns, inbound, partial,
          peerClosed, lastReply, budget, connects, nextMsg, ledger>>

Store == INSTANCE MessageStore WITH Ids <- Ids, Msgs <- Message,
                                    MaxPending <- MaxPDUs

----------------------------------------------------------------------------
(* PDUs                                                                    *)

BindCmds == {"BindTransceiver", "BindTransmitter", "BindReceiver"}
OtherCmds == {"Unbind", "EnquireLink", "EnquireLinkResp", "GenericNack", "DeliverSMResp"}

Scheds == [kind : {"none"}] \cup [kind : {"rel"}, d : RelDelays]
          \cup [kind : {"abs_unparsed"}]

\* ok: every field of the body parses within its bound.
BindPDUs == [cmd : BindCmds, id : BindIds, ver : Versions, ok : BOOLEAN]
SubmitPDUs == [cmd : {"SubmitSM"}, ok : BOOLEAN, sched : Scheds,
               dest : {"333", "Short", "Long", "Loop"}, rd : BOOLEAN]
AnyPDU == BindPDUs \cup SubmitPDUs \cup [cmd : OtherCmds]

\* The PDUs the ESMEs choose from (a model may narrow it).
PDUs == AnyPDU

\* The response command id: cmdid + 0x80000000.
Resp(cmd) == cmd \o "Resp"

NoReply == [cmd |-> "none", status |-> "none"]

Session == [bindState : {"BS_NONE", "BS_TRX", "BS_TX", "BS_RX"},
            system_id : Ids, version : Versions \cup {0},
            heard : BOOLEAN, idle : 0..IdleLimit + 1,
            pending : BOOLEAN, pendAge : 0..RespLimit + 1,
            closing : BOOLEAN, closeIn : 0..CloseDelay, probed : BOOLEAN]

TypeOK ==
    /\ sessionSockMap \in [Conns -> Session \cup {NULL}]
    /\ Store!TypeOK
    /\ mux \in 0..NConns
    /\ pendingConns \in 0..MaxConnects
    /\ inbound \in [Conns -> Seq(AnyPDU)]
    /\ partial \in [Conns -> BOOLEAN]
    /\ peerClosed \in [Conns -> BOOLEAN]
    /\ lastReply \in [Conns -> [cmd : STRING, status : STRING]]
    /\ budget \in 0..MaxPDUs /\ connects \in 0..MaxConnects
    /\ nextMsg \in 1..MaxPDUs + 1
    /\ ledger \in [MsgIds -> [owner : Ids, idlen : {0, 8, 64}, wait : 0..MaxSeqNoDelay,
                              taken : 0..2, sent : Seq(DeliverSM)]]

----------------------------------------------------------------------------
(* Helpers                                                                 *)

Open(c) == sessionSockMap[c] # NULL

\* select() reports c readable: bytes, or end of stream, are there to read.
Readable(c) == Open(c) /\ (inbound[c] # <<>> \/ partial[c] \/ peerClosed[c])

\* (closingTime != 0) && (now >= closingTime)
CloseDue(s) == s.closing /\ s.closeIn = 0

\* SMPPSession(fdsocket, ip)
NewSession ==
    [bindState |-> "BS_NONE", system_id |-> Empty, version |-> 0,
     heard |-> FALSE, idle |-> 0, pending |-> FALSE, pendAge |-> 0,
     closing |-> FALSE, closeIn |-> 0, probed |-> FALSE]

\* delete sessionSockMap[i]; close(i); FD_CLR(i, &master_set)
Release(c) ==
    /\ sessionSockMap' = [sessionSockMap EXCEPT ![c] = NULL]
    /\ inbound' = [inbound EXCEPT ![c] = <<>>]
    /\ partial' = [partial EXCEPT ![c] = FALSE]
    /\ peerClosed' = [peerClosed EXCEPT ![c] = FALSE]

\* send(seqno, cmd, status, ...): lastReply only observes what was sent; a
\* model that no property about responses reads leaves it unrecorded.
Reply(c, cmd, status) ==
    IF ObserveReplies
    THEN lastReply' = [lastReply EXCEPT ![c] = [cmd |-> cmd, status |-> status]]
    ELSE UNCHANGED lastReply

----------------------------------------------------------------------------
(* SMPPSession::run: one PDU from the ESME.  s is the session with        *)
(* lastPDUFromESMETime = now already applied.                             *)

BindStateOf == [BindTransceiver |-> "BS_TRX", BindTransmitter |-> "BS_TX",
                BindReceiver |-> "BS_RX"]

BindInvalidState(c, s, p) ==
    /\ s.bindState # "BS_NONE"
    /\ Reply(c, Resp(p.cmd), "ESME_RINVBNDSTS")
    /\ sessionSockMap' = [sessionSockMap EXCEPT ![c] = s]

AllowBind(p) == p.ok /\ ~(p.ver < 52 /\ p.cmd = "BindTransceiver")

BindAccepted(c, s, p) ==
    /\ s.bindState = "BS_NONE"
    /\ AllowBind(p)
    /\ Reply(c, Resp(p.cmd), "ESME_ROK")
    /\ sessionSockMap' = [sessionSockMap EXCEPT ![c] =
           [s EXCEPT !.system_id = p.id, !.bindState = BindStateOf[p.cmd],
                     !.version = p.ver]]

BindRejected(c, s, p) ==
    /\ s.bindState = "BS_NONE"
    /\ ~AllowBind(p)
    /\ Reply(c, "BindTransceiverResp", "ESME_RBINDFAIL")
    /\ sessionSockMap' = [sessionSockMap EXCEPT ![c] = [s EXCEPT !.bindState = "BS_NONE"]]

OnBind(c, s, p) ==
    /\ p.cmd \in BindCmds
    /\ \/ BindInvalidState(c, s, p)
       \/ BindAccepted(c, s, p)
       \/ BindRejected(c, s, p)
    /\ UNCHANGED <<mapInstance, nextMsg, ledger>>

OnUnbind(c, s, p) ==
    /\ p.cmd = "Unbind"
    /\ IF s.bindState # "BS_NONE"
       THEN /\ Reply(c, "UnbindResp", "ESME_ROK")
            /\ sessionSockMap' = [sessionSockMap EXCEPT ![c] = [s EXCEPT !.bindState = "BS_NONE"]]
       ELSE /\ Reply(c, "UnbindResp", "ESME_RINVBNDSTS")
            /\ sessionSockMap' = [sessionSockMap EXCEPT ![c] = s]
    /\ UNCHANGED <<mapInstance, nextMsg, ledger>>

\* enquire_link_resp clears enquireLinkRespPending; enquire_link is
\* answered; generic_nack and commands without a branch get no reply.
OnOther(c, s, p) ==
    /\ p.cmd \in OtherCmds \ {"Unbind"}
    /\ sessionSockMap' = [sessionSockMap EXCEPT ![c] =
           IF p.cmd = "EnquireLinkResp" THEN [s EXCEPT !.pending = FALSE, !.pendAge = 0]
           ELSE s]
    /\ IF p.cmd = "EnquireLink" THEN Reply(c, "EnquireLinkResp", "ESME_ROK")
       ELSE Reply(c, "none", "none")
    /\ UNCHANGED <<mapInstance, nextMsg, ledger>>

\* The status of a submit_sm from a transmitter or transceiver: the first
\* check that fails, in the order of the code, or ESME_ROK.
SubmitStatus(p) ==
    CASE ~p.ok                              -> "ESME_RSUBMITFAIL"
      [] p.sched.kind = "abs_unparsed"      -> "ESME_RINVSCHED"
      [] p.dest = "333"                     -> "ESME_RSUBMITFAIL"
      [] p.dest = "Short"                   -> "ESME_INVDSTADR"
      [] OTHER                              -> "ESME_ROK"

\* tESMEDeliveryTimeRequired - now for an accepted submit_sm.
RequiredDelay(sched) == IF sched.kind = "rel" THEN sched.d ELSE 0

\* msgid_len: 64 hex digits for interface_version 0x34 and later, else 8.
MsgIdLen(version) == IF version < 52 THEN 8 ELSE 64

SubmitAccepted(c, s, p) ==
    \E j \in Jitter :
      LET msg == [k |-> nextMsg, rd |-> p.rd, loop |-> p.dest = "Loop",
                  idlen |-> MsgIdLen(s.version)]
      IN  /\ Reply(c, "SubmitSMResp", "ESME_ROK")
          /\ mapInstance' = Store!PutOp(mapInstance, s.system_id,
                                        RequiredDelay(p.sched) + j, msg)
          /\ ledger' = [ledger EXCEPT ![nextMsg] =
                          [owner |-> s.system_id, idlen |-> msg.idlen,
                           wait |-> RequiredDelay(p.sched), taken |-> 0, sent |-> <<>>]]
          /\ nextMsg' = nextMsg + 1

OnSubmit(c, s, p) ==
    /\ p.cmd = "SubmitSM"
    /\ sessionSockMap' = [sessionSockMap EXCEPT ![c] = s]
    /\ \/ /\ s.bindState \in {"BS_NONE", "BS_RX"}
          /\ Reply(c, "SubmitSMResp", "ESME_RINVBNDSTS")
          /\ UNCHANGED <<mapInstance, nextMsg, ledger>>
       \/ /\ s.bindState \in {"BS_TX", "BS_TRX"}
          /\ SubmitStatus(p) # "ESME_ROK"
          /\ Reply(c, "SubmitSMResp", SubmitStatus(p))
          /\ UNCHANGED <<mapInstance, nextMsg, ledger>>
       \/ /\ s.bindState \in {"BS_TX", "BS_TRX"}
          /\ SubmitStatus(p) = "ESME_ROK"
          /\ SubmitAccepted(c, s, p)

\* The session reads one PDU (SMPPConnection::get returns true).
Receive(c) ==
    LET p == Head(inbound[c])
        s == [sessionSockMap[c] EXCEPT !.heard = TRUE, !.idle = 0, !.probed = FALSE]
    IN  /\ inbound' = [inbound EXCEPT ![c] = Tail(@)]
        /\ \/ OnBind(c, s, p)
           \/ OnUnbind(c, s, p)
           \/ OnOther(c, s, p)
           \/ OnSubmit(c, s, p)
        /\ UNCHANGED <<partial, peerClosed>>

\* main(): descriptor c is readable and sessionSockMap[c]->run() is called.
\* run() returns true (close) when the closing time has passed, or when
\* get() finds fewer bytes than a whole header or body, or none at all.
Run(c) ==
    /\ mux = 0
    /\ Readable(c)
    /\ \/ /\ CloseDue(sessionSockMap[c])
          /\ Release(c)
          /\ UNCHANGED <<mapInstance, lastReply, nextMsg, ledger>>
       \/ /\ ~CloseDue(sessionSockMap[c])
          /\ inbound[c] # <<>>
          /\ Receive(c)
       \/ /\ ~CloseDue(sessionSockMap[c])
          /\ inbound[c] = <<>>
          /\ Release(c)
          /\ UNCHANGED <<mapInstance, lastReply, nextMsg, ledger>>
    /\ UNCHANGED <<mux, pendingConns, budget, connects>>

\* main(): the listening socket is readable and accept() returns the
\* lowest free descriptor, which gets a new SMPPSession.
Accept ==
    /\ mux = 0
    /\ pendingConns > 0
    /\ \E c \in Conns :
         /\ ~Open(c)
         /\ \A d \in 1..c - 1 : Open(d)
         /\ sessionSockMap' = [sessionSockMap EXCEPT ![c] = NewSession]
         /\ lastReply' = [lastReply EXCEPT ![c] = NoReply]
    /\ pendingConns' = pendingConns - 1
    /\ UNCHANGED <<mapInstance, mux, inbound, partial, peerClosed, budget,
                   connects, nextMsg, ledger>>

----------------------------------------------------------------------------
(* The timeout branch of main(): select() returned 0 after a second in    *)
(* which no descriptor was readable; timedCheck() is called on every      *)
(* session in descriptor order.                                            *)

Age(x, cap) == IF x < cap THEN x + 1 ELSE cap

\* One clock unit, as seen by the sessions, the store and the history.
ElapseSession(s) ==
    IF s = NULL THEN NULL
    ELSE [s EXCEPT !.idle = IF s.heard THEN Age(@, IdleLimit + 1) ELSE 0,
                   !.pendAge = IF s.pending THEN Age(@, RespLimit + 1) ELSE 0,
                   !.closeIn = IF s.closing /\ @ > 0 THEN @ - 1 ELSE @]

Elapse ==
    /\ sessionSockMap' = [c \in Conns |-> ElapseSession(sessionSockMap[c])]
    /\ mapInstance' = Store!ElapseOp(mapInstance)
    /\ ledger' = [k \in MsgIds |-> [ledger[k] EXCEPT !.wait = IF @ > 0 THEN @ - 1 ELSE 0]]

\* select() returns 0: a second has passed with nothing to read.
TimeoutBegin ==
    /\ mux = 0
    /\ pendingConns = 0
    /\ \A c \in Conns : ~Readable(c)
    /\ mux' = 1
    /\ Elapse
    /\ UNCHANGED <<pendingConns, inbound, partial, peerClosed, lastReply, budget,
                   connects, nextMsg>>

\* Time also passes while select() keeps reporting descriptors readable;
\* then no timeout pass runs, and run() may be the first to see a
\* closing time that has passed.
Tick ==
    /\ mux = 0
    /\ \E c \in Conns : Readable(c)
    /\ Elapse
    /\ UNCHANGED <<mux, pendingConns, inbound, partial, peerClosed, lastReply, budget,
                   connects, nextMsg>>

\* Fault variant of KeepAlive: the unbind is sent but no closingTime set.
KeepAliveNoClose(s) ==
    CASE s.heard /\ s.idle > IdleLimit /\ ~s.pending ->
             [s EXCEPT !.pending = TRUE, !.pendAge = 0, !.closing = FALSE, !.closeIn = 0,
                       !.probed = ObserveProbes]
      [] OTHER -> s

\* The keepalive part of timedCheck (enquire_link after IdleLimit, unbind
\* and a closing time after RespLimit without enquire_link_resp).
KeepAlive(s) ==
    CASE s.heard /\ s.idle > IdleLimit /\ ~s.pending ->
             [s EXCEPT !.pending = TRUE, !.pendAge = 0, !.closing = FALSE, !.closeIn = 0,
                       !.probed = ObserveProbes]
      [] s.heard /\ s.idle > IdleLimit /\ s.pending /\ ~s.closing /\ s.pendAge > RespLimit ->
             [s EXCEPT !.closing = TRUE, !.closeIn = CloseDelay]
      [] OTHER -> s

\* while (MessageDeliverer::getInstance_get(system_id, msg)): the messages
\* taken, in order, and the store left.
RECURSIVE TakenDue(_, _)
TakenDue(st, id) ==
    IF Store!CanGet(st, id)
    THEN <<Store!Front1(st[id])>> \o TakenDue(Store!AfterGet(st, id), id)
    ELSE <<>>

RECURSIVE StoreAfterTaking(_, _)
StoreAfterTaking(st, id) ==
    IF Store!CanGet(st, id) THEN StoreAfterTaking(Store!AfterGet(st, id), id) ELSE st

\* Fault variant of Receives: transceivers are taken for transmitters.
ReceivesRX(s) == s.system_id # Empty /\ s.bindState = "BS_RX"

\* The session gets deliveries: system_id.length() > 0 and bound TRX or RX.
Receives(s) == s.system_id # Empty /\ s.bindState \in {"BS_TRX", "BS_RX"}

\* generateReceipt: sent only to a transceiver or receiver, from the
\* message's destination back to its source, esm_class 0x04; a transceiver
\* also gets the TLVs, the receipted_message_id one with length 0x0041 and
\* the smscMessageID and its NUL appended.
GenerateReceipt(s, m) ==
    IF s.bindState \in {"BS_TRX", "BS_RX"}
    THEN <<[src |-> "destination_addr", dst |-> "source_addr", esm |-> 4,
            idTLV |-> IF s.bindState = "BS_TRX" THEN [len |-> 65, value |-> m.idlen + 1]
                      ELSE NoTLV]>>
    ELSE <<>>

\* generateMO: source_addr and destination_addr copied in their own places.
GenerateMO(m) ==
    <<[src |-> "source_addr", dst |-> "destination_addr", esm |-> 0, idTLV |-> NoTLV]>>

\* The body of the drain loop for one message: a receipt if
\* registered_delivery is set, then an MO if the loopback test matches.
DeliverSMsFor(s, m) ==
    (IF m.rd THEN GenerateReceipt(s, m) ELSE <<>>) \o (IF m.loop THEN GenerateMO(m) ELSE <<>>)

\* timedCheck() of the session at descriptor c.
TimedCheck(c) ==
    LET s == sessionSockMap[c]
        s2 == KeepAlive(s)
        taken == IF Receives(s2) THEN TakenDue(mapInstance, s2.system_id) ELSE <<>>
        takenIds == {taken[i].k : i \in 1..Len(taken)}
        msgOf(k) == taken[CHOOSE i \in 1..Len(taken) : taken[i].k = k]
    IN  /\ Open(c)
        /\ \/ /\ CloseDue(s)
              /\ Release(c)
              /\ UNCHANGED <<mapInstance, ledger>>
           \/ /\ ~CloseDue(s)
              /\ sessionSockMap' = [sessionSockMap EXCEPT ![c] = s2]
              /\ mapInstance' = IF Receives(s2) THEN StoreAfterTaking(mapInstance, s2.system_id)
                                ELSE mapInstance
              /\ ledger' = [k \in MsgIds |->
                              IF k \in takenIds
                              THEN [ledger[k] EXCEPT !.taken = IF @ < 2 THEN @ + 1 ELSE 2,
                                                     !.sent = @ \o DeliverSMsFor(s2, msgOf(k))]
                              ELSE ledger[k]]
              /\ UNCHANGED <<inbound, partial, peerClosed>>

\* Fault variant of TimeoutStep: the descriptor loop runs one past the last.
TimeoutStepPastLast ==
    /\ mux # 0
    /\ mux' = IF mux <= NConns THEN mux + 1 ELSE 0
    /\ \/ TimedCheck(mux)
       \/ /\ ~Open(mux)
          /\ UNCHANGED <<sessionSockMap, mapInstance, inbound, partial, peerClosed, ledger>>
    /\ UNCHANGED <<pendingConns, lastReply, budget, connects, nextMsg>>

\* main()'s timeout branch: timedCheck on each descriptor in turn.
TimeoutStep ==
    /\ mux # 0
    /\ mux' = IF mux < NConns THEN mux + 1 ELSE 0
    /\ \/ TimedCheck(mux)
       \/ /\ ~Open(mux)
          /\ UNCHANGED <<sessionSockMap, mapInstance, inbound, partial, peerClosed, ledger>>
    /\ UNCHANGED <<pendingConns, lastReply, budget, connects, nextMsg>>

----------------------------------------------------------------------------
(* The ESMEs.  Their steps are taken between passes of main()'s loop:     *)
(* what an ESME does while the timeout pass runs is read only after it.  *)

Between == mux = 0

EsmeConnect ==
    /\ Between
    /\ connects > 0
    /\ connects' = connects - 1
    /\ pendingConns' = pendingConns + 1
    /\ UNCHANGED <<sessionSockMap, mapInstance, mux, inbound, partial, peerClosed,
                   lastReply, budget, nextMsg, ledger>>

\* An ESME sends a request once the previous one has been read (a window
\* of one outstanding PDU, as SMPP clients are commonly configured).
CanSend(c) == Open(c) /\ ~peerClosed[c] /\ ~partial[c] /\ inbound[c] = <<>>

EsmeSend(c, p) ==
    /\ Between
    /\ CanSend(c) /\ budget > 0
    /\ inbound' = [inbound EXCEPT ![c] = Append(@, p)]
    /\ budget' = budget - 1
    /\ UNCHANGED <<sessionSockMap, mapInstance, mux, pendingConns, partial,
                   peerClosed, lastReply, connects, nextMsg, ledger>>

\* The first bytes of a PDU arrive; the rest follows in a later segment.
EsmeSendPart(c) ==
    /\ Between
    /\ Segmented
    /\ CanSend(c) /\ budget > 0
    /\ partial' = [partial EXCEPT ![c] = TRUE]
    /\ budget' = budget - 1
    /\ UNCHANGED <<sessionSockMap, mapInstance, mux, pendingConns, inbound,
                   peerClosed, lastReply, connects, nextMsg, ledger>>

EsmeSendRest(c, p) ==
    /\ Between
    /\ Open(c) /\ partial[c]
    /\ inbound' = [inbound EXCEPT ![c] = Append(@, p)]
    /\ partial' = [partial EXCEPT ![c] = FALSE]
    /\ UNCHANGED <<sessionSockMap, mapInstance, mux, pendingConns, peerClosed,
                   lastReply, budget, connects, nextMsg, ledger>>

\* The ESME answers an enquire_link it has received (outside the budget).
EsmeAnswerProbe(c) ==
    /\ Between
    /\ CanSend(c)
    /\ sessionSockMap[c].pending
    /\ \A i \in 1..Len(inbound[c]) : inbound[c][i].cmd # "EnquireLinkResp"
    /\ inbound' = [inbound EXCEPT ![c] = Append(@, [cmd |-> "EnquireLinkResp"])]
    /\ UNCHANGED <<sessionSockMap, mapInstance, mux, pendingConns, partial,
                   peerClosed, lastReply, budget, connects, nextMsg, ledger>>

EsmeClose(c) ==
    /\ Between
    /\ Open(c) /\ ~peerClosed[c]
    /\ peerClosed' = [peerClosed EXCEPT ![c] = TRUE]
    /\ UNCHANGED <<sessionSockMap, mapInstance, mux, pendingConns, inbound, partial,
                   lastReply, budget, connects, nextMsg, ledger>>

----------------------------------------------------------------------------

Init ==
    /\ sessionSockMap = [c \in Conns |-> NULL]
    /\ Store!Init
    /\ mux = 0
    /\ pendingConns = 0
    /\ inbound = [c \in Conns |-> <<>>]
    /\ partial = [c \in Conns |-> FALSE]
    /\ peerClosed = [c \in Conns |-> FALSE]
    /\ lastReply = [c \in Conns |-> NoReply]
    /\ budget = MaxPDUs
    /\ connects = MaxConnects
    /\ nextMsg = 1
    /\ ledger = [k \in MsgIds |-> [owner |-> Empty, idlen |-> 0, wait |-> 0, taken |-> 0,
                                   sent |-> <<>>]]

Server ==
    \/ \E c \in Conns : Run(c)
    \/ Accept
    \/ TimeoutBegin
    \/ TimeoutStep

Esme ==
    \/ EsmeConnect
    \/ \E c \in Conns, p \in PDUs : EsmeSend(c, p)
    \/ \E c \in Conns : EsmeSendPart(c)
    \/ \E c \in Conns, p \in PDUs : EsmeSendRest(c, p)
    \/ \E c \in Conns : EsmeAnswerProbe(c)
    \/ \E c \in Conns : EsmeClose(c)

Next == Server \/ Tick \/ Esme

\* main() is one thread that never blocks except in select(), which
\* returns at the latest after a second: whenever it can take a step it
\* eventually takes one.  The ESMEs owe nothing.
Spec == Init /\ [][Next]_vars /\ WF_vars(Server)

----------------------------------------------------------------------------
(* Properties                                                              *)

\* Occurrences of message k in the store.
StoredCount(k) ==
    MapThenSumSet(LAMBDA id : Len(SelectSeq(Store!Flatten(mapInstance[id]),
                                            LAMBDA e : e.m.k = k)),
                  DOMAIN mapInstance)

\* Every accepted submit_sm is, at every moment, either still in the store
\* or has been taken from it exactly once, whichever sessions bind, unbind,
\* drain it or close under the same system_id: add, get and the erasing
\* of emptied deliverers neither lose nor duplicate a message.
MessageConservation ==
    \A k \in MsgIds :
        StoredCount(k) + ledger[k].taken = IF k < nextMsg THEN 1 ELSE 0

\* A message is never taken for delivery (receipt or MO) before the time
\* its submit_sm asked for (now, or now plus the relative schedule).
NoEarlyDelivery ==
    [][\A k \in MsgIds : ledger'[k].taken > ledger[k].taken => ledger[k].wait = 0]_vars

\* A session that has received a PDU and then hears nothing more from its
\* ESME is eventually closed: enquire_link, unbind after RespLimit and the
\* closing time of timedCheck run their course.
HeardSessionReleased ==
    \A c \in Conns :
        [](Open(c) /\ sessionSockMap[c].heard => <>(~Open(c) \/ Readable(c)))

ReceiverBoundFor(k) ==
    /\ k < nextMsg
    /\ \E c \in Conns : /\ Open(c)
                        /\ sessionSockMap[c].bindState \in {"BS_TRX", "BS_RX"}
                        /\ sessionSockMap[c].system_id = ledger[k].owner

\* An accepted message is eventually delivered if, from some point on, a
\* session stays bound as receiver or transceiver under the system_id it
\* was submitted with.
DueMessageDelivered ==
    \A k \in MsgIds : <>[]ReceiverBoundFor(k) => <>(ledger[k].taken > 0)

\* A session that never receives a PDU and hears nothing from its ESME is
\* eventually closed too (spec: a session with no traffic for the idle
\* threshold receives an enquire_link, and is unbound and closed if it
\* stays unanswered).
SilentSessionReleased ==
    \A c \in Conns : [](Open(c) => <>(~Open(c) \/ Readable(c)))

\* Every bind request read from a session is answered with the response
\* of the same command (bind_receiver_resp to bind_receiver, ...), also
\* when the bind fails (spec: protocol violations are answered on the
\* matching response command).
BindRespMatchesCommand ==
    [][\A c \in Conns :
         (/\ Open(c) /\ Open(c)'
          /\ inbound[c] # <<>> /\ Head(inbound[c]).cmd \in BindCmds
          /\ inbound'[c] = Tail(inbound[c]))
         => lastReply'[c].cmd = Resp(Head(inbound[c]).cmd)]_vars

\* A delivery receipt sent to a transceiver echoes the message_id that the
\* submit_sm_resp issued for the message in its receipted_message_id TLV,
\* and the TLV's length field counts exactly that id and its NUL, whichever
\* session, bound with whichever interface_version, submitted the message
\* (spec: a TLV is length-prefixed, and a transceiver's receipt echoes the
\* original message identifier).
ReceiptEchoesMessageId ==
    \A k \in MsgIds : \A i \in DOMAIN ledger[k].sent :
        ledger[k].sent[i].idTLV # NoTLV => ledger[k].sent[i].idTLV.len = ledger[k].idlen + 1

\* A session is closed only because its ESME closed the connection or
\* because its closing time has passed: a PDU whose bytes arrive in more
\* than one segment is read once complete (spec: fewer bytes than a
\* header or body is non-fatal and retried on the next readiness event).
ClosedOnlyOnEofOrClosingTime ==
    [][\A c \in Conns :
         Open(c) /\ ~Open(c)' => peerClosed[c] \/ CloseDue(sessionSockMap[c])]_vars

\* timedCheck sends its unsolicited unbind (and sets closingTime) only to
\* a session that was sent an enquire_link after the last PDU it received
\* and has not answered it (spec: a session silent for the idle threshold
\* receives an enquire_link, and an unbind only if that stays unanswered).
ProbeBeforeUnbind ==
    [][\A c \in Conns :
         (/\ Open(c) /\ Open(c)'
          /\ ~sessionSockMap[c].closing /\ sessionSockMap'[c].closing)
         => sessionSockMap[c].probed]_vars

=============================================================================
