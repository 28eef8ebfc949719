----------------------------- MODULE SmppCodec -----------------------------
(***************************************************************************)
(* The SMPP framing of SMPPConnection (smsc.cpp 400-588) at byte level:   *)
(* put() and endian() encoding a PDU into a stack buffer and sending it,  *)
(* TCP delivering the bytes in arbitrary pieces, and get() with           *)
(* getInteger() and getBytes() decoding them from what FIONREAD reports.  *)
(*                                                                         *)
(* One connection: a peer puts PDUs with this code's put(), the session   *)
(* reads them with this code's get(), as the round trip of the spec       *)
(* (section 8) asks.  A get() that returns false makes run() return true  *)
(* and main() release the session, so the connection then ends.           *)
(*                                                                         *)
(* Bytes are integers 0..255.  Word values stay below 2^30, within TLC's  *)
(* integers: command ids with the response bit (0x80000000) are not among *)
(* them, the conversions do not depend on the value.                      *)
(*                                                                         *)
(* The session is bound as a transmitter, so that run() parses the body   *)
(* of a submit_sm (SMPPSession::run, 1025-1048) from the body buffer      *)
(* get() filled.                                                          *)
(***************************************************************************)
EXTENDS Naturals, Sequences, SequencesExt, Bitwise

CONSTANTS
    Cmds,      \* command_id values put() is given
    Statuses,  \* command_status values
    SeqNos,    \* sequence_number values
    Bodies,    \* parameter blocks (sequences of bytes) put() is given
    Junk,      \* the values an uninitialised byte of the build may hold
    BodyBuf,   \* max_command_body_length: the bytes of the body buffer (1024)
    MaxPDUs    \* PDUs the peer puts on the connection

VARIABLES
    wire,    \* bytes put() has sent and TCP has not yet delivered
    rcvbuf,  \* bytes in the session's socket receive buffer (FIONREAD)
    hdr,     \* command_received_header
    body,    \* command_received_body.body: the bytes written into it so far
    open,    \* the session still exists (no get() has returned false)
    sent,    \* history: the PDUs put, in order
    got,     \* history: the PDUs get() returned, in order
    oob,     \* history: some write went outside the buffer it was meant for
    stray    \* history: the submit_sm parser read a byte beyond ptr_max

vars == <<wire, rcvbuf, hdr, body, open, sent, got, oob, stray>>

SubmitSM == 4   \* SMPP::CmdID::SubmitSM

----------------------------------------------------------------------------
(* Encoding                                                                *)

\* ((uint8_t*)&a)[i] on the little-endian build: byte i of a.
ByteOf(a, i) == shiftR(a, 8 * i) & 255

\* endian(a): the four low bytes of a in reverse order; bytes 4..7 of the
\* uint64_t b are never written and hold whatever the stack held (j).
Endian(a, j) == <<ByteOf(a, 3), ByteOf(a, 2), ByteOf(a, 1), ByteOf(a, 0), j, j, j, j>>

\* *((uint64_t*)(buf + off)) = v8 on a buffer of n bytes: the eight bytes
\* at off..off+7, those at n and beyond land outside the buffer.
Store64(buf, off, v8) == [i \in DOMAIN buf |-> IF off <= i /\ i < off + 8 THEN v8[i - off + 1] ELSE buf[i]]

Overruns(off, n) == off + 8 > n

\* put(sequence_number, cmdID, status, param, len): the buffer it sends
\* (buf[0..pdu_len-1]) and whether one of its stores overran buf.
PutFrame(seq, cmd, status, param, j) ==
    LET n    == 16 + Len(param)
        b0   == [i \in 0..n - 1 |-> j]
        b1   == Store64(b0, 0, Endian(n, j))
        b2   == Store64(b1, 4, Endian(cmd, j))
        b3   == Store64(b2, 8, Endian(status, j))
        b4   == Store64(b3, 12, Endian(seq, j))
        b5   == IF Len(param) # 0 THEN [i \in 0..n - 1 |-> IF i >= 16 THEN param[i - 15] ELSE b4[i]]
                ELSE b4
    IN  [bytes |-> [i \in 1..n |-> b5[i - 1]],
         overrun |-> \E off \in {0, 4, 8, 12} : Overruns(off, n)]

----------------------------------------------------------------------------
(* Decoding                                                                *)

\* Fault variant of GetInteger: the bytes taken least significant first.
GetIntegerLE(v) == ((v[4] * 256 | v[3]) * 256 | v[2]) * 256 | v[1]

\* getInteger(): (((v0<<8) | v1) <<8 | v2) <<8 | v3 of the next 4 bytes.
GetInteger(v) == ((v[1] * 256 | v[2]) * 256 | v[3]) * 256 | v[4]

\* command_length - 16 in uint64_t: below 16 it wraps to 2^64 - (16 - cl),
\* more than any count of bytes; 2^30 stands for it.
BodyLength(cl) == IF cl >= 16 THEN cl - 16 ELSE 2^30

Drop(s, k) == SubSeq(s, k + 1, Len(s))

\* Fault variant of HeaderFrom: command_status and sequence_number are
\* assigned each other's word.
HeaderFromSwapped(h, buf) ==
    LET k    == IF Len(buf) \div 4 < 4 THEN Len(buf) \div 4 ELSE 4
        w(i) == GetInteger(SubSeq(buf, 4 * i - 3, 4 * i))
    IN  [h EXCEPT !.command_length  = IF k >= 1 THEN w(1) ELSE @,
                  !.command_id      = IF k >= 2 THEN w(2) ELSE @,
                  !.command_status  = IF k >= 4 THEN w(4) ELSE @,
                  !.sequence_number = IF k >= 3 THEN w(3) ELSE @,
                  !.valid           = IF k = 4 THEN "PV_ALL" ELSE @]

\* The header fields the getInteger() calls assign from buf: the k whole
\* words present, at most 4; the others keep their old values.
HeaderFrom(h, buf) ==
    LET k    == IF Len(buf) \div 4 < 4 THEN Len(buf) \div 4 ELSE 4
        w(i) == GetInteger(SubSeq(buf, 4 * i - 3, 4 * i))
    IN  [h EXCEPT !.command_length  = IF k >= 1 THEN w(1) ELSE @,
                  !.command_id      = IF k >= 2 THEN w(2) ELSE @,
                  !.command_status  = IF k >= 3 THEN w(3) ELSE @,
                  !.sequence_number = IF k >= 4 THEN w(4) ELSE @,
                  !.valid           = IF k = 4 THEN "PV_ALL" ELSE @]

\* getBytes(len, body): the len bytes written over the start of the buffer.
Overwrite(buf, new) == new \o Drop(buf, Len(new))

----------------------------------------------------------------------------
(* The submit_sm parser                                                    *)

\* ptr[idx]: the bytes written into the body buffer, then bytes of the
\* heap that new uint8_t[] left uninitialised (j).
ByteAt(buf, idx, j) == IF idx < Len(buf) THEN buf[idx + 1] ELSE j

\* getCOctetString(buf_ptr, buf_len, idx, strout, max_param_len) with i
\* characters taken: whether a NUL ended the string, and idx after it.
\* The loop only stops at buf_len when it meets it exactly.
RECURSIVE COctet(_, _, _, _, _, _)
COctet(buf, len, idx, i, max, j) ==
    IF idx = len THEN [ok |-> FALSE, idx |-> idx]
    ELSE IF ByteAt(buf, idx, j) = 0 THEN [ok |-> TRUE, idx |-> idx + 1]
    ELSE IF i + 1 = max THEN [ok |-> FALSE, idx |-> idx + 1]
    ELSE COctet(buf, len, idx + 1, i + 1, max, j)

\* The fields of a submit_sm body in the order run() takes them: C-octet
\* strings with their bound, single bytes read only if idx < ptr_max,
\* bytes skipped with idx++, registered_delivery read with ptr[idx++], and
\* sm_length followed by the memcpy of the short message.
SubmitFields ==
    <<[f |-> "cstr", max |-> 6],                             \* service_type
      [f |-> "byte", max |-> 0], [f |-> "byte", max |-> 0],  \* source ton, npi
      [f |-> "cstr", max |-> 21],                            \* source_addr
      [f |-> "byte", max |-> 0], [f |-> "byte", max |-> 0],  \* dest ton, npi
      [f |-> "cstr", max |-> 21],                            \* destination_addr
      [f |-> "skip", max |-> 0], [f |-> "skip", max |-> 0], [f |-> "skip", max |-> 0],
      [f |-> "cstr", max |-> 17],                            \* schedule_delivery_time
      [f |-> "cstr", max |-> 17],                            \* validity_period
      [f |-> "raw", max |-> 0],                              \* registered_delivery
      [f |-> "skip", max |-> 0], [f |-> "skip", max |-> 0], [f |-> "skip", max |-> 0],
      [f |-> "sm", max |-> 0]>>                              \* sm_length, short_message

ParseStart == [ok |-> TRUE, idx |-> 0, stray |-> FALSE, sm |-> 0]

\* One field: idx after it, whether it read at or beyond len, and for the
\* short message its length; ok is FALSE where run() jumps to
\* parse_complete_submit.
ParseField(fd, buf, len, st, j) ==
    CASE fd.f = "cstr" ->
             LET r == COctet(buf, len, st.idx, 0, fd.max, j)
             IN  [st EXCEPT !.ok = r.ok, !.idx = r.idx, !.stray = @ \/ st.idx > len]
      [] fd.f = "byte" ->
             IF st.idx < len THEN [st EXCEPT !.idx = @ + 1] ELSE [st EXCEPT !.ok = FALSE]
      [] fd.f = "skip" -> [st EXCEPT !.idx = @ + 1]
      [] fd.f = "raw"  -> [st EXCEPT !.idx = @ + 1, !.stray = @ \/ st.idx >= len]
      [] fd.f = "sm"   ->
             LET sm == ByteAt(buf, st.idx, j)
             IN  [st EXCEPT !.sm = sm, !.idx = @ + 1 + sm,
                            !.stray = @ \/ st.idx >= len \/ (sm > 0 /\ st.idx + 1 + sm > len)]

RECURSIVE SubmitParse(_, _, _, _, _)
SubmitParse(fs, buf, len, st, j) ==
    IF fs = <<>> \/ ~st.ok THEN st
    ELSE SubmitParse(Tail(fs), buf, len, ParseField(Head(fs), buf, len, st, j), j)

----------------------------------------------------------------------------
(* Actions                                                                 *)

\* SMPPSession::send -> SMPPConnection::put -> socket->send: the whole frame
\* goes into the TCP stream (the accepted socket is blocking).
Put ==
    /\ open
    /\ Len(sent) < MaxPDUs
    /\ \E cmd \in Cmds, st \in Statuses, sq \in SeqNos, param \in Bodies, j \in Junk :
         LET f == PutFrame(sq, cmd, st, param, j)
         IN  /\ wire' = wire \o f.bytes
             /\ sent' = Append(sent, [command_id |-> cmd, command_status |-> st,
                                      sequence_number |-> sq, body |-> param])
             /\ oob' = (oob \/ f.overrun)
    /\ UNCHANGED <<rcvbuf, hdr, body, open, got, stray>>

\* TCP delivers the next k bytes of the stream to the receive buffer.
Deliver ==
    /\ open
    /\ \E k \in 1..Len(wire) :
         /\ rcvbuf' = rcvbuf \o SubSeq(wire, 1, k)
         /\ wire' = Drop(wire, k)
    /\ UNCHANGED <<hdr, body, open, sent, got, oob, stray>>

\* select() reports the session readable and run() calls recv() -> get().
\* The header is read unless a previous call left it PV_ALL; a header or a
\* body not all present makes get() return false, and the session is then
\* released.  Otherwise the body is copied into the 1024-byte buffer.
Get ==
    /\ open
    /\ rcvbuf # <<>>
    /\ \E j \in Junk :
       LET h    == IF hdr.valid = "PV_ALL" THEN hdr ELSE HeaderFrom(hdr, rcvbuf)
           rest == IF hdr.valid = "PV_ALL" THEN rcvbuf ELSE Drop(rcvbuf, 16)
           bl   == BodyLength(h.command_length)
           nb   == Overwrite(body, SubSeq(rest, 1, bl))
           ps   == IF h.command_id = SubmitSM THEN SubmitParse(SubmitFields, nb, bl, ParseStart, j)
                   ELSE ParseStart
       IN  \/ /\ h.valid # "PV_ALL"
              /\ hdr' = h
              /\ rcvbuf' = Drop(rcvbuf, 4 * (Len(rcvbuf) \div 4))
              /\ open' = FALSE
              /\ UNCHANGED <<body, got, oob, stray>>
           \/ /\ h.valid = "PV_ALL"
              /\ bl > Len(rest)
              /\ hdr' = h
              /\ rcvbuf' = rest
              /\ open' = FALSE
              /\ UNCHANGED <<body, got, oob, stray>>
           \/ /\ h.valid = "PV_ALL"
              /\ bl <= Len(rest)
              /\ hdr' = [h EXCEPT !.valid = "PV_INVALID"]
              /\ body' = nb
              /\ rcvbuf' = Drop(rest, bl)
              /\ got' = Append(got, [command_id |-> h.command_id,
                                     command_status |-> h.command_status,
                                     sequence_number |-> h.sequence_number,
                                     body |-> SubSeq(rest, 1, bl)])
              /\ oob' = (oob \/ bl > BodyBuf \/ ps.sm > 160)
              /\ stray' = (stray \/ ps.stray)
              /\ UNCHANGED open
    /\ UNCHANGED <<wire, sent>>

\* SMPPConnection(): the header PV_INVALID and all zero, a fresh body buffer.
Init ==
    /\ wire = <<>>
    /\ rcvbuf = <<>>
    /\ hdr = [valid |-> "PV_INVALID", command_length |-> 0, command_id |-> 0,
              command_status |-> 0, sequence_number |-> 0]
    /\ body = <<>>
    /\ open = TRUE
    /\ sent = <<>>
    /\ got = <<>>
    /\ oob = FALSE
    /\ stray = FALSE

Next == Put \/ Deliver \/ Get

Spec == Init /\ [][Next]_vars

----------------------------------------------------------------------------
(* Properties                                                              *)

\* The PDUs get() returns are the PDUs put() sent, with the same command
\* id, status, sequence number and body, in the order sent, however TCP
\* splits the stream (spec section 8, codec round trip): endian() and the
\* stores of put() agree with getInteger() and the body length of get().
PduRoundTrip == IsPrefix(got, sent)

\* get() returns false, and the session is released, only while the next
\* PDU put has not all arrived in the receive buffer: a PDU whose bytes
\* are all there is decoded (getInteger, the body length from
\* command_length), whatever PDUs came before it on the stream.
ReleasedOnlyWhenShort ==
    [][open /\ ~open' =>
         LET n == Len(got) + 1
         IN  n <= Len(sent) /\ Len(rcvbuf) < 16 + Len(sent[n].body)]_vars

\* Every access of put(), get() and the submit_sm parser of run() stays
\* inside the buffer it is meant for: the four 8-byte stores of put()
\* inside its 16 + len byte buffer, the body getBytes() copies inside the
\* 1024-byte body buffer, the short message inside short_message[160], and
\* every byte the parser reads below ptr_max = command_length - 16, so that
\* a body that ends early stops the parse with allowSubmit = false instead
\* of reading what an earlier PDU, or nothing, left in the body buffer.
MemoryInBounds == ~oob /\ ~stray

=============================================================================
