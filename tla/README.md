# TLA+ models of the SMSC simulator

These models cover `src/example/smsc_simulator/smsc.cpp`: a single-threaded SMPP server that
multiplexes ESME connections with `select()`, runs a bind state machine per connection, stores
submitted messages per identity, and later delivers receipts and MO messages back to bound
sessions.

## 1. Inventory

### Components and how they interact

| Component | Code | State | Operations |
|---|---|---|---|
| Message store | `MessageDeliverer` (76-197) | static `mapInstance`: system_id → deliverer; `mq`: time → FIFO list | `getInstance`, `add`, `get`, `getInstance_get` |
| Session state machine | `SMPPSession::run` (886-1110) | `bindState`, `system_id`, `version`, `lastPDUFromESMETime` | bind (3 kinds), unbind, enquire_link(_resp), generic_nack, submit_sm |
| Liveness monitor | `SMPPSession::timedCheck` (695-728) | `enquireLinkRespPending`, `closingTime` | enquire_link after 120 s idle; unbind and closingTime = now + 5 s after 60 s without a response; close when due |
| Delivery dispatcher | `timedCheck` (734-758), `generateReceipt`, `generateMO` (763-884) | none of its own (reads the store) | drains every due message of the session's identity, sending a receipt (with TLVs to a transceiver) and/or an MO per message |
| Connection multiplexer | `main` (1222-1519) | `sessionSockMap`, `master_set`, `max_sd` | select with a 1 s timeout; accept; `run()` on readable descriptors; `timedCheck()` on all of them after a timeout; release |
| PDU codec | `SMPPConnection` (400-588), `getCOctetString` (679-692), the submit_sm field walk of `run` (1025-1048) | the header (valid or not) kept across calls, the 1024-byte body buffer | `get` (header, then body; any shortfall → false), `put`, `endian`, the submit parse |
| GSM time | `SMPP::GSMStringTime`, `GSMRelativeTime` (359-397), the schedule check of `run` (1050-1063) | none | pure conversions, and the comparison with now |
| AdminSession, ClientConfig, sockets, logging | 52-74, 202-248, 603-623 | none that matter | I/O, constant answers, printing |

The multiplexer is the only thread. A readable descriptor gets one `run()`, which reads at most one
PDU. A select timeout, one second without any readable descriptor, runs `timedCheck()` on every
descriptor in ascending order.

A submit accepted by any session puts the message into the store under that session's
`system_id`. A later `timedCheck()` of any session bound as receiver or transceiver under the same
identity takes it from the store, possibly in another session than the one that submitted it.

### Hard behaviours

- Interleavings of ESMEs: connecting, sending a PDU whole or in pieces, closing, and answering
  probes, against the loop's passes.
- The shared store: sessions of one identity come and go, and the deliverer is created and erased
  as it fills and empties.
- Time: the idle, response and close thresholds, scheduled and relative delivery times, and time
  passing while the loop is busy.
- Resource limits: a finite set of descriptors and EMFILE.

PROJECT.json `hazards` lists each hazard at its line.

## 2. Modules

| Module | Models | State ↔ code |
|---|---|---|
| `Mailbox` | what the store promises | `mbox[id]`: one queue per identity, ordered by time left and then FIFO; `Put`, `Take` (head, only when due), `Elapse` |
| `MessageStore` | `MessageDeliverer` | `mapInstance`: function from the identities present to a sequence of buckets `[due, msgs]` in ascending time (the `std::map`). `add`, `get`, `PutOp` (`getInstance()->add`), `AfterGet` (`getInstance_get` including the erase of an empty deliverer). It refines `Mailbox` via `Queues(mapInstance)`. |
| `SMSC` | `main`, `SMPPSession`, `SMPPConnection::get`, and the ESMEs at the other end | see below |
| `SmppCodec` | `put`, `endian`, `getInteger`, `getBytes`, `get`, `getCOctetString`, the submit_sm parse | see below |
| `GSMTime` | `GSMStringTime`, `GSMRelativeTime`, the schedule check of a submit | `last`: the last schedule checked, with now, the jitter and the status sent. `Submit` is one check (`CheckSchedule`), and `Return` is run() going back to select(). |
| `MC_MessageStore`, `MC_SMSC`, `MC_GSMTime`, `MC_SmppCodec` | model values and input sets for TLC | |

`SMSC` variables:

- `sessionSockMap[c]` is the session on descriptor slot `c`, or `NULL`. The session record holds:
  - `bindState`, `system_id`, `version`;
  - `heard` (`lastPDUFromESMETime != 0`) and `idle` (now − last PDU, capped at `IdleLimit + 1`);
  - `pending` and `pendAge` (the enquire_link marker);
  - `closing` and `closeIn` (`closingTime`).
- `mapInstance` is the store, through `Store == INSTANCE MessageStore`.
- `mux` is 0 while `main()` waits in select, or the descriptor the timeout pass is at.
- `pendingConns` counts connections in the listen backlog.
- `inbound`, `partial` and `peerClosed` are the bytes in the TCP receive buffer: whole PDUs, a
  piece of one, and the end of stream.
- `lastReply` is the response to the last PDU read. It is recorded only when the constant
  `ObserveReplies` is TRUE, because it multiplies the state space. Only `BindRespMatchesCommand`
  reads it, and no run checks that property (see below).
- History variables used only by properties:
  - `budget` and `connects`, the ESMEs' budget;
  - `nextMsg`;
  - `probed`, a session field: an enquire_link was sent since the last PDU received. It is kept only
    when `ObserveProbes` is TRUE;
  - `ledger[k]`: for message `k`, the following:
    - its owner;
    - the length of the id issued in its submit_sm_resp (`MsgIdLen` of the submitting session's
      version);
    - the time left until its requested delivery time;
    - how often it was taken;
    - the deliver_sm PDUs sent for it (`DeliverSMsFor`).

A message in the store carries `rd`, `loop` and `idlen`. When `TimedCheck` drains a message,
`GenerateReceipt` and `GenerateMO` turn it into `DeliverSM` records. A record says:
- which address of the message goes into source_addr and which into destination_addr;
- the esm_class;
- the receipted_message_id TLV: its length field (0x0041) and the bytes appended.

`SMSC` actions:

- `Run(c)` is `run()` on a readable descriptor. It has three disjuncts:
  - the closing time has passed: close;
  - a complete PDU is there: `Receive`, which dispatches to `OnBind`, `OnUnbind`, `OnOther` or
    `OnSubmit`, each with every branch of the code;
  - only part of a PDU, or the end of stream, is there: `get()` is false, so close.
- `Accept` takes the lowest free slot.
- `TimeoutBegin` is select returning 0: one time unit passes, then the pass starts.
- `TimeoutStep` is `timedCheck()` on each slot in turn: close when due; otherwise keepalive, then
  drain the due messages (`TakenDue`, `StoreAfterTaking`).
- `Tick` is time passing while descriptors stay readable.
- The ESME actions `EsmeConnect`, `EsmeSend`, `EsmeSendPart`, `EsmeSendRest`, `EsmeAnswerProbe`
  and `EsmeClose` act within a budget of PDUs and connections.

A PDU is a record of what the parse of its body yields: the command, identity, version and
whether every field is within bounds, or for a submit the schedule, destination class and
registered_delivery.

Time is relative and the constants are scaled down. `IdleLimit`, `RespLimit`, `CloseDelay` and
`Jitter` stand for 120 s, 60 s, 5 s and 3 + rand() % 10 s. An absolute schedule is only modelled
as the parse failure the code rejects (`abs_unparsed`). `GSMTime` checks the conversion and the
check on their own. `Segmented` says whether the ESMEs may split a PDU over two reads.

`GSMTime` represents a schedule string by what `sscanf` assigns from it:
- the number of fields read (`nRead`), where fields not read keep the zero of the `memset`;
- the last character.

An instant is a pair `[day, sec]`, so that years around 3900 stay within TLC's integers. `TimeGm`
is `timegm()`: the civil-day count (`DaysFromCivil`), with a month past 11 carried into the year
and a day past the month's end carried into the next month. The reference `CalendarInstant` is the
instant the spec describes. `NowFor` chooses a present `PastBy` seconds after it.

`SmppCodec` models one connection byte by byte. The ESME side puts PDUs, and the session side
gets them.

- `wire` holds the bytes sent and not yet delivered, and `rcvbuf` the bytes in the socket's
  receive buffer.
- `hdr` is `command_received_header`, including `valid`. It survives across calls.
- `body` is the body buffer, allocated once and overwritten from its start by each body.
- `open` turns FALSE when `get()` returns false: run() then returns true and main() releases the
  session.
- History for the properties:
  - `sent` and `got`: the PDUs as records;
  - `oob`: some store or copy went past its buffer;
  - `stray`: the submit parser read at or past `ptr_max`.

`SmppCodec` actions:

- `Put` is `SMPPSession::send` → `put()`. `PutFrame` builds the buffer with the four 8-byte stores
  of `endian()` results. It then copies the body, and records whether a store overran `16 + len`.
  The accepted socket is blocking, so the whole frame enters the stream.
- `Deliver` moves any number of the next bytes into the receive buffer.
- `Get` is `get()`, with three disjuncts:
  - the whole 4-byte words of a short header are consumed, so the header stays partly assigned;
  - a short body;
  - a complete PDU. For a submit_sm, the parser `SubmitParse` then walks `SubmitFields` over the
    body buffer.
- `endian()` leaves bytes 4..7 of its result uninitialised, and the heap behind the written part of
  the body buffer is uninitialised too. Both are a choice from `Junk`.
- `command_length - 16` wraps below 16 (`BodyLength`).

## 3. Runs

| Run | Cfg | Expect | Shows |
|---|---|---|---|
| store_refinement | MC_MessageStore.cfg | pass | `MessageStore` implements `Mailbox` (`MailboxRefined`, 2 identities, 2 messages, delays 1..2, ≤ 3 pending per identity) |
| smsc_handlers | MC_SMSC_handlers.cfg | pass | 1 slot, 1 connection, 4 PDUs from every handler branch: `TypeOK`; `MessageConservation` (every accepted message is in the store or was taken exactly once); `NoEarlyDelivery` (nothing taken before the requested time; RelDelays = {2} so a wait survives a pass) |
| smsc_progress | MC_SMSC_progress.cfg | pass | 2 slots, 2 connections, sessions of one identity sharing the store. `MessageConservation` holds while they put into it and drain it. `DueMessageDelivered`: with a receiver staying bound under its identity, an accepted message is eventually taken. `HeardSessionReleased`: a session silent after a PDU is eventually closed. |
| partial_read_closes | MC_SMSC_partial.cfg | violation | a PDU split over two segments closes the session |
| silent_session | MC_SMSC_silent.cfg | violation | a connection that never sends is never closed |
| emfile_livelock | MC_SMSC_emfile.cfg | violation | 1 slot, 2 connections: EMFILE keeps select busy, so the idle session is never closed |
| probe_before_unbind | MC_SMSC_probe.cfg | violation | `ProbeBeforeUnbind`: an unanswered enquire_link, then a PDU, then silence. The unbind goes out with no new enquire_link (stale marker, line 717). |
| codec_roundtrip | MC_SmppCodec_roundtrip.cfg | pass | up to 3 PDUs (generic_nack or submit_sm; bodies of 0, 1 and 4 bytes; sequence number 0x01020304, so byte order matters), split anywhere by TCP: `PduRoundTrip` (get() returns the PDUs put, in order) and `ReleasedOnlyWhenShort` (get() fails only while the next PDU is incomplete) |
| codec_bounds | MC_SmppCodec_bounds.cfg | violation | `MemoryInBounds`: the first bodiless put() stores past its 16-byte stack buffer (line 511) |
| receipt_tlv | MC_SMSC_receipt.cfg | violation | `ReceiptEchoesMessageId`: a v3.3 transmitter submits with receipt requested, unbinds, and rebinds as a v3.4 transceiver. The drain sends a receipt whose receipted_message_id TLV declares 65 bytes and carries the 9-byte v3.3 id (line 872). |
| gsm_malformed | MC_GSMTime_malformed.cfg | pass | `MalformedAbsoluteRejected`: a schedule that `sscanf` reads 0, 5 or 7 fields of is rejected for jitter 0 and 9 |
| gsm_past | MC_GSMTime_past.cfg | violation | `PastScheduleRejected`: a schedule 1 s in the past is accepted. The trace converts 250101000000000- to 3925-02-01: the year is off by 1900 and the month by one. The jitter of line 1055 alone would also accept a schedule up to 3 s late. |

The findings in PROJECT.json explain each violation. The following were seen while modelling but
have no run of their own, so that each finding keeps one violation run:
- The month carry reorders dates: 25-01-31 converts to an instant after 25-02-01. It only
  shifts when a schedule falls due, so it is kept here as an observation and not listed as a hazard.
- Unbind keeps `system_id` while `bindState` returns to BS_NONE (line 976), against the Session
  invariant of the spec. The drain in timedCheck also tests `bindState` (line 734), so the stale
  identity never drains the store; no property is checked for it, since one would restate that guard.
- Two more breaches of `MemoryInBounds`, behind the put() overflow that `codec_bounds` stops at.
  Both are confirmed with a changed cfg:
  - With `Cmds = {4}`, `Bodies <- MCSubmitBodies` and `MaxPDUs = 2`, a truncated submit_sm is
    parsed past `ptr_max` into uninitialised bytes (lines 1037-1046).
  - With `Bodies <- {<<1, 2, 3, 4>>}` and `BodyBuf = 2`, getBytes() writes a body longer than its
    buffer. The code never checks that command_length - 16 ≤ 1024 (line 558).
- A failed bind of any kind is answered with bind_transceiver_resp (line 966). To reproduce it,
  use the handlers cfg with `MaxPDUs = 2`, `ObserveReplies = TRUE` and
  `PROPERTY BindRespMatchesCommand`: the property is violated.
- generateMO copies source_addr into the MO's source_addr and destination_addr into its
  destination_addr (lines 770-779), although the code's own comments name the slots the other
  way round. Spec §4.5 says the MO goes "with source/destination swapped back toward the ESME".
  The model records the addresses as the code writes them (`GenerateMO`).
- A bind with an empty system_id stores messages that are never delivered. With `Empty` in
  `BindIds`, `DueMessageDelivered` fails.

PROJECT.json lists each of the others as a hazard.

Every property of a passing run has a mutant in PROJECT.json: a plausible bug of the mapped code,
defined next to it, that TLC must catch. The mutants are:

- a time-list appended instead of ordered;
- the deliverer erased after every get;
- the due test dropped;
- `getInstance` replacing an existing deliverer;
- no closingTime after the unbind;
- deliveries only to receivers (bound RX);
- the timeout loop running one descriptor past the last;
- `GSMStringTime` converting the fields whatever `sscanf` returned;
- command_status and sequence_number read into each other's field;
- `getInteger` assembling its bytes little-endian.

### Bounds

- One or two slots are enough to reach each case: a descriptor being reused, two sessions of one
  identity, and the descriptor table being full.
- 3 or 4 PDUs reach bind, then submit, then a receiver bind, or bind, submit, unbind and rebind.
- One identity `a` (plus `Empty`) suffices: identities never interact except through the store,
  and the run store_refinement checks two identities.
- IdleLimit = 1, RespLimit = 0 and CloseDelay = 1 keep each threshold a real wait of one or more
  passes.
- `smsc_progress` runs with `Segmented = FALSE`, because a split PDU closes the session
  (`partial_read_closes`) and adds nothing to progress. The other runs split PDUs.
- The codec sends up to 3 PDUs, which allows two whole PDUs and a third split anywhere. Their
  bodies have 0, 1 and 4 bytes. The empty body reaches the `len != 0` test and the overflow, and
  the 4-byte body is the first that put() frames without overflowing. `Junk = {0, 255}` gives the
  uninitialised bytes a zero and a non-zero value, which matters to the NUL test of
  getCOctetString. The body buffer keeps its real size of 1024.
- `receipt_tlv` has one slot and 4 PDUs, the fewest that reach the case: bind as v3.3 transmitter,
  submit, unbind, rebind as v3.4 transceiver. One slot suffices, because the store is shared by
  identity, so the same descriptor rebinding stands for any later transceiver of that identity.
- GSM time uses the following bounds:
  - years 25 and 70, covering both centuries;
  - months 1, 2 and 12, covering the carries at a month's end and a year's end;
  - days 1 and 31, and hours, seconds and offsets at both ends of their ranges;
  - `nRead` values 0, 5, 7 and 8;
  - the last characters +, - and R;
  - `PastBy` of 1 s and 13 s, where 13 s is past any jitter;
  - jitter 0 and 9, the ends of `rand() % 10`. The check is monotone in the jitter, so the ends
    suffice.

### Fairness

`WF_vars(Server)`. `main()` is one thread that blocks only in `select()`, and select returns
within a second. Whenever a descriptor is readable, a connection is pending, or the timeout pass
is running, the server eventually takes a step. The ESMEs and the clock (`Tick`) have no fairness.
The keepalive property relies on timeouts happening, and `TimeoutBegin` is the server's own step.

## 4. Plan and what is left

Next, in this order:

1. `SMSC` could take its PDUs from `SmppCodec` instead of records. This is out of TLC's reach
   together with the select loop, so the two are kept apart. `SMSC` models a read by its outcome,
   and `SmppCodec` shows what the outcome depends on.
2. The bind parser (921-929) byte by byte. It is the same `getCOctetString` walk as the submit
   parser, with `idx < ptr_max` checked before the version byte.
3. `sequence_number_out`. It is incremented for each enquire_link, unbind and deliver_sm sent,
   and no decision of the code reads it. It would only multiply the state space.

Not modelled:

- `AdminSession` closes at once.
- `ClientConfig` is constant.
- Socket I/O and logging.
- `select()` failure and fatal accept errors, which end the process.
- The random message_id.
