------------------------------ MODULE MC_SMSC ------------------------------
EXTENDS SMSC

CONSTANTS a

\* The inputs the ESMEs choose from: every branch of the bind and submit
\* handlers, with one representative of the data each branch ignores.
MCBinds ==
    [cmd : BindCmds, id : BindIds, ver : {52}, ok : BOOLEAN]
    \cup [cmd : {"BindTransceiver"}, id : BindIds, ver : {51}, ok : {TRUE}]

MCSubmits ==
    {[cmd |-> "SubmitSM", ok |-> FALSE, sched |-> [kind |-> "none"], dest |-> "Long", rd |-> TRUE],
     [cmd |-> "SubmitSM", ok |-> TRUE, sched |-> [kind |-> "abs_unparsed"], dest |-> "Long", rd |-> TRUE],
     [cmd |-> "SubmitSM", ok |-> TRUE, sched |-> [kind |-> "none"], dest |-> "333", rd |-> TRUE],
     [cmd |-> "SubmitSM", ok |-> TRUE, sched |-> [kind |-> "none"], dest |-> "Short", rd |-> TRUE]}
    \cup [cmd : {"SubmitSM"}, ok : {TRUE}, sched : [kind : {"rel"}, d : RelDelays] \cup [kind : {"none"}],
          dest : {"Long", "Loop"}, rd : BOOLEAN]

MCPDUs == MCBinds \cup MCSubmits \cup [cmd : OtherCmds]

\* Inputs for the runs about the shared store and about progress: binds
\* that succeed, submits that are accepted, and unbind.
MCFlowPDUs ==
    [cmd : BindCmds, id : BindIds, ver : {52}, ok : {TRUE}]
    \cup {[cmd |-> "SubmitSM", ok |-> TRUE, sched |-> [kind |-> "none"], dest |-> "Long", rd |-> TRUE],
          [cmd |-> "SubmitSM", ok |-> TRUE, sched |-> [kind |-> "rel", d |-> 1], dest |-> "Loop", rd |-> FALSE]}
    \cup {[cmd |-> "Unbind"]}

\* Inputs for the delivery progress run: binds that succeed and one
\* accepted submit (a receipt that is also an MO loopback).
MCLivePDUs ==
    [cmd : BindCmds, id : BindIds, ver : {52}, ok : {TRUE}]
    \cup {[cmd |-> "SubmitSM", ok |-> TRUE, sched |-> [kind |-> "none"], dest |-> "Loop", rd |-> TRUE]}

\* Inputs for the receipt run: a v3.3 transmitter and a v3.4 transceiver
\* of one identity, a submit that asks for a receipt, and unbind.
MCReceiptPDUs ==
    {[cmd |-> "BindTransmitter", id |-> a, ver |-> 51, ok |-> TRUE],
     [cmd |-> "BindTransceiver", id |-> a, ver |-> 52, ok |-> TRUE],
     [cmd |-> "SubmitSM", ok |-> TRUE, sched |-> [kind |-> "none"], dest |-> "Long", rd |-> TRUE],
     [cmd |-> "Unbind"]}

=============================================================================
