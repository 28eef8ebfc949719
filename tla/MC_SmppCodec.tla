---------------------------- MODULE MC_SmppCodec ----------------------------
EXTENDS SmppCodec

\* submit_sm (0x00000004) and enquire_link (0x00000015).
MCCmds == {4, 21}

\* 0x01020304: four different bytes, so any reordering of them shows.
MCSeqNos == {16909060}

\* No parameters (every response with status only), one byte, and a
\* four-byte block (the smallest that fills put()'s last store).
MCBodies == {<<>>, <<7>>, <<1, 2, 3, 4>>}

\* submit_sm bodies: every field present with empty strings, one byte of
\* short message; and the same body cut after destination_addr.
MCSubmitWhole == <<0, 1, 1, 0, 1, 1, 0, 0, 0, 0, 0, 0, 1, 0, 0, 0, 1, 65>>

MCSubmitBodies == {MCSubmitWhole, SubSeq(MCSubmitWhole, 1, 7)}

=============================================================================
