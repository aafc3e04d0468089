------------------------------ MODULE Ieee802154 ------------------------------
(***************************************************************************)
(* How a receiver that follows IEEE 802.15.4-2015 takes a MAC header       *)
(* apart.  src/Mac802154/MRF/FrameHeader802154.h:21-26 refers to Table 7-2 *)
(* of that standard and Mac802154MRFImplIntern.h:58-71 lists the fields in *)
(* their order; no code of the repository implements this.  The layout     *)
(* here is computed from the control field alone and shares no offset with *)
(* FrameHeader802154.c, so that it can serve as the judge of what that     *)
(* code writes.                                                            *)
(***************************************************************************)
EXTENDS Integers, FrameHeader802154

\* Table 7-2 (PAN id compression field value), frame version 0b10.
DestinationPanIdPresent(h) ==
  LET destination == h.destination_addressing_mode
      source      == h.source_addressing_mode
      compressed  == h.pan_id_compression = 1
  IN \/ destination = 0 /\ source = 0 /\ compressed
     \/ destination # 0 /\ source = 0 /\ ~compressed
     \/ destination = 3 /\ source = 3 /\ ~compressed
     \/ destination # 0 /\ source # 0 /\ ~(destination = 3 /\ source = 3)

SourcePanIdPresent(h) ==
  /\ h.source_addressing_mode # 0
  /\ h.pan_id_compression = 0
  /\ ~(h.destination_addressing_mode = 3 /\ h.source_addressing_mode = 3)

AddressLength(mode) == IF mode = 3 THEN 8 ELSE IF mode = 2 THEN 2 ELSE 0

SequenceNumberLength(h) == 1 - h.sequence_number_suppression

\* Where each field starts when the fields before it are laid end to end.
DestinationPanIdStart(h)   == 2 + SequenceNumberLength(h)
DestinationStart(h) ==
  DestinationPanIdStart(h) + (IF DestinationPanIdPresent(h) THEN 2 ELSE 0)
SourcePanIdStart(h) ==
  DestinationStart(h) + AddressLength(h.destination_addressing_mode)
SourceStart(h) ==
  SourcePanIdStart(h) + (IF SourcePanIdPresent(h) THEN 2 ELSE 0)
PayloadStart(h) == SourceStart(h) + AddressLength(h.source_addressing_mode)

Field(h, start, length) == [i \in 0 .. (length - 1) |-> h.data[start + i]]

\* What the receiver reads.
ParsedPanId(h) ==
  Field(h, DestinationPanIdStart(h), IF DestinationPanIdPresent(h) THEN 2 ELSE 0)
ParsedDestination(h) ==
  Field(h, DestinationStart(h), AddressLength(h.destination_addressing_mode))
ParsedSource(h) ==
  Field(h, SourceStart(h), AddressLength(h.source_addressing_mode))
ParsedSequenceNumber(h) == Field(h, 2, SequenceNumberLength(h))

-----------------------------------------------------------------------------
\* The headers the driver builds: a sequence number, two addresses, and PAN id
\* compression as Table 7-2 wants it for exactly one PAN id.
WellFormed(h) ==
  /\ h \in FrameHeaders
  /\ h.sequence_number_suppression = 0
  /\ h.source_addressing_mode \in
       {ADDRESSING_MODE_SHORT_ADDRESS, ADDRESSING_MODE_EXTENDED_ADDRESS}
  /\ h.destination_addressing_mode \in
       {ADDRESSING_MODE_SHORT_ADDRESS, ADDRESSING_MODE_EXTENDED_ADDRESS}
  /\ h.pan_id_compression = 0 <=>
       /\ h.source_addressing_mode = ADDRESSING_MODE_EXTENDED_ADDRESS
       /\ h.destination_addressing_mode = ADDRESSING_MODE_EXTENDED_ADDRESS

=============================================================================
