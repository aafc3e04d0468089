-------------------------- MODULE FrameHeaderSetters --------------------------
(***************************************************************************)
(* One FrameHeader802154 under any sequence of setter calls.               *)
(*                                                                         *)
(* Spec has the setters that MRFState.c calls.  The sequence number        *)
(* functions of FrameHeader802154.h are called by the unit tests only:     *)
(* InsertionSpec adds the one use of them that works, FullSpec any order.  *)
(***************************************************************************)
EXTENDS Ieee802154

CONSTANTS PanIds,             \* PAN ids a caller passes
          ShortAddresses,     \* short addresses a caller passes
          ExtendedAddresses,  \* extended addresses a caller passes
          SequenceNumbers,    \* sequence numbers a caller passes
          AdjacentBytes       \* values of the byte behind the array

ASSUME AddressAssumption ==
  /\ PanIds \subseteq PanIdBytes
  /\ ShortAddresses \subseteq ShortBytes
  /\ ExtendedAddresses \subseteq ExtendedBytes
  /\ SequenceNumbers \subseteq Byte
  /\ AdjacentBytes \subseteq Byte

VARIABLE header

Init == \E adjacent \in AdjacentBytes : header = FrameHeader802154_init(adjacent)

SetPanId(pan_id) == header' = FrameHeader802154_setPanId(header, pan_id)

SetShortDestinationAddress(address) ==
  header' = FrameHeader802154_setShortDestinationAddress(header, address)

SetExtendedDestinationAddress(address) ==
  header' = FrameHeader802154_setExtendedDestinationAddress(header, address)

SetShortSourceAddress(address) ==
  header' = FrameHeader802154_setShortSourceAddress(header, address)

SetExtendedSourceAddress(address) ==
  header' = FrameHeader802154_setExtendedSourceAddress(header, address)

EnableAcknowledgementRequest ==
  header' = FrameHeader802154_enableAcknowledgementRequest(header)

SetSequenceNumber(number) ==
  header' = FrameHeader802154_setSequenceNumber(header, number)

EnableSequenceNumberSuppression ==
  header' = FrameHeader802154_enableSequenceNumberSuppression(header)

DisableSequenceNumberSuppression ==
  header' = FrameHeader802154_disableSequenceNumberSuppression(header)

Next ==
  \/ \E pan_id \in PanIds : SetPanId(pan_id)
  \/ \E address \in ShortAddresses : SetShortDestinationAddress(address)
  \/ \E address \in ExtendedAddresses : SetExtendedDestinationAddress(address)
  \/ \E address \in ShortAddresses : SetShortSourceAddress(address)
  \/ \E address \in ExtendedAddresses : SetExtendedSourceAddress(address)
  \/ EnableAcknowledgementRequest

Spec == Init /\ [][Next]_header

\* A number goes into a header that was built without one, while its destination
\* address is extended: the only use of setSequenceNumber its moves are right for.
InsertSequenceNumber(number) ==
  /\ ~sequenceNumberIsPresent(header)
  /\ header.destination_addressing_mode = ADDRESSING_MODE_EXTENDED_ADDRESS
  /\ SetSequenceNumber(number)

InsertionInit ==
  \/ Init
  \/ \E adjacent \in AdjacentBytes :
       header = FrameHeader802154_enableSequenceNumberSuppression(
                  FrameHeader802154_init(adjacent))

InsertionNext ==
  Next \/ \E number \in SequenceNumbers : InsertSequenceNumber(number)

InsertionSpec == InsertionInit /\ [][InsertionNext]_header

FullNext ==
  \/ Next
  \/ \E number \in SequenceNumbers : SetSequenceNumber(number)
  \/ EnableSequenceNumberSuppression
  \/ DisableSequenceNumberSuppression

FullSpec == Init /\ [][FullNext]_header

-----------------------------------------------------------------------------
(* Properties of Spec.                                                     *)

\* The type invariant: every setter leaves a header, whose two addressing
\* modes are ones the driver can send (FrameHeader802154.c:240-256).
TypeOK ==
  /\ header \in FrameHeaders
  /\ header.source_addressing_mode \in
       {ADDRESSING_MODE_SHORT_ADDRESS, ADDRESSING_MODE_EXTENDED_ADDRESS}
  /\ header.destination_addressing_mode \in
       {ADDRESSING_MODE_SHORT_ADDRESS, ADDRESSING_MODE_EXTENDED_ADDRESS}

\* The size getHeaderSize computes from the control field is where a receiver
\* finds the payload, and the header fits its array.  MRFState.c writes this
\* size to the chip as the header length (FrameHeader802154.c:117-126).
HeaderSizeIsWhereThePayloadStarts ==
  /\ FrameHeader802154_getHeaderSize(header) = PayloadStart(header)
  /\ FrameHeader802154_getHeaderSize(header) <= MAXIMUM_HEADER_SIZE

\* PAN id compression is off exactly when both addresses are extended, the one
\* combination in which Table 7-2 gives an uncompressed frame a single PAN id.
\* It has to be put right by four setters that see one address each
\* (FrameHeader802154.c:128-170).
CompressionFollowsTheAddresses ==
  header.pan_id_compression = 0 <=>
    /\ header.source_addressing_mode = ADDRESSING_MODE_EXTENDED_ADDRESS
    /\ header.destination_addressing_mode = ADDRESSING_MODE_EXTENDED_ADDRESS

\* No setter writes the byte behind the array, not even when it moves an
\* extended source address (FrameHeader802154.c:285-312).
AdjacentByteIsUntouched ==
  [][header'.data[MAXIMUM_HEADER_SIZE] = header.data[MAXIMUM_HEADER_SIZE]]_header

\* Read by the standard, the header is a bundle of independent fields: a setter
\* changes its own field and no other, in any order of calls and whatever the
\* sizes of the addresses before and after (FrameHeader802154.c:112-170).
Fields == INSTANCE FrameFields WITH
  panId           <- ParsedPanId(header),
  destination     <- ParsedDestination(header),
  source          <- ParsedSource(header),
  acknowledgement <- header.acknowledgement_request

FieldsAreIndependent == Fields!Spec

-----------------------------------------------------------------------------
(* Properties of the sequence number functions.                            *)

OtherFieldsUnchanged ==
  /\ ParsedPanId(header') = ParsedPanId(header)
  /\ ParsedDestination(header') = ParsedDestination(header)
  /\ ParsedSource(header') = ParsedSource(header)

\* InsertionSpec: a number that is inserted is the one a receiver reads, and the
\* fields behind it are the ones that were set before, whatever their sizes
\* (FrameHeader802154.c:92-96, 302-324).
InsertedNumberKeepsFields ==
  [][\A number \in SequenceNumbers :
       InsertSequenceNumber(number)
         => /\ OtherFieldsUnchanged
            /\ ParsedSequenceNumber(header') = [i \in 0 .. 0 |-> number]]_header

\* Setting a sequence number keeps the other fields, in any order of calls, as
\* test_setFrameInAnyOrder (test/Mac802154Header_Test.c:378) says of the setters.
\* The code breaks it: it moves the fields even if there was a number already.
SequenceNumberKeepsFields ==
  [][\A number \in SequenceNumbers :
       SetSequenceNumber(number) => OtherFieldsUnchanged]_header

=============================================================================
