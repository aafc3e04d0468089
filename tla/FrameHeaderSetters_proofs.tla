---------------------- MODULE FrameHeaderSetters_proofs ----------------------
(***************************************************************************)
(* The properties of FrameHeaderSetters for all PAN ids, addresses and      *)
(* numbers and all calls of the setters.  They are proved of InsertionSpec, *)
(* whose headers may lack a sequence number and get one later; Spec, whose  *)
(* headers have one, is a part of it.  Addressable is the inductive         *)
(* invariant; the lemmas of Frames_proofs say what each setter does to it.  *)
(***************************************************************************)
EXTENDS FrameHeaderSetters, Frames_proofs

Invariant == Addressable(header)

\* What a step of the setters does, in terms of the fields a receiver reads.
StepEffect ==
  /\ Addressable(header')
  /\ header'.data[MAXIMUM_HEADER_SIZE] = header.data[MAXIMUM_HEADER_SIZE]
  /\ [Fields!Next]_(Fields!fields)

\* Every setter keeps the two addresses and the number, if there is one, leaves the byte behind the array
\* alone and is an action of FrameFields (FrameHeader802154.c:112-170, 259-261).
LEMMA NextEffect ==
  ASSUME Invariant, Next
  PROVE  StepEffect /\ Keeps(header', header)
<1> USE AddressAssumption
<1>1. ASSUME NEW pan_id \in PanIds, SetPanId(pan_id)
      PROVE  StepEffect /\ Keeps(header', header)
  <2>1. Keeps(header', header) /\ ParsedPanId(header') = pan_id
          /\ OthersThanPanId(header', header)
    BY <1>1, SetPanIdEffect DEF Invariant, SetPanId
  <2>2. Fields!SetPanId
    BY <2>1 DEF Fields!SetPanId, OthersThanPanId
  <2> QED BY <2>1, <2>2 DEF StepEffect, Keeps, Fields!Next, OthersThanPanId
<1>2. ASSUME NEW address \in ShortAddresses, SetShortDestinationAddress(address)
      PROVE  StepEffect /\ Keeps(header', header)
  <2>1. Keeps(header', header) /\ ParsedDestination(header') = address
          /\ OthersThanDestination(header', header)
    BY <1>2, SetShortDestinationAddressEffect DEF Invariant, SetShortDestinationAddress
  <2>2. Fields!SetDestination
    BY <2>1 DEF Fields!SetDestination, OthersThanDestination
  <2> QED BY <2>1, <2>2 DEF StepEffect, Keeps, Fields!Next, OthersThanDestination
<1>3. ASSUME NEW address \in ExtendedAddresses, SetExtendedDestinationAddress(address)
      PROVE  StepEffect /\ Keeps(header', header)
  <2>1. Keeps(header', header) /\ ParsedDestination(header') = address
          /\ OthersThanDestination(header', header)
    BY <1>3, SetExtendedDestinationAddressEffect DEF Invariant, SetExtendedDestinationAddress
  <2>2. Fields!SetDestination
    BY <2>1 DEF Fields!SetDestination, OthersThanDestination
  <2> QED BY <2>1, <2>2 DEF StepEffect, Keeps, Fields!Next, OthersThanDestination
<1>4. ASSUME NEW address \in ShortAddresses, SetShortSourceAddress(address)
      PROVE  StepEffect /\ Keeps(header', header)
  <2>1. Keeps(header', header) /\ ParsedSource(header') = address
          /\ OthersThanSource(header', header)
    BY <1>4, SetShortSourceAddressEffect DEF Invariant, SetShortSourceAddress
  <2>2. Fields!SetSource
    BY <2>1 DEF Fields!SetSource, OthersThanSource
  <2> QED BY <2>1, <2>2 DEF StepEffect, Keeps, Fields!Next, OthersThanSource
<1>5. ASSUME NEW address \in ExtendedAddresses, SetExtendedSourceAddress(address)
      PROVE  StepEffect /\ Keeps(header', header)
  <2>1. Keeps(header', header) /\ ParsedSource(header') = address
          /\ OthersThanSource(header', header)
    BY <1>5, SetExtendedSourceAddressEffect DEF Invariant, SetExtendedSourceAddress
  <2>2. Fields!SetSource
    BY <2>1 DEF Fields!SetSource, OthersThanSource
  <2> QED BY <2>1, <2>2 DEF StepEffect, Keeps, Fields!Next, OthersThanSource
<1>6. ASSUME EnableAcknowledgementRequest
      PROVE  StepEffect /\ Keeps(header', header)
  <2>1. /\ Keeps(header', header)
        /\ header'.acknowledgement_request = 1
        /\ ParsedPanId(header') = ParsedPanId(header)
        /\ ParsedDestination(header') = ParsedDestination(header)
        /\ ParsedSource(header') = ParsedSource(header)
        /\ header'.data[MAXIMUM_HEADER_SIZE] = header.data[MAXIMUM_HEADER_SIZE]
    BY <1>6, EnableAcknowledgementEffect DEF Invariant, EnableAcknowledgementRequest
  <2>2. Fields!RequestAcknowledgement
    BY <2>1 DEF Fields!RequestAcknowledgement
  <2> QED BY <2>1, <2>2 DEF StepEffect, Keeps, Fields!Next
<1> QED BY <1>1, <1>2, <1>3, <1>4, <1>5, <1>6 DEF Next

\* Inserting a sequence number changes none of the fields a receiver reads, which for
\* FrameFields is a stutter (FrameHeader802154.c:92-96, 302-324).
LEMMA InsertionEffect ==
  ASSUME Invariant, NEW number \in SequenceNumbers, InsertSequenceNumber(number)
  PROVE  /\ StepEffect
         /\ OtherFieldsUnchanged
         /\ ParsedSequenceNumber(header') = [i \in 0 .. 0 |-> number]
<1>1. /\ header.sequence_number_suppression = 1
      /\ header.destination_addressing_mode = 3
      /\ number \in Byte
  BY AddressAssumption, Modes
  DEF Invariant, InsertSequenceNumber, sequenceNumberIsPresent, ADDRESSING_MODE_EXTENDED_ADDRESS
<1>2. /\ Addressable(header')
      /\ ParsedSequenceNumber(header') = [i \in 0 .. 0 |-> number]
      /\ OtherFieldsUnchanged
      /\ header'.acknowledgement_request = header.acknowledgement_request
      /\ header'.data[MAXIMUM_HEADER_SIZE] = header.data[MAXIMUM_HEADER_SIZE]
  BY <1>1, InsertNumberEffect
  DEF Invariant, InsertSequenceNumber, SetSequenceNumber, OtherFieldsUnchanged
<1>3. UNCHANGED Fields!fields
  BY <1>2 DEF Fields!fields, OtherFieldsUnchanged
<1> QED BY <1>2, <1>3 DEF StepEffect

LEMMA InsertionNextEffect ==
  ASSUME Invariant, InsertionNext
  PROVE  StepEffect
BY NextEffect, InsertionEffect DEF InsertionNext

LEMMA InitEffect == Init => WellFormed(header) /\ Fields!Init
<1> SUFFICES ASSUME NEW adjacent \in AdjacentBytes,
                    header = FrameHeader802154_init(adjacent)
             PROVE  WellFormed(header) /\ Fields!Init
  BY DEF Init
<1>1. adjacent \in Byte
  BY AddressAssumption
<1> QED BY <1>1, InitLemma DEF Fields!Init, Fields!Unset

\* Without a number the fields lie one byte further left, where init wrote zeros, too.
LEMMA InsertionInitEffect == InsertionInit => Invariant /\ Fields!Init
<1>1. ASSUME Init
      PROVE  Invariant /\ Fields!Init
  BY <1>1, InitEffect, WellFormedIsAddressable DEF Invariant
<1>2. ASSUME NEW adjacent \in AdjacentBytes,
             header = FrameHeader802154_enableSequenceNumberSuppression(
                        FrameHeader802154_init(adjacent))
      PROVE  Invariant /\ Fields!Init
  <2> DEFINE g == FrameHeader802154_init(adjacent)
  <2>1. WellFormed(g)
    BY AddressAssumption, InitLemma
  <2>2. /\ g.source_addressing_mode = 2
        /\ g.destination_addressing_mode = 2
        /\ g.acknowledgement_request = 0
        /\ \A i \in 2 .. 20 : g.data[i] = 0
    BY DEF FrameHeader802154_init, ADDRESSING_MODE_SHORT_ADDRESS, HeaderIndex,
           MAXIMUM_HEADER_SIZE
  <2>3. header = [g EXCEPT !.sequence_number_suppression = 1]
    BY <1>2 DEF FrameHeader802154_enableSequenceNumberSuppression
  <2> HIDE DEF g
  <2>4. Addressable(header)
    BY <2>1, <2>3 DEF WellFormed, Addressable, FrameHeaders, Bit
  <2>5. /\ header.source_addressing_mode = 2
        /\ header.destination_addressing_mode = 2
        /\ header.acknowledgement_request = 0
        /\ \A i \in 2 .. 20 : header.data[i] = 0
    BY <2>1, <2>2, <2>3 DEF WellFormed, FrameHeaders
  <2>6. /\ DestinationPanIdPresent(header)
        /\ DestinationPanIdStart(header) \in {2, 3}
        /\ DestinationStart(header) \in {4, 5}
        /\ SourceStart(header) \in {6, 7}
        /\ AddressLength(header.destination_addressing_mode) = 2
        /\ AddressLength(header.source_addressing_mode) = 2
    <3>1. AddressLength(2) = 2
      BY DEF AddressLength
    <3> QED BY <2>4, <2>5, <3>1, AddressableLayout
  <2>7. /\ ParsedPanId(header) = [i \in 0 .. 1 |-> 0]
        /\ ParsedDestination(header) = [i \in 0 .. 1 |-> 0]
        /\ ParsedSource(header) = [i \in 0 .. 1 |-> 0]
    BY <2>5, <2>6 DEF ParsedPanId, ParsedDestination, ParsedSource, Field
  <2> QED BY <2>4, <2>5, <2>7 DEF Invariant, Fields!Init, Fields!Unset
<1> QED BY <1>1, <1>2 DEF InsertionInit

\* The headers the setters build always have two addresses, whose modes the
\* compression bit fits (FrameHeader802154.c:72-82, 92-96, 112-170).
THEOREM HeaderIsAddressable == InsertionSpec => []Invariant
<1>1. InsertionInit => Invariant
  BY InsertionInitEffect
<1>2. Invariant /\ [InsertionNext]_header => Invariant'
  BY InsertionNextEffect DEF Invariant, StepEffect
<1> QED BY <1>1, <1>2, PTL DEF InsertionSpec

\* The calls the driver makes are among those of InsertionSpec, so that what is
\* proved of InsertionSpec holds of Spec (MRFState.c:5-49, 124).
THEOREM SettersAreAPart == Spec => InsertionSpec
<1>1. Init => InsertionInit
  BY DEF InsertionInit
<1>2. [Next]_header => [InsertionNext]_header
  BY DEF InsertionNext
<1> QED BY <1>1, <1>2, PTL DEF Spec, InsertionSpec

\* The headers the driver builds have a sequence number from init on, which no
\* setter takes away (FrameHeader802154.c:72-82, 112-170).
THEOREM HeaderIsWellFormed == Spec => []WellFormed(header)
<1>1. Init => WellFormed(header)
  BY InitEffect
<1>2. WellFormed(header) /\ [Next]_header => WellFormed(header)'
  BY NextEffect, WellFormedIsAddressable DEF Invariant, Keeps
<1> QED BY <1>1, <1>2, PTL DEF Spec

\* The type invariant (FrameHeader802154.c:240-256).
THEOREM TypeCorrect == InsertionSpec => []TypeOK
<1>1. Invariant => TypeOK
  BY DEF Invariant, Addressable, TypeOK
<1> QED BY <1>1, HeaderIsAddressable, PTL

\* Compression is off exactly for two extended addresses
\* (FrameHeader802154.c:128-170).
THEOREM CompressionCorrect == InsertionSpec => []CompressionFollowsTheAddresses
<1>1. Invariant => CompressionFollowsTheAddresses
  BY DEF Invariant, Addressable, CompressionFollowsTheAddresses
<1> QED BY <1>1, HeaderIsAddressable, PTL

\* getHeaderSize is where a receiver finds the payload, within the array, with and
\* without a sequence number (FrameHeader802154.c:117-126).
THEOREM HeaderSizeCorrect == InsertionSpec => []HeaderSizeIsWhereThePayloadStarts
<1>1. Invariant => HeaderSizeIsWhereThePayloadStarts
  BY AddressableLayout
  DEF Invariant, HeaderSizeIsWhereThePayloadStarts, MAXIMUM_HEADER_SIZE
<1> QED BY <1>1, HeaderIsAddressable, PTL

\* Neither a setter nor the insertion of a number writes behind the array
\* (FrameHeader802154.c:285-324).
THEOREM NoOverrun == InsertionSpec => AdjacentByteIsUntouched
<1>1. Invariant /\ [InsertionNext]_header =>
        [header'.data[MAXIMUM_HEADER_SIZE] = header.data[MAXIMUM_HEADER_SIZE]]_header
  BY InsertionNextEffect DEF StepEffect
<1> QED BY <1>1, HeaderIsAddressable, PTL DEF InsertionSpec, AdjacentByteIsUntouched

\* The setters implement independent fields: read by the standard, every step is
\* a step of FrameFields or changes nothing (FrameHeader802154.c:112-170).
THEOREM SettersImplementFields == InsertionSpec => FieldsAreIndependent
<1>1. InsertionInit => Fields!Init
  BY InsertionInitEffect
<1>2. Invariant /\ [InsertionNext]_header => [Fields!Next]_(Fields!fields)
  <2>1. CASE InsertionNext
    BY <2>1, InsertionNextEffect DEF StepEffect
  <2>2. CASE UNCHANGED header
    BY <2>2 DEF Fields!fields
  <2> QED BY <2>1, <2>2
<1> QED BY <1>1, <1>2, HeaderIsAddressable, PTL
    DEF InsertionSpec, FieldsAreIndependent, Fields!Spec

\* A number that is inserted is the one a receiver reads, and the fields behind it are
\* the ones that were set before (FrameHeader802154.c:92-96, 302-324).
THEOREM InsertionKeepsFields == InsertionSpec => InsertedNumberKeepsFields
<1> DEFINE Kept == \A number \in SequenceNumbers :
              InsertSequenceNumber(number)
                => /\ OtherFieldsUnchanged
                   /\ ParsedSequenceNumber(header') = [i \in 0 .. 0 |-> number]
<1>1. Invariant /\ [InsertionNext]_header => [Kept]_header
  BY InsertionEffect
<1> QED BY <1>1, HeaderIsAddressable, PTL DEF InsertionSpec, InsertedNumberKeepsFields

=============================================================================
