--------------------------- MODULE Frames_proofs ----------------------------
(***************************************************************************)
(* What each setter of FrameHeader802154.c does to a well-formed header,   *)
(* and what the functions of MRFState.c do to a MrfState, for all          *)
(* addresses, PAN ids, payloads, lengths and contents of the array.  The   *)
(* proofs about the modules that use headers cite these lemmas and never   *)
(* look into the array again.                                              *)
(***************************************************************************)
EXTENDS MrfState, Inspection, TLAPS

-----------------------------------------------------------------------------
(* The header.                                                             *)

\* copyBytes writes bytes into an array of bytes.
LEMMA CopyType ==
  ASSUME NEW data \in [HeaderIndex -> Byte], NEW first \in Int, NEW size \in Int,
         NEW bytes, \A k \in 0 .. (size - 1) : bytes[k] \in Byte
  PROVE  BitManipulation_copyBytes(bytes, data, first, size) \in [HeaderIndex -> Byte]
BY DEF BitManipulation_copyBytes, HeaderIndex, MAXIMUM_HEADER_SIZE

\* Moving bytes that lie inside the array leaves an array of bytes.
LEMMA MoveType ==
  ASSUME NEW data \in [HeaderIndex -> Byte], NEW first \in Int, NEW size \in Int,
         NEW distance \in Int, first >= 2, first + size - 1 <= MAXIMUM_HEADER_SIZE
  PROVE  moveBytes(data, first, size, distance) \in [HeaderIndex -> Byte]
BY DEF moveBytes, HeaderIndex, MAXIMUM_HEADER_SIZE

\* A header with two addresses, with or without a sequence number.  The headers the
\* driver builds are those with one.
Addressable(h) ==
  /\ h \in FrameHeaders
  /\ h.source_addressing_mode \in
       {ADDRESSING_MODE_SHORT_ADDRESS, ADDRESSING_MODE_EXTENDED_ADDRESS}
  /\ h.destination_addressing_mode \in
       {ADDRESSING_MODE_SHORT_ADDRESS, ADDRESSING_MODE_EXTENDED_ADDRESS}
  /\ h.pan_id_compression = 0 <=>
       /\ h.source_addressing_mode = ADDRESSING_MODE_EXTENDED_ADDRESS
       /\ h.destination_addressing_mode = ADDRESSING_MODE_EXTENDED_ADDRESS

LEMMA WellFormedIsAddressable ==
  ASSUME NEW h
  PROVE  WellFormed(h) <=> Addressable(h) /\ h.sequence_number_suppression = 0
BY DEF WellFormed, Addressable

\* The layout of a header with two addresses: the offsets of the C code, the
\* positions of the standard, and one size for both.
LEMMA AddressableLayout ==
  ASSUME NEW h, Addressable(h)
  PROVE  LET panId == getPanIdOffset(h)
         IN /\ panId = 3 - h.sequence_number_suppression
            /\ panId \in {2, 3}
            /\ DestinationPanIdStart(h) = panId
            /\ DestinationPanIdPresent(h)
            /\ ~SourcePanIdPresent(h)
            /\ FrameHeader802154_getDestinationAddressOffset(h) = panId + 2
            /\ DestinationStart(h) = panId + 2
            /\ AddressLength(h.destination_addressing_mode) \in {2, 8}
            /\ AddressLength(h.source_addressing_mode) \in {2, 8}
            /\ FrameHeader802154_getSourceAddressOffset(h)
                 = panId + 2 + AddressLength(h.destination_addressing_mode)
            /\ SourceStart(h) = panId + 2 + AddressLength(h.destination_addressing_mode)
            /\ FrameHeader802154_getSourceAddressSize(h)
                 = AddressLength(h.source_addressing_mode)
            /\ FrameHeader802154_getHeaderSize(h) = PayloadStart(h)
            /\ PayloadStart(h) = panId + 2 + AddressLength(h.destination_addressing_mode)
                                           + AddressLength(h.source_addressing_mode)
BY DEF Addressable, FrameHeaders, Bit, AddressingMode, getPanIdOffset,
       FrameHeader802154_getSequenceNumberSize, sequenceNumberIsPresent,
       control_field_size, pan_id_size, panIdIsPresent,
       FrameHeader802154_getPanIdSize, FrameHeader802154_getSourceAddressSize,
       FrameHeader802154_getDestinationAddressSize, getAddressSize,
       FrameHeader802154_getHeaderSize, ADDRESSING_MODE_SHORT_ADDRESS,
       ADDRESSING_MODE_EXTENDED_ADDRESS,
       FrameHeader802154_getDestinationAddressOffset,
       FrameHeader802154_getSourceAddressOffset, DestinationPanIdStart,
       DestinationStart, SourcePanIdStart, SourceStart, PayloadStart,
       DestinationPanIdPresent, SourcePanIdPresent, AddressLength,
       SequenceNumberLength

\* The layout of a well-formed header.
LEMMA Layout ==
  ASSUME NEW h, WellFormed(h)
  PROVE  /\ getPanIdOffset(h) = 3
         /\ DestinationPanIdStart(h) = 3
         /\ DestinationPanIdPresent(h)
         /\ ~SourcePanIdPresent(h)
         /\ FrameHeader802154_getDestinationAddressOffset(h) = 5
         /\ DestinationStart(h) = 5
         /\ AddressLength(h.destination_addressing_mode) \in {2, 8}
         /\ AddressLength(h.source_addressing_mode) \in {2, 8}
         /\ FrameHeader802154_getSourceAddressOffset(h)
              = 5 + AddressLength(h.destination_addressing_mode)
         /\ SourceStart(h) = 5 + AddressLength(h.destination_addressing_mode)
         /\ FrameHeader802154_getSourceAddressSize(h)
              = AddressLength(h.source_addressing_mode)
         /\ FrameHeader802154_getHeaderSize(h) = PayloadStart(h)
         /\ PayloadStart(h) = 5 + AddressLength(h.destination_addressing_mode)
                                + AddressLength(h.source_addressing_mode)
BY AddressableLayout, WellFormedIsAddressable

\* The modes of a header with two addresses.
LEMMA Modes ==
  ASSUME NEW h, Addressable(h)
  PROVE  /\ h.source_addressing_mode \in {2, 3}
         /\ h.destination_addressing_mode \in {2, 3}
         /\ h.pan_id_compression \in {0, 1}
         /\ h.sequence_number_suppression \in {0, 1}
         /\ h.pan_id_compression = 0 <=>
               h.source_addressing_mode = 3 /\ h.destination_addressing_mode = 3
         /\ h.data \in [HeaderIndex -> Byte]
BY DEF Addressable, FrameHeaders, Bit, ADDRESSING_MODE_SHORT_ADDRESS,
       ADDRESSING_MODE_EXTENDED_ADDRESS

-----------------------------------------------------------------------------
(* The setters.  Each lemma ...Effect says that the result has two         *)
(* addresses, and a number if there was one, which field changed, and that *)
(* the byte behind the array did not.                                      *)

Keeps(g, h) ==
  /\ Addressable(g)
  /\ g.sequence_number_suppression = h.sequence_number_suppression

OthersThanPanId(g, h) ==
  /\ ParsedDestination(g) = ParsedDestination(h)
  /\ ParsedSource(g) = ParsedSource(h)
  /\ g.acknowledgement_request = h.acknowledgement_request
  /\ g.data[MAXIMUM_HEADER_SIZE] = h.data[MAXIMUM_HEADER_SIZE]

OthersThanDestination(g, h) ==
  /\ ParsedPanId(g) = ParsedPanId(h)
  /\ ParsedSource(g) = ParsedSource(h)
  /\ g.acknowledgement_request = h.acknowledgement_request
  /\ g.data[MAXIMUM_HEADER_SIZE] = h.data[MAXIMUM_HEADER_SIZE]

OthersThanSource(g, h) ==
  /\ ParsedPanId(g) = ParsedPanId(h)
  /\ ParsedDestination(g) = ParsedDestination(h)
  /\ g.acknowledgement_request = h.acknowledgement_request
  /\ g.data[MAXIMUM_HEADER_SIZE] = h.data[MAXIMUM_HEADER_SIZE]

LEMMA InitLemma ==
  ASSUME NEW adjacent \in Byte
  PROVE  LET g == FrameHeader802154_init(adjacent)
             zeros == [i \in 0 .. 1 |-> 0]
         IN /\ WellFormed(g)
            /\ ParsedPanId(g) = zeros
            /\ ParsedDestination(g) = zeros
            /\ ParsedSource(g) = zeros
            /\ g.acknowledgement_request = 0
<1> DEFINE g == FrameHeader802154_init(adjacent)
<1>1. 0 \in Byte /\ 0 \in Bit /\ 1 \in Bit /\ 2 \in AddressingMode
  BY DEF Byte, Bit, AddressingMode
<1>2. WellFormed(g)
  BY <1>1 DEF FrameHeader802154_init, WellFormed, FrameHeaders,
       ADDRESSING_MODE_SHORT_ADDRESS, ADDRESSING_MODE_EXTENDED_ADDRESS
<1>3. /\ g.source_addressing_mode = 2
      /\ g.destination_addressing_mode = 2
      /\ g.acknowledgement_request = 0
      /\ \A i \in 2 .. 20 : g.data[i] = 0
  BY DEF FrameHeader802154_init, ADDRESSING_MODE_SHORT_ADDRESS, HeaderIndex,
         MAXIMUM_HEADER_SIZE
<1> HIDE DEF g
<1>4. /\ ParsedPanId(g) = [i \in 0 .. 1 |-> 0]
      /\ ParsedDestination(g) = [i \in 0 .. 1 |-> 0]
      /\ ParsedSource(g) = [i \in 0 .. 1 |-> 0]
  BY <1>2, <1>3, Layout
  DEF ParsedPanId, ParsedDestination, ParsedSource, Field, AddressLength
<1> QED BY <1>2, <1>3, <1>4 DEF g

\* A header that keeps its number, or that it has none, keeps the places of its fields
\* as far as the addresses keep their sizes.
LEMMA Places ==
  ASSUME NEW h, Addressable(h), NEW g, Keeps(g, h)
  PROVE  /\ DestinationPanIdStart(h) \in {2, 3}
         /\ DestinationPanIdStart(g) = DestinationPanIdStart(h)
         /\ DestinationPanIdPresent(h) /\ DestinationPanIdPresent(g)
         /\ DestinationStart(h) = DestinationPanIdStart(h) + 2
         /\ DestinationStart(g) = DestinationStart(h)
         /\ AddressLength(h.destination_addressing_mode) \in {2, 8}
         /\ AddressLength(h.source_addressing_mode) \in {2, 8}
         /\ SourceStart(h) = DestinationStart(h) + AddressLength(h.destination_addressing_mode)
         /\ SourceStart(g) = DestinationStart(h) + AddressLength(g.destination_addressing_mode)
BY AddressableLayout DEF Keeps

LEMMA SetPanIdEffect ==
  ASSUME NEW h, Addressable(h), NEW pan_id \in PanIdBytes
  PROVE  LET g == FrameHeader802154_setPanId(h, pan_id)
         IN Keeps(g, h) /\ ParsedPanId(g) = pan_id /\ OthersThanPanId(g, h)
<1> DEFINE g == FrameHeader802154_setPanId(h, pan_id)
           panId == getPanIdOffset(h)
<1>0. panId = 3 - h.sequence_number_suppression /\ panId \in {2, 3}
  BY AddressableLayout
<1> HIDE DEF panId
<1>1. g = [h EXCEPT !.data = [h.data EXCEPT ![panId] = pan_id[0], ![panId + 1] = pan_id[1]]]
  BY DEF FrameHeader802154_setPanId, panId
<1>2. h.data \in [HeaderIndex -> Byte] /\ panId \in HeaderIndex /\ panId + 1 \in HeaderIndex
  BY <1>0, Modes DEF HeaderIndex, MAXIMUM_HEADER_SIZE
<1>3. pan_id[0] \in Byte /\ pan_id[1] \in Byte
  BY DEF PanIdBytes
<1>4. Keeps(g, h)
  BY <1>1, <1>2, <1>3 DEF Keeps, Addressable, FrameHeaders
<1>5. /\ g.destination_addressing_mode = h.destination_addressing_mode
      /\ g.source_addressing_mode = h.source_addressing_mode
      /\ g.acknowledgement_request = h.acknowledgement_request
      /\ g.data = [h.data EXCEPT ![panId] = pan_id[0], ![panId + 1] = pan_id[1]]
  BY <1>1 DEF Addressable, FrameHeaders
<1> HIDE DEF g
<1>6. /\ DestinationPanIdStart(g) = panId
      /\ DestinationPanIdPresent(g)
      /\ DestinationStart(g) = DestinationStart(h)
      /\ SourceStart(g) = SourceStart(h)
      /\ DestinationStart(h) >= panId + 2
      /\ SourceStart(h) >= panId + 2
      /\ DestinationStart(h) \in 2 .. 5
      /\ SourceStart(h) \in 2 .. 13
      /\ AddressLength(h.destination_addressing_mode) \in {2, 8}
      /\ AddressLength(h.source_addressing_mode) \in {2, 8}
  BY <1>0, <1>4, <1>5, AddressableLayout DEF Keeps, panId
<1>7. ParsedPanId(g) = pan_id
  BY <1>0, <1>2, <1>5, <1>6 DEF ParsedPanId, Field, PanIdBytes
<1>8. OthersThanPanId(g, h)
  <2>1. \A i \in HeaderIndex : i >= panId + 2 => g.data[i] = h.data[i]
    BY <1>0, <1>2, <1>5 DEF HeaderIndex, MAXIMUM_HEADER_SIZE
  <2>2. ParsedDestination(g) = ParsedDestination(h)
    BY <1>0, <1>5, <1>6, <2>1
    DEF ParsedDestination, Field, HeaderIndex, MAXIMUM_HEADER_SIZE
  <2>3. ParsedSource(g) = ParsedSource(h)
    BY <1>0, <1>5, <1>6, <2>1 DEF ParsedSource, Field, HeaderIndex, MAXIMUM_HEADER_SIZE
  <2> QED BY <1>0, <1>5, <2>1, <2>2, <2>3
      DEF OthersThanPanId, HeaderIndex, MAXIMUM_HEADER_SIZE
<1> QED BY <1>4, <1>7, <1>8 DEF g

Rebuild(h, bytes, compression, source, destination) ==
  [h EXCEPT !.data = bytes,
            !.pan_id_compression = compression,
            !.source_addressing_mode = source,
            !.destination_addressing_mode = destination]

CompressionFits(compression, source, destination) ==
  /\ compression \in {0, 1}
  /\ source \in {2, 3}
  /\ destination \in {2, 3}
  /\ compression = 0 <=> source = 3 /\ destination = 3

\* A header with two addresses whose array, addressing modes and compression bit are
\* replaced still has two if the compression bit fits the modes.
LEMMA Rebuilt ==
  ASSUME NEW h, Addressable(h), NEW bytes \in [HeaderIndex -> Byte],
         NEW compression, NEW source, NEW destination,
         CompressionFits(compression, source, destination)
  PROVE  LET g == Rebuild(h, bytes, compression, source, destination)
         IN /\ Keeps(g, h)
            /\ g.data = bytes
            /\ g.source_addressing_mode = source
            /\ g.destination_addressing_mode = destination
            /\ g.acknowledgement_request = h.acknowledgement_request
<1> DEFINE g == Rebuild(h, bytes, compression, source, destination)
<1>1. source \in AddressingMode /\ destination \in AddressingMode /\ compression \in Bit
  BY DEF CompressionFits, Bit, AddressingMode
<1>2. g \in FrameHeaders
  BY <1>1 DEF Rebuild, Addressable, FrameHeaders
<1>3. /\ g.data = bytes
      /\ g.source_addressing_mode = source
      /\ g.destination_addressing_mode = destination
      /\ g.pan_id_compression = compression
      /\ g.sequence_number_suppression = h.sequence_number_suppression
      /\ g.acknowledgement_request = h.acknowledgement_request
  BY DEF Rebuild, Addressable, FrameHeaders
<1> HIDE DEF g
<1>4. Keeps(g, h)
  BY <1>2, <1>3 DEF CompressionFits, Keeps, Addressable, ADDRESSING_MODE_SHORT_ADDRESS,
                    ADDRESSING_MODE_EXTENDED_ADDRESS
<1> QED BY <1>3, <1>4 DEF g

LEMMA SetShortSourceAddressEffect ==
  ASSUME NEW h, Addressable(h), NEW address \in ShortBytes
  PROVE  LET g == FrameHeader802154_setShortSourceAddress(h, address)
         IN Keeps(g, h) /\ ParsedSource(g) = address /\ OthersThanSource(g, h)
<1> DEFINE g == FrameHeader802154_setShortSourceAddress(h, address)
           start == FrameHeader802154_getSourceAddressOffset(h)
<1>1. /\ start \in {6, 7, 12, 13}
      /\ start = SourceStart(h)
  BY AddressableLayout
<1> HIDE DEF start
<1> DEFINE bytes == BitManipulation_copyBytes(address, h.data, start, 2)
<1>2. g = Rebuild(h, bytes, 1, 2, h.destination_addressing_mode)
  BY DEF Rebuild, FrameHeader802154_setShortSourceAddress, start, ADDRESSING_MODE_SHORT_ADDRESS,
         ADDRESSING_MODE_EXTENDED_ADDRESS, Addressable, FrameHeaders
<1>3. bytes \in [HeaderIndex -> Byte]
  <2>1. \A k \in 0 .. (2 - 1) : address[k] \in Byte
    BY DEF ShortBytes
  <2> QED BY <1>1, <2>1, CopyType, Modes
<1> HIDE DEF g, bytes
<1>4. /\ Keeps(g, h)
      /\ g.data = bytes
      /\ g.source_addressing_mode = 2
      /\ g.destination_addressing_mode = h.destination_addressing_mode
      /\ g.acknowledgement_request = h.acknowledgement_request
  <2>1. CompressionFits(1, 2, h.destination_addressing_mode)
    BY Modes DEF CompressionFits
  <2> QED BY <1>2, <1>3, <2>1, Rebuilt
<1>5. AddressLength(g.source_addressing_mode) = 2
  BY <1>4 DEF AddressLength
<1>6. \A i \in HeaderIndex : g.data[i] =
        IF i = start THEN address[0] ELSE IF i = start + 1 THEN address[1] ELSE h.data[i]
  BY <1>1, <1>4, Modes
  DEF bytes, BitManipulation_copyBytes, HeaderIndex, MAXIMUM_HEADER_SIZE
<1>7. SourceStart(g) = start
  BY <1>1, <1>4, Places
<1>8. ParsedSource(g) = address
  BY <1>1, <1>5, <1>6, <1>7
  DEF ParsedSource, Field, ShortBytes, HeaderIndex, MAXIMUM_HEADER_SIZE
<1>9. OthersThanSource(g, h)
  <2>1. \A i \in 2 .. 21 : i < start \/ i = 21 => g.data[i] = h.data[i]
    BY <1>1, <1>6 DEF HeaderIndex, MAXIMUM_HEADER_SIZE
  <2>2. ParsedPanId(g) = ParsedPanId(h)
    BY <1>1, <1>4, <2>1, Places DEF ParsedPanId, Field
  <2>3. ParsedDestination(g) = ParsedDestination(h)
    BY <1>1, <1>4, <2>1, Places DEF ParsedDestination, Field
  <2> QED BY <1>4, <2>1, <2>2, <2>3 DEF OthersThanSource, MAXIMUM_HEADER_SIZE
<1> QED BY <1>4, <1>8, <1>9 DEF g

LEMMA SetExtendedSourceAddressEffect ==
  ASSUME NEW h, Addressable(h), NEW address \in ExtendedBytes
  PROVE  LET g == FrameHeader802154_setExtendedSourceAddress(h, address)
         IN Keeps(g, h) /\ ParsedSource(g) = address /\ OthersThanSource(g, h)
<1> DEFINE g == FrameHeader802154_setExtendedSourceAddress(h, address)
           start == FrameHeader802154_getSourceAddressOffset(h)
           compression == IF h.destination_addressing_mode = 3
                            THEN 0 ELSE h.pan_id_compression
<1>1. /\ start \in {6, 7, 12, 13}
      /\ start = SourceStart(h)
  BY AddressableLayout
<1> HIDE DEF start
<1> DEFINE bytes == BitManipulation_copyBytes(address, h.data, start, 8)
<1>2. g = Rebuild(h, bytes, compression, 3, h.destination_addressing_mode)
  BY DEF Rebuild, FrameHeader802154_setExtendedSourceAddress, start,
         ADDRESSING_MODE_EXTENDED_ADDRESS, Addressable, FrameHeaders
<1>3. bytes \in [HeaderIndex -> Byte]
  <2>1. \A k \in 0 .. (8 - 1) : address[k] \in Byte
    BY DEF ExtendedBytes
  <2> QED BY <1>1, <2>1, CopyType, Modes
<1> HIDE DEF g, bytes
<1>4. /\ Keeps(g, h)
      /\ g.data = bytes
      /\ g.source_addressing_mode = 3
      /\ g.destination_addressing_mode = h.destination_addressing_mode
      /\ g.acknowledgement_request = h.acknowledgement_request
  <2>1. CompressionFits(compression, 3, h.destination_addressing_mode)
    BY Modes DEF CompressionFits
  <2> HIDE DEF compression
  <2> QED BY <1>2, <1>3, <2>1, Rebuilt
<1>5. AddressLength(g.source_addressing_mode) = 8
  BY <1>4 DEF AddressLength
<1>6. \A i \in HeaderIndex : g.data[i] =
        IF i \in start .. start + 7 THEN address[i - start] ELSE h.data[i]
  BY <1>1, <1>4, Modes
  DEF bytes, BitManipulation_copyBytes, HeaderIndex, MAXIMUM_HEADER_SIZE
<1>7. SourceStart(g) = start
  BY <1>1, <1>4, Places
<1>8. ParsedSource(g) = address
  BY <1>1, <1>5, <1>6, <1>7
  DEF ParsedSource, Field, ExtendedBytes, HeaderIndex, MAXIMUM_HEADER_SIZE
<1>9. OthersThanSource(g, h)
  <2>1. \A i \in 2 .. 21 : i < start \/ i = 21 => g.data[i] = h.data[i]
    BY <1>1, <1>6 DEF HeaderIndex, MAXIMUM_HEADER_SIZE
  <2>2. ParsedPanId(g) = ParsedPanId(h)
    BY <1>1, <1>4, <2>1, Places DEF ParsedPanId, Field
  <2>3. ParsedDestination(g) = ParsedDestination(h)
    BY <1>1, <1>4, <2>1, Places DEF ParsedDestination, Field
  <2> QED BY <1>4, <2>1, <2>2, <2>3 DEF OthersThanSource, MAXIMUM_HEADER_SIZE
<1> QED BY <1>4, <1>8, <1>9 DEF g

LEMMA SetShortDestinationAddressEffect ==
  ASSUME NEW h, Addressable(h), NEW address \in ShortBytes
  PROVE  LET g == FrameHeader802154_setShortDestinationAddress(h, address)
         IN Keeps(g, h) /\ ParsedDestination(g) = address /\ OthersThanDestination(g, h)
<1> DEFINE g == FrameHeader802154_setShortDestinationAddress(h, address)
           start == DestinationStart(h)
           size == AddressLength(h.source_addressing_mode)
           moved == IF h.destination_addressing_mode = 3
                      THEN moveBytes(h.data, start + 8, size, -6) ELSE h.data
           bytes == BitManipulation_copyBytes(address, moved, start, 2)
<1>1. /\ size \in {2, 8}
      /\ start \in {4, 5}
      /\ FrameHeader802154_getDestinationAddressOffset(h) = start
      /\ FrameHeader802154_getSourceAddressOffset(h)
           = start + AddressLength(h.destination_addressing_mode)
      /\ FrameHeader802154_getSourceAddressSize(h) = size
  BY AddressableLayout
<1> HIDE DEF start, size
<1>2. g = Rebuild(h, bytes, 1, h.source_addressing_mode, 2)
  <2>1. CASE h.destination_addressing_mode = 3
    <3>1. moveSourceAddress(h, -6) = [h EXCEPT !.data = moved]
      BY <1>1, <2>1 DEF moveSourceAddress, AddressLength
    <3> QED BY <1>1, <2>1, <3>1
        DEF FrameHeader802154_setShortDestinationAddress, Rebuild, Addressable, FrameHeaders,
            ADDRESSING_MODE_SHORT_ADDRESS, ADDRESSING_MODE_EXTENDED_ADDRESS
  <2>2. CASE h.destination_addressing_mode # 3
    BY <1>1, <2>2
    DEF FrameHeader802154_setShortDestinationAddress, Rebuild, Addressable, FrameHeaders,
        ADDRESSING_MODE_SHORT_ADDRESS, ADDRESSING_MODE_EXTENDED_ADDRESS
  <2> QED BY <2>1, <2>2
<1>3. moved \in [HeaderIndex -> Byte]
  <2>1. moveBytes(h.data, start + 8, size, -6) \in [HeaderIndex -> Byte]
    <3>1. /\ start + 8 \in Int /\ size \in Int /\ start + 8 >= 2
          /\ start + 8 + size - 1 <= MAXIMUM_HEADER_SIZE
      BY <1>1 DEF MAXIMUM_HEADER_SIZE
    <3> QED BY <3>1, MoveType, Modes
  <2> QED BY <2>1, Modes
<1>4. bytes \in [HeaderIndex -> Byte]
  <2> HIDE DEF moved
  <2>1. \A k \in 0 .. (2 - 1) : address[k] \in Byte
    BY DEF ShortBytes
  <2> QED BY <1>1, <1>3, <2>1, CopyType
<1>5. /\ Keeps(g, h)
      /\ g.data = bytes
      /\ g.source_addressing_mode = h.source_addressing_mode
      /\ g.destination_addressing_mode = 2
      /\ g.acknowledgement_request = h.acknowledgement_request
  <2>1. CompressionFits(1, h.source_addressing_mode, 2)
    BY Modes DEF CompressionFits
  <2> HIDE DEF bytes, g
  <2> QED BY <1>2, <1>4, <2>1, Rebuilt
<1>6. \A i \in HeaderIndex : g.data[i] =
        IF i \in start .. start + 1 THEN address[i - start] ELSE moved[i]
  <2> HIDE DEF moved, g
  <2> QED BY <1>1, <1>3, <1>5 DEF BitManipulation_copyBytes, HeaderIndex, MAXIMUM_HEADER_SIZE
<1>7. \A i \in 0 .. size - 1 : moved[start + 2 + i]
        = h.data[start + AddressLength(h.destination_addressing_mode) + i]
  BY <1>1, Modes DEF moveBytes, HeaderIndex, MAXIMUM_HEADER_SIZE, AddressLength
<1>8. \A i \in {start - 2, start - 1, 21} : moved[i] = h.data[i]
  BY <1>1, Modes DEF moveBytes, HeaderIndex, MAXIMUM_HEADER_SIZE
<1> HIDE DEF g, moved, bytes
<1>9. /\ DestinationStart(g) = start
      /\ DestinationPanIdStart(g) = start - 2
      /\ DestinationPanIdStart(h) = start - 2
      /\ DestinationPanIdPresent(g) /\ DestinationPanIdPresent(h)
      /\ SourceStart(g) = start + 2
      /\ SourceStart(h) = start + AddressLength(h.destination_addressing_mode)
      /\ AddressLength(g.destination_addressing_mode) = 2
      /\ AddressLength(g.source_addressing_mode) = size
  <2>1. AddressLength(g.destination_addressing_mode) = 2
    BY <1>5 DEF AddressLength
  <2> QED BY <1>5, <2>1, Places DEF start, size
<1>10. ParsedDestination(g) = address
  BY <1>1, <1>6, <1>9
  DEF ParsedDestination, Field, ShortBytes, HeaderIndex, MAXIMUM_HEADER_SIZE
<1>11. ParsedSource(g) = ParsedSource(h)
  <2>1. \A i \in 0 .. size - 1 : g.data[start + 2 + i] = moved[start + 2 + i]
    BY <1>1, <1>6 DEF HeaderIndex, MAXIMUM_HEADER_SIZE
  <2> QED BY <1>7, <1>9, <2>1 DEF ParsedSource, Field, size
<1>12. ParsedPanId(g) = ParsedPanId(h)
  BY <1>1, <1>6, <1>8, <1>9 DEF ParsedPanId, Field, HeaderIndex, MAXIMUM_HEADER_SIZE
<1>13. OthersThanDestination(g, h)
  BY <1>1, <1>5, <1>6, <1>8, <1>11, <1>12
  DEF OthersThanDestination, HeaderIndex, MAXIMUM_HEADER_SIZE
<1> QED BY <1>5, <1>10, <1>13 DEF g

LEMMA SetExtendedDestinationAddressEffect ==
  ASSUME NEW h, Addressable(h), NEW address \in ExtendedBytes
  PROVE  LET g == FrameHeader802154_setExtendedDestinationAddress(h, address)
         IN Keeps(g, h) /\ ParsedDestination(g) = address /\ OthersThanDestination(g, h)
<1> DEFINE g == FrameHeader802154_setExtendedDestinationAddress(h, address)
           start == DestinationStart(h)
           size == AddressLength(h.source_addressing_mode)
           moved == IF h.destination_addressing_mode = 2
                      THEN moveBytes(h.data, start + 2, size, 6) ELSE h.data
           bytes == BitManipulation_copyBytes(address, moved, start, 8)
           compression == IF h.source_addressing_mode = 3
                            THEN 0 ELSE h.pan_id_compression
<1>1. /\ size \in {2, 8}
      /\ start \in {4, 5}
      /\ FrameHeader802154_getDestinationAddressOffset(h) = start
      /\ FrameHeader802154_getSourceAddressOffset(h)
           = start + AddressLength(h.destination_addressing_mode)
      /\ FrameHeader802154_getSourceAddressSize(h) = size
  BY AddressableLayout
<1> HIDE DEF start, size
<1>2. g = Rebuild(h, bytes, compression, h.source_addressing_mode, 3)
  <2>1. CASE h.destination_addressing_mode = 2
    <3>1. moveSourceAddress(h, 6) = [h EXCEPT !.data = moved]
      BY <1>1, <2>1 DEF moveSourceAddress, AddressLength
    <3> QED BY <1>1, <2>1, <3>1, ZenonT(30)
        DEF FrameHeader802154_setExtendedDestinationAddress, Rebuild, Addressable, FrameHeaders,
            ADDRESSING_MODE_SHORT_ADDRESS, ADDRESSING_MODE_EXTENDED_ADDRESS
  <2>2. CASE h.destination_addressing_mode # 2
    BY <1>1, <2>2
    DEF FrameHeader802154_setExtendedDestinationAddress, Rebuild, Addressable, FrameHeaders,
        ADDRESSING_MODE_SHORT_ADDRESS, ADDRESSING_MODE_EXTENDED_ADDRESS
  <2> QED BY <2>1, <2>2
<1>3. moved \in [HeaderIndex -> Byte]
  <2>1. moveBytes(h.data, start + 2, size, 6) \in [HeaderIndex -> Byte]
    <3>1. /\ start + 2 \in Int /\ size \in Int /\ start + 2 >= 2
          /\ start + 2 + size - 1 <= MAXIMUM_HEADER_SIZE
      BY <1>1 DEF MAXIMUM_HEADER_SIZE
    <3> QED BY <3>1, MoveType, Modes
  <2> QED BY <2>1, Modes
<1>4. bytes \in [HeaderIndex -> Byte]
  <2> HIDE DEF moved
  <2>1. \A k \in 0 .. (8 - 1) : address[k] \in Byte
    BY DEF ExtendedBytes
  <2> QED BY <1>1, <1>3, <2>1, CopyType
<1>5. /\ Keeps(g, h)
      /\ g.data = bytes
      /\ g.source_addressing_mode = h.source_addressing_mode
      /\ g.destination_addressing_mode = 3
      /\ g.acknowledgement_request = h.acknowledgement_request
  <2>1. CompressionFits(compression, h.source_addressing_mode, 3)
    BY Modes DEF CompressionFits
  <2> HIDE DEF bytes, compression, g
  <2> QED BY <1>2, <1>4, <2>1, Rebuilt
<1>6. \A i \in HeaderIndex : g.data[i] =
        IF i \in start .. start + 7 THEN address[i - start] ELSE moved[i]
  <2> HIDE DEF moved, g
  <2> QED BY <1>1, <1>3, <1>5 DEF BitManipulation_copyBytes, HeaderIndex, MAXIMUM_HEADER_SIZE
<1>7. \A i \in 0 .. size - 1 : moved[start + 8 + i]
        = h.data[start + AddressLength(h.destination_addressing_mode) + i]
  BY <1>1, Modes DEF moveBytes, HeaderIndex, MAXIMUM_HEADER_SIZE, AddressLength
<1>8. \A i \in {start - 2, start - 1, 21} : moved[i] = h.data[i]
  BY <1>1, Modes DEF moveBytes, HeaderIndex, MAXIMUM_HEADER_SIZE
<1> HIDE DEF g, moved, bytes
<1>9. /\ DestinationStart(g) = start
      /\ DestinationPanIdStart(g) = start - 2
      /\ DestinationPanIdStart(h) = start - 2
      /\ DestinationPanIdPresent(g) /\ DestinationPanIdPresent(h)
      /\ SourceStart(g) = start + 8
      /\ SourceStart(h) = start + AddressLength(h.destination_addressing_mode)
      /\ AddressLength(g.destination_addressing_mode) = 8
      /\ AddressLength(g.source_addressing_mode) = size
  <2>1. AddressLength(g.destination_addressing_mode) = 8
    BY <1>5 DEF AddressLength
  <2> QED BY <1>5, <2>1, Places DEF start, size
<1>10. ParsedDestination(g) = address
  BY <1>1, <1>6, <1>9
  DEF ParsedDestination, Field, ExtendedBytes, HeaderIndex, MAXIMUM_HEADER_SIZE
<1>11. ParsedSource(g) = ParsedSource(h)
  <2>1. \A i \in 0 .. size - 1 : g.data[start + 8 + i] = moved[start + 8 + i]
    BY <1>1, <1>6 DEF HeaderIndex, MAXIMUM_HEADER_SIZE
  <2> QED BY <1>7, <1>9, <2>1 DEF ParsedSource, Field, size
<1>12. ParsedPanId(g) = ParsedPanId(h)
  BY <1>1, <1>6, <1>8, <1>9 DEF ParsedPanId, Field, HeaderIndex, MAXIMUM_HEADER_SIZE
<1>13. OthersThanDestination(g, h)
  BY <1>1, <1>5, <1>6, <1>8, <1>11, <1>12
  DEF OthersThanDestination, HeaderIndex, MAXIMUM_HEADER_SIZE
<1> QED BY <1>5, <1>10, <1>13 DEF g

LEMMA EnableAcknowledgementEffect ==
  ASSUME NEW h, Addressable(h)
  PROVE  LET g == FrameHeader802154_enableAcknowledgementRequest(h)
         IN /\ Keeps(g, h)
            /\ g.acknowledgement_request = 1
            /\ ParsedPanId(g) = ParsedPanId(h)
            /\ ParsedDestination(g) = ParsedDestination(h)
            /\ ParsedSource(g) = ParsedSource(h)
            /\ g.data[MAXIMUM_HEADER_SIZE] = h.data[MAXIMUM_HEADER_SIZE]
<1> DEFINE g == FrameHeader802154_enableAcknowledgementRequest(h)
<1>1. Keeps(g, h) /\ g.acknowledgement_request = 1
  BY DEF Keeps, Addressable, FrameHeaders, Bit, FrameHeader802154_enableAcknowledgementRequest
<1>2. /\ g.data = h.data
      /\ g.destination_addressing_mode = h.destination_addressing_mode
      /\ g.source_addressing_mode = h.source_addressing_mode
  BY DEF Addressable, FrameHeaders, FrameHeader802154_enableAcknowledgementRequest
<1> HIDE DEF g
<1>3. /\ ParsedPanId(g) = ParsedPanId(h)
      /\ ParsedDestination(g) = ParsedDestination(h)
      /\ ParsedSource(g) = ParsedSource(h)
  BY <1>1, <1>2, Places DEF ParsedPanId, ParsedDestination, ParsedSource, Field
<1> QED BY <1>1, <1>2, <1>3 DEF g

\* A number goes into a header without one whose destination address is extended: the
\* fields behind it move by one byte, from the last to the first, and no byte is lost.
LEMMA InsertNumberEffect ==
  ASSUME NEW h, Addressable(h), h.sequence_number_suppression = 1,
         h.destination_addressing_mode = 3, NEW number \in Byte
  PROVE  LET g == FrameHeader802154_setSequenceNumber(h, number)
         IN /\ Addressable(g)
            /\ ParsedSequenceNumber(g) = [i \in 0 .. 0 |-> number]
            /\ ParsedPanId(g) = ParsedPanId(h)
            /\ ParsedDestination(g) = ParsedDestination(h)
            /\ ParsedSource(g) = ParsedSource(h)
            /\ g.acknowledgement_request = h.acknowledgement_request
            /\ g.data[MAXIMUM_HEADER_SIZE] = h.data[MAXIMUM_HEADER_SIZE]
<1> DEFINE g == FrameHeader802154_setSequenceNumber(h, number)
           size == AddressLength(h.source_addressing_mode)
           moved1 == moveBytes(h.data, 12, size, 1)
           moved2 == moveBytes(moved1, 4, 8, 1)
           moved3 == moveBytes(moved2, 2, 2, 1)
<1>1. /\ size \in {2, 8}
      /\ getPanIdOffset(h) = 2
      /\ FrameHeader802154_getDestinationAddressOffset(h) = 4
      /\ FrameHeader802154_getSourceAddressOffset(h) = 12
      /\ FrameHeader802154_getSourceAddressSize(h) = size
  BY AddressableLayout DEF AddressLength
<1> HIDE DEF size
<1>2. h.data \in [HeaderIndex -> Byte]
  BY Modes
<1>3. moved1 \in [HeaderIndex -> Byte]
  BY <1>1, <1>2, MoveType DEF MAXIMUM_HEADER_SIZE
<1>4. moved2 \in [HeaderIndex -> Byte]
  BY <1>3, MoveType DEF MAXIMUM_HEADER_SIZE
<1>5. moved3 \in [HeaderIndex -> Byte]
  BY <1>4, MoveType DEF MAXIMUM_HEADER_SIZE
<1>6. /\ \A i \in HeaderIndex :
           moved1[i] = IF i \in 13 .. 12 + size THEN h.data[i - 1] ELSE h.data[i]
      /\ \A i \in HeaderIndex :
           moved2[i] = IF i \in 5 .. 12 THEN moved1[i - 1] ELSE moved1[i]
      /\ \A i \in HeaderIndex :
           moved3[i] = IF i \in 3 .. 4 THEN moved2[i - 1] ELSE moved2[i]
  <2>1. ASSUME NEW data \in [HeaderIndex -> Byte], NEW first \in Int, NEW count \in Int,
               NEW i \in HeaderIndex
        PROVE  moveBytes(data, first, count, 1)[i]
                 = IF i \in first + 1 .. first + count THEN data[i - 1] ELSE data[i]
    BY <2>1 DEF moveBytes, HeaderIndex
  <2> HIDE DEF moved1, moved2, moved3
  <2> QED BY <1>1, <1>2, <1>3, <1>4, <2>1 DEF moved1, moved2, moved3
<1>7. g = [h EXCEPT !.data = [moved3 EXCEPT ![2] = number],
                    !.sequence_number_suppression = 0]
  <2>1. moveSourceAddress(h, 1) = [h EXCEPT !.data = moved1]
    BY <1>1 DEF moveSourceAddress
  <2>2. moveDestinationAddress(h, 1) = [h EXCEPT !.data = moved2]
    BY <1>1, <2>1 DEF moveDestinationAddress, Addressable, FrameHeaders
  <2>3. movePanId(h, 1) = [h EXCEPT !.data = moved3]
    BY <1>1, <2>2 DEF movePanId, Addressable, FrameHeaders
  <2> HIDE DEF moved3
  <2> QED BY <2>3
      DEF FrameHeader802154_setSequenceNumber,
          FrameHeader802154_disableSequenceNumberSuppression, Addressable, FrameHeaders
<1> HIDE DEF moved1, moved2, moved3
<1>8. /\ g.data = [moved3 EXCEPT ![2] = number]
      /\ g.sequence_number_suppression = 0
      /\ g.source_addressing_mode = h.source_addressing_mode
      /\ g.destination_addressing_mode = h.destination_addressing_mode
      /\ g.pan_id_compression = h.pan_id_compression
      /\ g.acknowledgement_request = h.acknowledgement_request
  BY <1>7 DEF Addressable, FrameHeaders
<1>9. Addressable(g)
  <2>1. [moved3 EXCEPT ![2] = number] \in [HeaderIndex -> Byte]
    BY <1>5 DEF HeaderIndex, MAXIMUM_HEADER_SIZE
  <2>2. 0 \in Bit
    BY DEF Bit
  <2>3. g \in FrameHeaders
    BY <1>7, <2>1, <2>2 DEF Addressable, FrameHeaders
  <2> HIDE DEF g
  <2> QED BY <1>8, <2>3 DEF Addressable
<1> HIDE DEF g
<1>10. /\ g.data[2] = number
       /\ g.data[3] = h.data[2] /\ g.data[4] = h.data[3]
       /\ \A i \in 0 .. 7 : g.data[5 + i] = h.data[4 + i]
       /\ \A i \in 0 .. size - 1 : g.data[13 + i] = h.data[12 + i]
       /\ g.data[21] = h.data[21]
  <2>1. \A i \in HeaderIndex : g.data[i] = IF i = 2 THEN number ELSE moved3[i]
    BY <1>5, <1>8
  <2> QED BY <1>1, <1>6, <2>1 DEF HeaderIndex, MAXIMUM_HEADER_SIZE
<1>11. /\ DestinationPanIdPresent(g) /\ DestinationPanIdPresent(h)
       /\ DestinationPanIdStart(g) = 3 /\ DestinationPanIdStart(h) = 2
       /\ DestinationStart(g) = 5 /\ DestinationStart(h) = 4
       /\ AddressLength(g.destination_addressing_mode) = 8
       /\ AddressLength(h.destination_addressing_mode) = 8
       /\ AddressLength(g.source_addressing_mode) = size
       /\ SourceStart(g) = 13 /\ SourceStart(h) = 12
       /\ SequenceNumberLength(g) = 1
  <2>1. AddressLength(h.destination_addressing_mode) = 8
    BY DEF AddressLength
  <2> QED BY <1>8, <1>9, <2>1, AddressableLayout DEF SequenceNumberLength, size
<1>12. ParsedSequenceNumber(g) = [i \in 0 .. 0 |-> number]
  BY <1>10, <1>11 DEF ParsedSequenceNumber, Field
<1>13. ParsedPanId(g) = ParsedPanId(h)
  BY <1>10, <1>11 DEF ParsedPanId, Field
<1>14. ParsedDestination(g) = ParsedDestination(h)
  BY <1>10, <1>11 DEF ParsedDestination, Field
<1>15. ParsedSource(g) = ParsedSource(h)
  BY <1>1, <1>10, <1>11 DEF ParsedSource, Field, size
<1> QED BY <1>8, <1>9, <1>10, <1>12, <1>13, <1>14, <1>15 DEF g, MAXIMUM_HEADER_SIZE

\* The same of the headers the driver builds, which have a number and keep it.
LEMMA SetPanIdLemma ==
  ASSUME NEW h, WellFormed(h), NEW pan_id \in PanIdBytes
  PROVE  LET g == FrameHeader802154_setPanId(h, pan_id)
         IN WellFormed(g) /\ ParsedPanId(g) = pan_id /\ OthersThanPanId(g, h)
BY SetPanIdEffect, WellFormedIsAddressable DEF Keeps

LEMMA SetShortSourceAddressLemma ==
  ASSUME NEW h, WellFormed(h), NEW address \in ShortBytes
  PROVE  LET g == FrameHeader802154_setShortSourceAddress(h, address)
         IN WellFormed(g) /\ ParsedSource(g) = address /\ OthersThanSource(g, h)
BY SetShortSourceAddressEffect, WellFormedIsAddressable DEF Keeps

LEMMA SetExtendedSourceAddressLemma ==
  ASSUME NEW h, WellFormed(h), NEW address \in ExtendedBytes
  PROVE  LET g == FrameHeader802154_setExtendedSourceAddress(h, address)
         IN WellFormed(g) /\ ParsedSource(g) = address /\ OthersThanSource(g, h)
BY SetExtendedSourceAddressEffect, WellFormedIsAddressable DEF Keeps

LEMMA SetShortDestinationAddressLemma ==
  ASSUME NEW h, WellFormed(h), NEW address \in ShortBytes
  PROVE  LET g == FrameHeader802154_setShortDestinationAddress(h, address)
         IN WellFormed(g) /\ ParsedDestination(g) = address /\ OthersThanDestination(g, h)
BY SetShortDestinationAddressEffect, WellFormedIsAddressable DEF Keeps

LEMMA SetExtendedDestinationAddressLemma ==
  ASSUME NEW h, WellFormed(h), NEW address \in ExtendedBytes
  PROVE  LET g == FrameHeader802154_setExtendedDestinationAddress(h, address)
         IN WellFormed(g) /\ ParsedDestination(g) = address /\ OthersThanDestination(g, h)
BY SetExtendedDestinationAddressEffect, WellFormedIsAddressable DEF Keeps

LEMMA EnableAcknowledgementLemma ==
  ASSUME NEW h, WellFormed(h)
  PROVE  LET g == FrameHeader802154_enableAcknowledgementRequest(h)
         IN /\ WellFormed(g)
            /\ g.acknowledgement_request = 1
            /\ ParsedPanId(g) = ParsedPanId(h)
            /\ ParsedDestination(g) = ParsedDestination(h)
            /\ ParsedSource(g) = ParsedSource(h)
            /\ g.data[MAXIMUM_HEADER_SIZE] = h.data[MAXIMUM_HEADER_SIZE]
BY EnableAcknowledgementEffect, WellFormedIsAddressable DEF Keeps

-----------------------------------------------------------------------------
(* The state of the driver.  P is the set of payload pointers.             *)

\* The size of a header the driver can send.
LEMMA SizeBounds ==
  ASSUME NEW h, WellFormed(h)
  PROVE  /\ FrameHeader802154_getHeaderSize(h) \in 0 .. MAXIMUM_HEADER_SIZE
         /\ FrameHeader802154_getHeaderSize(h) = PayloadStart(h)
         /\ FrameHeader802154_getHeaderSize(h) \in Byte
BY Layout DEF MAXIMUM_HEADER_SIZE, Byte, AddressLength

\* A sum that is stored in a uint8_t is a byte.
LEMMA SumIsByte ==
  ASSUME NEW a \in Byte, NEW b \in Byte
  PROVE  uint8(a + b) \in Byte
BY DEF uint8, Byte

\* A MrfState is a record of records.
LEMMA Parts ==
  ASSUME NEW P, NEW m \in MrfStates(P)
  PROVE  /\ m.header \in MrfHeaders
         /\ m.header.frame_header_length \in Byte
         /\ m.header.frame_length \in Byte
         /\ m.header.frame_header \in FrameHeaders
         /\ m.payload \in P
         /\ m.state \in SUBSET MrfStateFlags
BY DEF MrfStates, MrfHeaders

\* What replacing the MAC header leaves of a MrfState.
LEMMA ReplaceFrameHeader ==
  ASSUME NEW P, NEW m \in MrfStates(P), NEW h, WellFormed(h)
  PROVE  LET n == replaceFrameHeader(m, h)
         IN /\ n \in MrfStates(P)
            /\ n.header.frame_header = h
            /\ n.header.frame_header_length = FrameHeader802154_getHeaderSize(h)
            /\ n.header.frame_length = m.header.frame_length
            /\ n.payload = m.payload
            /\ n.state = m.state
<1> DEFINE size == FrameHeader802154_getHeaderSize(h)
           head == [m.header EXCEPT !.frame_header = h, !.frame_header_length = size]
           n    == [m EXCEPT !.header = head]
<1>1. size \in Byte /\ h \in FrameHeaders
  BY SizeBounds DEF WellFormed
<1>2. m.header \in MrfHeaders
  BY Parts
<1>3. /\ head \in MrfHeaders
      /\ head.frame_header = h
      /\ head.frame_header_length = size
      /\ head.frame_length = m.header.frame_length
  <2> HIDE DEF size
  <2> QED BY <1>1, <1>2 DEF MrfHeaders
<1>4. replaceFrameHeader(m, h) = n
  BY DEF replaceFrameHeader, MrfStates, MrfHeaders
<1>5. /\ n \in MrfStates(P)
      /\ n.header = head
      /\ n.payload = m.payload
      /\ n.state = m.state
  <2> HIDE DEF head
  <2> QED BY <1>3 DEF MrfStates
<1> QED BY <1>3, <1>4, <1>5

\* setPanId and enableAcknowledgement change the header alone, not its size.
LEMMA ReplaceHeaderOfSameSize ==
  ASSUME NEW P, NEW m \in MrfStates(P), NEW h, WellFormed(h)
  PROVE  LET n == [m EXCEPT !.header.frame_header = h]
         IN /\ n \in MrfStates(P)
            /\ n.header.frame_header = h
            /\ n.header.frame_header_length = m.header.frame_header_length
            /\ n.header.frame_length = m.header.frame_length
            /\ n.payload = m.payload
BY DEF MrfStates, MrfHeaders, WellFormed

\* A uint8_t sum from which the second summand is taken again, as a uint8_t,
\* gives the first one back.
LEMMA SumAndDifference ==
  ASSUME NEW length \in Byte, NEW size \in 0 .. MAXIMUM_HEADER_SIZE
  PROVE  uint8(uint8(length + size) - size) = length
<1>1. CASE length + size <= 255
  BY <1>1 DEF uint8, Byte, MAXIMUM_HEADER_SIZE
<1>2. CASE length + size > 255
  <2>1. uint8(length + size) = length + size - 256
    BY <1>2 DEF uint8, Byte, MAXIMUM_HEADER_SIZE
  <2> QED BY <2>1 DEF uint8, Byte, MAXIMUM_HEADER_SIZE
<1> QED BY <1>1, <1>2 DEF Byte, MAXIMUM_HEADER_SIZE

-----------------------------------------------------------------------------
\* What the inspection functions find in a packet of a node that runs this library.
LEMMA OwnPacketIsInspected ==
  ASSUME NEW p, IsOfThisLibrary(p)
  PROVE  /\ getPacketPayload(p) = p.payload.start
         /\ getPacketPayloadSize(p) = p.payload.length
         /\ getPacketSourceAddressSize(p) = AddressLength(p.header.source_addressing_mode)
         /\ getPacketSourceAddress(p, getPacketSourceAddressSize(p)) = p.source
         /\ packetAddressIsShort(p) <=> DOMAIN p.source = 0 .. 1
         /\ packetAddressIsLong(p)  <=> DOMAIN p.source = 0 .. 7
<1> DEFINE h == p.header
           length == AddressLength(h.source_addressing_mode)
<1>1. /\ WellFormed(h)
      /\ FrameHeader802154_getHeaderSize(h) = PayloadStart(h)
      /\ PayloadStart(h) \in 0 .. MAXIMUM_HEADER_SIZE
  BY SizeBounds DEF IsOfThisLibrary
<1>2. /\ FrameHeader802154_getSourceAddressSize(h) = length
      /\ length \in {2, 8}
      /\ FrameHeader802154_getSourceAddressOffset(h) = SourceStart(h)
  BY <1>1, Layout
<1>3. p.source = [i \in 0 .. (length - 1) |-> h.data[SourceStart(h) + i]]
  BY DEF IsOfThisLibrary, ParsedSource, Field
<1>4. getPacketPayload(p) = p.payload.start
  BY <1>1 DEF getPacketPayload, IsOfThisLibrary
<1>5. getPacketPayloadSize(p) = p.payload.length
  <2>1. p.length - PayloadStart(h) - frame_check_sequence_size = p.payload.length
    BY <1>1 DEF IsOfThisLibrary, frame_check_sequence_size
  <2>2. p.payload.length \in 0 .. 255
    BY <1>1 DEF IsOfThisLibrary, frame_check_sequence_size, LargestPacket
  <2> QED BY <1>1, <2>1, <2>2 DEF getPacketPayloadSize, uint8
<1>6. getPacketSourceAddress(p, getPacketSourceAddressSize(p)) = p.source
  BY <1>2, <1>3 DEF getPacketSourceAddress, getPacketSourceAddressSize
<1>7. DOMAIN p.source = 0 .. (length - 1)
  BY <1>3
<1> HIDE DEF length
<1>8. length = 2 <=> 0 .. (length - 1) = 0 .. 1
  <2>1. 7 \in 0 .. 7 /\ 7 \notin 0 .. 1
    OBVIOUS
  <2>2. CASE length = 2
    BY <2>2
  <2>3. CASE length = 8
    BY <2>1, <2>3
  <2> QED BY <1>2, <2>2, <2>3
<1>9. length = 8 <=> 0 .. (length - 1) = 0 .. 7
  <2>1. 7 \in 0 .. 7 /\ 7 \notin 0 .. 1
    OBVIOUS
  <2>2. CASE length = 2
    BY <2>1, <2>2
  <2>3. CASE length = 8
    BY <2>3
  <2> QED BY <1>2, <2>2, <2>3
<1>10. (packetAddressIsShort(p) <=> length = 2) /\ (packetAddressIsLong(p) <=> length = 8)
  BY <1>2 DEF packetAddressIsShort, packetAddressIsLong
<1>11. getPacketSourceAddressSize(p) = AddressLength(p.header.source_addressing_mode)
  BY <1>2 DEF getPacketSourceAddressSize, length
<1> QED BY <1>4, <1>5, <1>6, <1>7, <1>8, <1>9, <1>10, <1>11

=============================================================================
