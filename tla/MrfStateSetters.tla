---------------------------- MODULE MrfStateSetters ----------------------------
(***************************************************************************)
(* One MrfState under any sequence of setter calls, as the driver passes   *)
(* them through from the application.                                      *)
(***************************************************************************)
EXTENDS MrfState

CONSTANTS PanIds, ShortAddresses, ExtendedAddresses,
          Payloads,         \* pointers to payloads
          PayloadLengths,   \* lengths a caller passes to setPayload
          Null              \* the payload pointer before the first setPayload

ASSUME MrfStateAssumption ==
  /\ PanIds \subseteq PanIdBytes
  /\ ShortAddresses \subseteq ShortBytes
  /\ ExtendedAddresses \subseteq ExtendedBytes
  /\ PayloadLengths \subseteq Byte
  /\ Null \notin Payloads

VARIABLES
  mrf,        \* the MrfState
  submitted   \* history: the arguments of the last setPayload and the size the
              \* header had at the time; [payload |-> Null] before the first one

vars == <<mrf, submitted>>

NothingSubmitted == [payload |-> Null, length |-> 0, header_size |-> 0]

HeaderSize == FrameHeader802154_getHeaderSize(mrf.header.frame_header)

\* The memory MrfState_init is called on: its content is not used, except for the
\* payload pointer, which a driver in static memory finds to be zero.
StaticMemory ==
  [header  |-> [frame_header_length |-> 0, frame_length |-> 0,
                frame_header |-> FrameHeader802154_init(0)],
   payload |-> Null,
   state   |-> {}]

Init ==
  /\ mrf = MrfState_init(StaticMemory)
  /\ submitted = NothingSubmitted

SetPanId(pan_id) ==
  mrf' = MrfState_setPanId(mrf, pan_id) /\ UNCHANGED submitted

SetShortDestinationAddress(address) ==
  mrf' = MrfState_setShortDestinationAddress(mrf, address) /\ UNCHANGED submitted

SetExtendedDestinationAddress(address) ==
  mrf' = MrfState_setExtendedDestinationAddress(mrf, address) /\ UNCHANGED submitted

SetShortSourceAddress(address) ==
  mrf' = MrfState_setShortSourceAddress(mrf, address) /\ UNCHANGED submitted

SetExtendedSourceAddress(address) ==
  mrf' = MrfState_setExtendedSourceAddress(mrf, address) /\ UNCHANGED submitted

EnableAcknowledgement ==
  mrf' = MrfState_enableAcknowledgement(mrf) /\ UNCHANGED submitted

SetPayload(payload, length) ==
  /\ mrf' = MrfState_setPayload(mrf, payload, length)
  /\ submitted' = [payload |-> payload, length |-> length, header_size |-> HeaderSize]

Next ==
  \/ \E pan_id \in PanIds : SetPanId(pan_id)
  \/ \E address \in ShortAddresses :
       SetShortDestinationAddress(address) \/ SetShortSourceAddress(address)
  \/ \E address \in ExtendedAddresses :
       SetExtendedDestinationAddress(address) \/ SetExtendedSourceAddress(address)
  \/ EnableAcknowledgement
  \/ \E payload \in Payloads, length \in PayloadLengths : SetPayload(payload, length)

Spec == Init /\ [][Next]_vars

-----------------------------------------------------------------------------
\* The type invariant; the MAC header is always one the driver can send.
TypeOK ==
  /\ mrf \in MrfStates(Payloads \cup {Null})
  /\ WellFormed(mrf.header.frame_header)
  /\ submitted \in [payload     : Payloads \cup {Null},
                    length      : Byte,
                    header_size : 0 .. MAXIMUM_HEADER_SIZE]

\* The header length the chip is told is the length of the MAC header that
\* follows it, after any mix of address sizes (MRFState.c:12-34).  A stale value
\* would make the chip take the payload for a part of the header.
HeaderLengthIsCurrent == mrf.header.frame_header_length = HeaderSize

\* Once a payload was set, and as long as the header has the size it had then,
\* the payload field is the payload that was set, even if the frame length
\* wrapped (MRFState.c:36-44, 110-119).
PayloadFieldIsWhatWasSet ==
  submitted.payload # Null /\ HeaderSize = submitted.header_size
    => LET field == MrfState_getPayloadField(mrf)
       IN field.data = submitted.payload /\ field.length = submitted.length

\* The largest payload that fits the 128 bytes of the chip's transmit memory
\* beside the largest header (Mac802154MRFImplIntern.h:46-54).
TxFifoSize     == 128
LargestPayload == TxFifoSize - length_fields_size - MAXIMUM_HEADER_SIZE

\* The two fields the driver writes lie one behind the other in the transmit
\* memory, and end where the chip, which goes by the two length bytes, takes the
\* frame to end (MRFState.c:52-56, 99-119; Mac802154MRFImplIntern.h:50-54).
FieldsTileTheFrame ==
  submitted.payload # Null /\ submitted.length <= LargestPayload
                           /\ HeaderSize = submitted.header_size
    => LET header  == MrfState_getFullHeaderField(mrf)
           payload == MrfState_getPayloadField(mrf)
           end     == length_fields_size + mrf.header.frame_length
       IN /\ header.length = length_fields_size + PayloadStart(mrf.header.frame_header)
          /\ payload.address = header.address + header.length
          /\ payload.address + payload.length = end
          /\ end <= TxFifoSize

\* The payload length is the one that was set, whichever setters were called in
\* between, as test_getPayloadLength (test/MRF/MRFState_Test.c:127-134) has it of
\* setPayload alone.  The code breaks it: an address setter that changes the size
\* of the header does not correct the frame length.
PayloadLengthIsWhatWasSet ==
  submitted.payload # Null => MrfState_getPayloadLength(mrf) = submitted.length

=============================================================================
