--------------------------- MODULE MrfStateIterator ---------------------------
(***************************************************************************)
(* A user of MrfState who writes to the chip only what changed, by the     *)
(* iterator of MRFState.h: read the current field, move on while           *)
(* moveIteratorToNextField says that there is another one.  The driver     *)
(* does not do so; it writes the whole frame on every send.                *)
(***************************************************************************)
EXTENDS MrfState

CONSTANTS ShortAddresses, Payloads, PayloadLengths, Null

VARIABLES
  mrf,        \* the MrfState
  iterating,  \* whether the user is between the first field and the last
  updated,    \* the parts of the frame changed since the last full iteration
  yielded     \* the address ranges of the fields yielded by this iteration

vars == <<mrf, iterating, updated, yielded>>

Init ==
  /\ mrf = MrfState_init(
             [header  |-> [frame_header_length |-> 0, frame_length |-> 0,
                           frame_header |-> FrameHeader802154_init(0)],
              payload |-> Null,
              state   |-> {}])
  /\ iterating = FALSE
  /\ updated = {}
  /\ yielded = {}

SetShortDestinationAddress(address) ==
  /\ ~iterating
  /\ mrf' = MrfState_setShortDestinationAddress(mrf, address)
  /\ updated' = updated \cup {"header"}
  /\ UNCHANGED <<iterating, yielded>>

SetPayload(payload, length) ==
  /\ ~iterating
  /\ mrf' = MrfState_setPayload(mrf, payload, length)
  /\ updated' = updated \cup {"header", "payload"}
  /\ UNCHANGED <<iterating, yielded>>

FieldName(field) == IF field.address = 0 THEN "header" ELSE "payload"

FirstField ==
  /\ ~iterating
  /\ iterating' = TRUE
  /\ yielded' = {FieldName(MrfState_getCurrentField(mrf))}
  /\ UNCHANGED <<mrf, updated>>

NextField ==
  LET move == MrfState_moveIteratorToNextField(mrf)
  IN /\ iterating
     /\ move.result
     /\ mrf' = move.mrf
     /\ yielded' = yielded \cup {FieldName(MrfState_getCurrentField(mrf'))}
     /\ UNCHANGED <<iterating, updated>>

NoMoreFields ==
  LET move == MrfState_moveIteratorToNextField(mrf)
  IN /\ iterating
     /\ ~move.result
     /\ mrf' = move.mrf
     /\ iterating' = FALSE
     /\ updated' = {}
     /\ UNCHANGED yielded

Next ==
  \/ \E address \in ShortAddresses : SetShortDestinationAddress(address)
  \/ \E payload \in Payloads, length \in PayloadLengths : SetPayload(payload, length)
  \/ FirstField
  \/ NextField
  \/ NoMoreFields

Spec == Init /\ [][Next]_vars

-----------------------------------------------------------------------------
\* "All changes made to fields through this module will result in the
\* corresponding data to be included in the set of fields" (MRFState.h:14-17).
\* The code breaks it: getCurrentField is the header whatever was changed, so
\* that a new payload is never yielded (MRFState.c:89-97).
EveryUpdateIsYielded ==
  [][NoMoreFields => updated \subseteq yielded]_vars

=============================================================================
