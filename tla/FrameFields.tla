----------------------------- MODULE FrameFields -----------------------------
(***************************************************************************)
(* What a MAC header promises its user: a bundle of independent fields.    *)
(* Setting one field changes that field and no other, whatever the order   *)
(* of the calls, and an address may change its size at any time.           *)
(***************************************************************************)
EXTENDS Integers

CONSTANTS PanIds,             \* PAN ids a caller may set
          ShortAddresses,     \* short addresses a caller may set
          ExtendedAddresses   \* extended addresses a caller may set

VARIABLES panId, destination, source, acknowledgement

fields == <<panId, destination, source, acknowledgement>>

Unset == [i \in 0 .. 1 |-> 0]

Init ==
  /\ panId = Unset
  /\ destination = Unset
  /\ source = Unset
  /\ acknowledgement = 0

SetPanId ==
  /\ panId' \in PanIds
  /\ UNCHANGED <<destination, source, acknowledgement>>

SetDestination ==
  /\ destination' \in ShortAddresses \cup ExtendedAddresses
  /\ UNCHANGED <<panId, source, acknowledgement>>

SetSource ==
  /\ source' \in ShortAddresses \cup ExtendedAddresses
  /\ UNCHANGED <<panId, destination, acknowledgement>>

RequestAcknowledgement ==
  /\ acknowledgement' = 1
  /\ UNCHANGED <<panId, destination, source>>

Next == SetPanId \/ SetDestination \/ SetSource \/ RequestAcknowledgement

Spec == Init /\ [][Next]_fields

=============================================================================
