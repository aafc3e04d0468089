------------------------------ MODULE MacService ------------------------------
(***************************************************************************)
(* What CommunicationModule/Mac802154.h promises about sending, without    *)
(* headers, registers and FIFOs: the application asks for a frame part by  *)
(* part, and each Mac802154_sendBlocking puts exactly one frame on air,    *)
(* the one that was asked for, and comes back when it is over.             *)
(*                                                                         *)
(* The payload is promised as long as the addresses take the space they    *)
(* took when it was set.                                                   *)
(***************************************************************************)
EXTENDS Naturals

CONSTANT Null

VARIABLES
  phase,    \* what the driver is doing
  asked,    \* the frame that was asked for
  on_air    \* the frame that is sent, or Null

service == <<phase, asked, on_air>>

WithoutPayload(destination, source, pan_id) ==
  [destination |-> destination, source |-> source, pan_id |-> pan_id,
   payload |-> Null, length |-> 0, header_size |-> 0]

Nothing == WithoutPayload(Null, Null, Null)

AddressSize(address) == IF DOMAIN address = 0 .. 1 THEN 2 ELSE 8

\* Control field, sequence number and PAN id, and the two addresses.
SpaceOfHeader(frame) == 5 + AddressSize(frame.destination) + AddressSize(frame.source)

Carries(frame, wanted) ==
  /\ frame.destination = wanted.destination
  /\ frame.source = wanted.source
  /\ frame.pan_id = wanted.pan_id
  /\ wanted.header_size = SpaceOfHeader(wanted) =>
       /\ frame.payload = wanted.payload
       /\ frame.length = wanted.length % 256

Init == phase = "off" /\ asked = Nothing /\ on_air = Null

Configure ==
  /\ phase \in {"off", "idle"}
  /\ phase' = "configuring"
  /\ asked' = Nothing
  /\ UNCHANGED on_air

Configured ==
  /\ phase = "configuring"
  /\ phase' = "idle"
  /\ asked' = WithoutPayload(asked'.destination, asked'.source, asked'.pan_id)
  /\ UNCHANGED on_air

\* A setter changes its own part.
SetDestination == asked' = [asked EXCEPT !.destination = asked'.destination]
SetSource      == asked' = [asked EXCEPT !.source = asked'.source]
SetPayload     == asked' = [asked EXCEPT !.payload = asked'.payload,
                                         !.length = asked'.length,
                                         !.header_size = SpaceOfHeader(asked)]

Set ==
  /\ phase = "idle"
  /\ SetDestination \/ SetSource \/ SetPayload
  /\ UNCHANGED <<phase, on_air>>

Submit ==
  /\ phase = "idle"
  /\ phase' = "submitted"
  /\ UNCHANGED <<asked, on_air>>

GoOnAir ==
  /\ phase = "submitted"
  /\ phase' = "on air"
  /\ Carries(on_air', asked)
  /\ UNCHANGED asked

End ==
  /\ phase = "on air"
  /\ phase' = "sent"
  /\ on_air' = Null
  /\ UNCHANGED asked

Return ==
  /\ phase = "sent"
  /\ phase' = "idle"
  /\ UNCHANGED <<asked, on_air>>

Next == Configure \/ Configured \/ Set \/ Submit \/ GoOnAir \/ End \/ Return

Spec == Init /\ [][Next]_service

=============================================================================
