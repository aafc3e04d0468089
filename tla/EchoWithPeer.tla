----------------------------- MODULE EchoWithPeer -----------------------------
(***************************************************************************)
(* The programs of Applications in two worlds.  In the first one packets   *)
(* come in from anywhere.  In the second one EchoMessageBlocking.c has a   *)
(* peer (external) that sends one of two messages again and again until it *)
(* hears the answer, and then goes on to the other one.  Messages and      *)
(* answers may get lost; a message that comes in while the echo sends is   *)
(* not noticed.  The microcontroller may restart in both.                  *)
(***************************************************************************)
EXTENDS Applications

CONSTANT Messages   \* the two packets the peer sends, in turns

ASSUME MessagesAssumption == Messages \in Packets \X Packets

VARIABLES
  current,   \* the number of the message the peer sends, 0 if there is no peer
  answer     \* whether the frame that went on air last is the answer to it

peer_vars == <<app_vars, current, answer>>

PeerInit ==
  /\ ApplicationsInit
  /\ current \in {0, 1}
  /\ current = 1 => Runs("EchoMessageBlocking")
  /\ answer = FALSE

AnyPacketComesIn ==
  /\ current = 0
  /\ \E p \in Packets : PacketComesIn(p)
  /\ UNCHANGED <<current, answer>>

PeerSends ==
  /\ current # 0
  /\ PacketComesIn(Messages[current])
  /\ UNCHANGED <<current, answer>>

\* The frame in the transmit FIFO is the answer the peer waits for.
IsAnswer ==
  LET frame   == FrameInFifo
      message == Messages[current]
  IN /\ current # 0
     /\ packet.content = message
     /\ frame.destination = message.source
     /\ frame.payload = [buffer |-> "packet", start |-> message.payload.start]
     /\ frame.length = message.payload.length

AnswerArrives ==
  /\ TransmissionIsOver
  /\ answer
  /\ current' = 3 - current
  /\ answer' = FALSE

FrameIsLost == TransmissionIsOver /\ UNCHANGED <<current, answer>>

ProgramSteps ==
  /\ ProcessorSteps \/ Restart
  /\ answer' = IF ~transmitting /\ transmitting' THEN IsAnswer ELSE answer
  /\ UNCHANGED current

PeerNext == ProgramSteps \/ AnyPacketComesIn \/ PeerSends \/ AnswerArrives \/ FrameIsLost

\* The processor runs nothing but its program, transmissions end, the peer keeps
\* sending, and the channel does not lose every answer.
PeerSpec ==
  /\ PeerInit
  /\ [][PeerNext]_peer_vars
  /\ WF_peer_vars(LoopSteps /\ UNCHANGED <<current, answer>>)
  /\ WF_peer_vars(FrameIsLost)
  /\ WF_peer_vars(PeerSends)
  /\ SF_peer_vars(AnswerArrives)

-----------------------------------------------------------------------------
\* Every message is answered in the end, though sendBlocking clears the interrupt
\* bits of messages that come in meanwhile, so that the echo overlooks them: a
\* peer that repeats itself gets its answer, unless the microcontroller restarts
\* (EchoMessageBlocking.c:22-34).
EveryMessageIsAnswered ==
  \A i \in 1 .. 2 : (InLoop /\ current = i) ~> (current # i \/ ~InLoop)

=============================================================================
