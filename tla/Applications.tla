----------------------------- MODULE Applications -----------------------------
(***************************************************************************)
(* The programs of integration_tests/ that use the library, on the driver  *)
(* and the chip of Mac802154MRF, with the board setup of Setup/.  A        *)
(* program is the calls it makes once and the calls of its endless loop.   *)
(* The microcontroller may restart at any moment, while the chip, which    *)
(* has a supply of its own, goes on.                                       *)
(*                                                                         *)
(* A received packet is a record of its length byte, the fields the chip   *)
(* filters by, its `header', its `source', where its `payload' starts in   *)
(* the buffer and how long it is, and whether that begins with an 'e'.     *)
(* A payload pointer is the buffer it points into and the index there.     *)
(***************************************************************************)
EXTENDS Mac802154MRF, Sequences

CONSTANTS Programs,      \* the programs that are run
          MaxRestarts,   \* bound on the restarts of the microcontroller
          NumberRange    \* bound on the counter of SendOneFrameBlocking, a uint16_t

ASSUME ApplicationsAssumption ==
  /\ \A p \in Programs : p.config \in Configs
  /\ MaxRestarts \in Nat
  /\ NumberRange \in Nat \ {0} /\ NumberRange <= 65536

VARIABLES
  program,     \* the program in the flash memory
  todo,        \* the calls left of its setup or of the turn of its loop
  mac802154,   \* the global pointer: Null, or the driver
  number,      \* SendOneFrameBlocking: the number in its text buffer
  restarts,    \* how often the microcontroller restarted
  unread       \* history: the packet in the receive FIFO was not fetched yet

app_vars == <<pc, mrf, config, writes, size, packet, available,
              register, tx_fifo, transmitting, int_status, rx_fifo, request, arrived, overtaken,
              program, todo, mac802154, number, restarts, unread>>

-----------------------------------------------------------------------------
(* The programs.                                                           *)

\* Addresses of two networks; the bytes of the programs' own addresses do not matter.
Address(length, byte) == [i \in 0 .. (length - 1) |-> byte + i]

EchoConfig    == [channel |-> 12, pan_id |-> Address(2, 204),
                  short_source_address |-> Address(2, 170),
                  extended_source_address |-> Address(8, 17)]
MonitorConfig == [EchoConfig EXCEPT !.pan_id = Address(2, 52)]

coordinator == [i \in 0 .. 7 |-> 8 - i]

AskAndFetch == <<"newPacketAvailable", "getReceivedPacketSize", "fetchPacketBlocking">>
FetchUnasked == <<"getReceivedPacketSize", "fetchPacketBlocking">>

\* Faulty: the payload before the destination.
EchoMessageBlockingPayloadFirst ==
  [name |-> "EchoMessageBlocking", config |-> EchoConfig,
   setup |-> <<"setUpMac", "configure">>,
   loop |-> AskAndFetch \o <<"setPayload", "setShortDestinationAddress", "sendBlocking">>]

EchoMessageBlocking ==
  [name |-> "EchoMessageBlocking", config |-> EchoConfig,
   setup |-> <<"setUpMac", "configure">>,
   loop |-> AskAndFetch \o <<"setShortDestinationAddress", "setPayload", "sendBlocking">>]

NetworkMonitor ==
  [name |-> "NetworkMonitor", config |-> MonitorConfig,
   setup |-> <<"setUpDebugging", "setUpMac", "configure", "enablePromiscuousMode", "debug">>,
   loop |-> AskAndFetch \o <<"debug">>]

\* Faulty: the length is taken of the text before.
SendOneFrameBlockingTextLast ==
  [name |-> "SendOneFrameBlocking", config |-> MonitorConfig,
   setup |-> <<"setUpDebugging", "setUpMac", "configure", "setExtendedDestinationAddress">>,
   loop |-> <<"setPayloadToText", "sprintf", "debug", "sendBlocking">>]

SendOneFrameBlocking ==
  [name |-> "SendOneFrameBlocking", config |-> MonitorConfig,
   setup |-> <<"setUpDebugging", "setUpMac", "configure", "setExtendedDestinationAddress">>,
   loop |-> <<"sprintf", "debug", "setPayloadToText", "sendBlocking">>]

PrintTXBuffer ==
  [name |-> "PrintTXBuffer", config |-> EchoConfig,
   setup |-> <<"setUpMac", "setUpDebugging", "configure", "debug">>,
   loop |-> FetchUnasked \o <<"debug", "if 'e'", "setPayload", "setShortDestinationAddress",
                              "sendBlocking">>]

ASSUME ProgramsAssumption ==
  Programs \subseteq {EchoMessageBlocking, NetworkMonitor, SendOneFrameBlocking, PrintTXBuffer}

\* The payload pointers: the text buffer, and the payload in the buffer of a packet.
text         == [buffer |-> "text", start |-> 0]
PayloadOf(p) == [buffer |-> "packet", start |-> getPacketPayload(p)]

\* The nodes around run this library too.
ASSUME PacketsAssumption ==
  /\ \A p \in Packets : IsOfThisLibrary(p) /\ PayloadOf(p) \in Payloads
  /\ text \in Payloads

-----------------------------------------------------------------------------
ApplicationsInit ==
  /\ Init
  /\ program \in Programs
  /\ todo = program.setup \o program.loop
  /\ mac802154 = Null
  /\ number = 0
  /\ restarts = 0
  /\ unread = FALSE

\* Calls block: the next one is made when the driver is back.
Doing(call) == pc \in {"unconfigured", "ready"} /\ Head(todo) = call

Done == todo' = IF Len(todo) = 1 THEN program.loop ELSE Tail(todo)

Makes(call, Effect) ==
  /\ Doing(call)
  /\ Effect
  /\ Done
  /\ UNCHANGED <<program, mac802154, number, restarts>>

\* A call through the pointer to the driver, which is null before setUpMac.
Calls(call, Effect) == mac802154 # Null /\ Makes(call, Effect) /\ UNCHANGED unread

\* setUpMac creates the driver if there is none.
setUpMac ==
  /\ Doing("setUpMac")
  /\ mac802154' = IF mac802154 = Null THEN "created" ELSE mac802154
  /\ Done
  /\ UNCHANGED <<vars, program, number, restarts, unread>>

setUpDebugging == Makes("setUpDebugging", UNCHANGED <<vars, unread>>)

\* debug(): the text goes out and, where it goes to USB, periodicUsbTask runs.
debug == Makes("debug", UNCHANGED <<vars, unread>>)

configure == Calls("configure", Reconfigure(program.config))

ConfigureSteps ==
  /\ WriteConfiguration \/ FinishConfiguration
  /\ unread' = (unread /\ arrived')
  /\ UNCHANGED <<program, todo, mac802154, number, restarts>>

enablePromiscuousMode == Calls("enablePromiscuousMode", EnablePromiscuousMode)

\* while (!Mac802154_newPacketAvailable(mac802154)) {}
newPacketAvailable ==
  /\ Doing("newPacketAvailable")
  /\ NewMessageAvailable
  /\ todo' = IF available' THEN Tail(todo) ELSE todo
  /\ UNCHANGED <<program, mac802154, number, restarts, unread>>

getReceivedPacketSize == Calls("getReceivedPacketSize", GetReceivedMessageSize)

fetchPacketBlocking ==
  Makes("fetchPacketBlocking", FetchMessageBlocking /\ unread' = FALSE)

\* if (*payload == 'e')
ifE ==
  /\ Doing("if 'e'")
  /\ todo' = IF packet.content.e THEN Tail(todo) ELSE program.loop
  /\ UNCHANGED <<vars, program, mac802154, number, restarts, unread>>

\* Two bytes, whatever the size of the source address.
setShortDestinationAddress ==
  Calls("setShortDestinationAddress",
        SetShortDestinationAddress(getPacketSourceAddress(packet.content, 2)))

setPayload ==
  Calls("setPayload",
        SetPayload(PayloadOf(packet.content), getPacketPayloadSize(packet.content)))

setExtendedDestinationAddress ==
  Calls("setExtendedDestinationAddress", SetExtendedDestinationAddress(coordinator))

\* sprintf(payload, "%d\n", number)
sprintf ==
  /\ Doing("sprintf")
  /\ number' = (number + 1) % NumberRange
  /\ Done
  /\ UNCHANGED <<vars, program, mac802154, restarts, unread>>

\* The digits and the newline; an int has 16 bits, so that "%d" shows the upper half
\* of the numbers as negative ones.
TextLength(n) ==
  LET digits(k) == IF k < 10 THEN 1 ELSE IF k < 100 THEN 2 ELSE IF k < 1000 THEN 3
                   ELSE IF k < 10000 THEN 4 ELSE 5
  IN IF n < 32768 THEN digits(n) + 1 ELSE digits(65536 - n) + 2

setPayloadToText == Calls("setPayloadToText", SetPayload(text, TextLength(number)))

sendBlocking == Calls("sendBlocking", SendBlocking)

SendBlockingSteps ==
  SendSteps /\ UNCHANGED <<program, todo, mac802154, number, restarts, unread>>

\* The memory of the microcontroller starts anew; the chip keeps what it has, and
\* its first reset is the one in reconfigure.
Restart ==
  /\ restarts < MaxRestarts
  /\ restarts' = restarts + 1
  /\ todo' = program.setup \o program.loop
  /\ mac802154' = Null
  /\ number' = 0
  /\ unread' = FALSE
  /\ mrf' = StaticMemory /\ config' = Null /\ pc' = "unconfigured" /\ writes' = <<>>
  /\ size' = Null /\ packet' = Null /\ available' = FALSE
  /\ request' = NothingRequested /\ arrived' = FALSE /\ overtaken' = FALSE
  /\ UNCHANGED <<program, chip>>

\* The turns of the loop, and all the processor does.
LoopSteps ==
  \/ newPacketAvailable \/ getReceivedPacketSize \/ fetchPacketBlocking \/ ifE
  \/ setShortDestinationAddress \/ setPayload \/ sprintf \/ setPayloadToText
  \/ sendBlocking \/ SendBlockingSteps \/ debug

ProcessorSteps ==
  \/ setUpMac \/ setUpDebugging \/ configure \/ ConfigureSteps
  \/ enablePromiscuousMode \/ setExtendedDestinationAddress \/ LoopSteps

TransmissionIsOver ==
  TransmissionEnds /\ UNCHANGED <<program, todo, mac802154, number, restarts, unread>>

PacketComesIn(p) ==
  /\ Receive(p)
  /\ unread' = TRUE
  /\ UNCHANGED <<program, todo, mac802154, number, restarts>>

ApplicationsNext ==
  \/ ProcessorSteps
  \/ Restart
  \/ TransmissionIsOver
  \/ \E p \in Packets : PacketComesIn(p)

ApplicationsSpec == ApplicationsInit /\ [][ApplicationsNext]_app_vars

-----------------------------------------------------------------------------
(* Properties.                                                             *)

Runs(name) == program.name = name
InLoop == pc \in ReadyStates /\ Len(todo) <= Len(program.loop)

\* The driver's variables and those of the program have their types.
ApplicationsTypeOK ==
  /\ TypeOK
  /\ program \in Programs
  /\ Len(todo) \in 1 .. Len(program.setup \o program.loop)
  /\ mac802154 \in {Null, "created"}
  /\ number \in 0 .. (NumberRange - 1)
  /\ unread \in BOOLEAN

\* The buffer holds all of the packet.
IsWhole(fetched) == fetched.size >= fetched.content.length + frame_length_field_size

\* The echo of a packet that was fetched whole, while further packets come in: it
\* goes to the first two bytes of the source address, which are all of it only if
\* it is short, with the payload of the packet.  The two programs differ in the
\* order of their setters.  EchoMessageBlocking sets the payload last: all of the
\* payload is sent, and nothing else.  PrintTXBuffer sets it first: its echo is
\* longer or shorter than the payload by what the header lost or gained since, six
\* bytes in the first echo (EchoMessageBlocking.c:29-33, PrintTXBuffer.c:36-41).
EchoIsFaithful ==
  (/\ transmitting /\ packet # Null /\ pc \in ReadyStates
   /\ program.name \in {"EchoMessageBlocking", "PrintTXBuffer"}
   /\ IsWhole(packet)) =>
    LET frame    == FrameInFifo
        received == packet.content
    IN /\ frame.destination = [i \in 0 .. 1 |-> received.source[i]]
       /\ frame.payload = [buffer |-> "packet", start |-> received.payload.start]
       /\ frame.length =
            uint8(received.payload.length + request.header_size - frame.header_size)
       /\ Runs("EchoMessageBlocking") => frame.header_size = request.header_size

\* Every frame of SendOneFrameBlocking goes to the coordinator and carries the
\* text of the current number, its length too where the digits become more
\* (SendOneFrameBlocking.c:36-42).
NumberIsSentAsFormatted ==
  (transmitting /\ Runs("SendOneFrameBlocking") /\ pc \in ReadyStates) =>
    LET frame == FrameInFifo
    IN /\ frame.destination = coordinator
       /\ frame.payload = text
       /\ frame.length = TextLength(number)

\* EchoMessageBlocking answers no packet twice, though a packet may come in
\* between the question and the fetch and leave its interrupt bit behind: the
\* polling of sendBlocking removes it (EchoMessageBlocking.c:23-33).
NoPacketIsAnsweredTwice ==
  [][(fetchPacketBlocking /\ Runs("EchoMessageBlocking")) => unread]_app_vars

\* From setPayload, which keeps a pointer and a length, to the end of the frame.
PayloadIsNeeded ==
  LET left == {todo[i] : i \in DOMAIN todo}
  IN \/ transmitting
     \/ pc \in {"write payload", "trigger", "poll"}
     \/ "sendBlocking" \in left /\ left \cap {"setPayload", "setPayloadToText"} = {}

\* "The payload needs to be alive in memory while transmission is running"
\* (Mac802154.h:87-89), and from setPayload on, which copies nothing
\* (MRFState.c:36-40): no program writes the buffer its payload is in before the
\* chip is done with it, unless the microcontroller restarts.
PayloadStaysAlive ==
  [][(PayloadIsNeeded /\ restarts' = restarts) => UNCHANGED <<number, packet>>]_app_vars

\* A restart at any moment, during a transmission too, leaves nothing behind that
\* ends the wait of a later sendBlocking or lets it write into a frame on air: the
\* reset in reconfigure comes first (Mac802154MRFImpl.c:66, 124-130).
SendsAreSeparate ==
  [][/\ pc = "poll" /\ pc' = "ready" => ~transmitting
     /\ transmitting /\ transmitting' => UNCHANGED tx_fifo]_app_vars

\* NetworkMonitor fetches every packet, unless a later one replaces it in the FIFO
\* or the microcontroller restarts (NetworkMonitor.c:40-44).
EveryPacketIsShown ==
  \A p \in Packets :
    (Runs("NetworkMonitor") /\ InLoop /\ unread /\ rx_fifo = p)
      ~> (~unread \/ rx_fifo # p \/ ~InLoop)

\* periodicUsbTask "needs to be called periodically in short intervals from the
\* main method" (LUFAHelpers.h:17): it is called by debug() alone.
\* SendOneFrameBlocking prints again and again, since every send returns, unless
\* the microcontroller restarts.  How long a turn takes, with its delay of a second
\* (SendOneFrameBlocking.c:37), is not modelled: how short the intervals are stays
\* open.  NetworkMonitor prints only when a packet came in.
UsbIsServedBySender ==
  (Runs("SendOneFrameBlocking") /\ InLoop)
    ~> ((Head(todo) = "debug" /\ pc = "ready") \/ ~InLoop)

=============================================================================
