-------------------------- MODULE Applications_proofs --------------------------
(***************************************************************************)
(* The programs on the driver and the chip, for any number of restarts and *)
(* any packets of nodes that run this library: restarts do not get in the  *)
(* way of later sends, packets are fetched whole, a payload stays where it *)
(* is while it is sent, no packet is answered twice, and echo and text go  *)
(* on air as they should.                                                  *)
(***************************************************************************)
EXTENDS EchoWithPeer, Mac802154MRF_proofs

\* The chip sends, or holds the interrupt bit of the end of a transmission.
Busy == transmitting \/ TXInterrupt \in int_status

\* The first transaction of reconfigure is still to be done.
ResetIsNext == pc = "configuring" /\ writes = ConfigurationWrites(config)

\* A transmission of before a restart is over before the driver is ready again,
\* because reconfigure resets the chip before anything else.
LeftoversAreReset ==
  /\ Busy => pc \in {"poll", "unconfigured"} \/ ResetIsNext
  /\ transmitting => TXInterrupt \notin int_status
  /\ pc = "configuring" => config \in Configs
  /\ program \in Programs

SeparateStep ==
  /\ pc = "poll" /\ pc' = "ready" => ~transmitting
  /\ transmitting /\ transmitting' => UNCHANGED tx_fifo

-----------------------------------------------------------------------------
(* The constants.                                                          *)

LEMMA NumberRangeIsSmall == NumberRange \in Nat /\ 1 <= NumberRange /\ NumberRange <= 65536
BY ApplicationsAssumption

LEMMA NumberFits ==
  ASSUME number \in 0 .. (NumberRange - 1)
  PROVE  number \in Nat /\ number < 65536
BY NumberRangeIsSmall

LEMMA ConfigOfProgram == \A p \in Programs : p.config \in Configs
BY ApplicationsAssumption

-----------------------------------------------------------------------------
(* The reset is the first of the transactions of reconfigure.              *)

\* reconfigure begins with the software reset, whatever the configuration.
LEMMA ResetIsFirst ==
  ASSUME NEW new_config \in ConfigType
  PROVE  LET writes_left == ConfigurationWrites(new_config)
         IN /\ writes_left # <<>>
            /\ Head(writes_left) = Head(reset)
<1>1. /\ new_config.short_source_address    \in [0 .. (2 - 1) -> Byte]
      /\ new_config.extended_source_address \in [0 .. (8 - 1) -> Byte]
      /\ new_config.pan_id                  \in [0 .. (2 - 1) -> Byte]
      /\ new_config.channel \in Int
  <2>1. /\ new_config.short_source_address \in ShortBytes
        /\ new_config.extended_source_address \in ExtendedBytes
        /\ new_config.pan_id \in PanIdBytes /\ new_config.channel \in Byte
    BY DEF ConfigType
  <2>2. 2 - 1 = 1 /\ 8 - 1 = 7 /\ \A b \in Byte : b \in Int
    BY DEF Byte
  <2> QED BY <2>1, <2>2, Zenon DEF ShortBytes, ExtendedBytes, PanIdBytes
<1>2. /\ HasLength(ConfigurationWrites(new_config), 30)
      /\ Head(ConfigurationWrites(new_config)) = Head(reset)
  BY <1>1, ReconfigureSettles
<1>3. \A s \in Seq(ByteWrites) : Len(s) = 30 => s # <<>>
  OBVIOUS
<1>4. ConfigurationWrites(new_config) # <<>>
  BY <1>2, <1>3, Zenon DEF HasLength
<1> QED BY <1>2, <1>4, Zenon

\* The transaction of the reset reaches the reset register.
LEMMA ResetTransaction ==
  /\ CellOfByte(Head(reset).command, 1) = Cell("short", mrf_register_software_reset)
  /\ Head(reset).payload[1] = mrf_value_full_software_reset
<1>1. Head(reset) = [command |-> <<85>>, payload |-> <<7>>, size |-> 1]
  BY DEF reset, MrfIo_setControlRegister, writeBlockingWithCommand, isLongAddress,
     LastShortControlRegisterAddress,
         setWriteShortCommand, MRF_writeShortCommand, uint8,
         mrf_register_software_reset, mrf_value_full_software_reset
<1>2. CellOfByte(<<85>>, 1) = Cell("short", 42)
  BY DEF CellOfByte, IsLongCommand, CommandAddress
<1> QED BY <1>1, <1>2 DEF mrf_register_software_reset, mrf_value_full_software_reset

-----------------------------------------------------------------------------
(* The steps.                                                              *)

LEMMA LeftoversAreResetInitially == ApplicationsInit => LeftoversAreReset
BY DEF ApplicationsInit, Init, LeftoversAreReset, Busy, ResetIsNext

\* The calls that leave alone what the chip sends and where the driver is.
LEMMA QuietStep ==
  ASSUME LeftoversAreReset,
         UNCHANGED <<pc, writes, config, transmitting, tx_fifo, program>>,
         int_status' \ {RXInterrupt} \subseteq int_status
  PROVE  LeftoversAreReset' /\ SeparateStep
BY DEF LeftoversAreReset, SeparateStep, Busy, ResetIsNext, TXInterrupt, RXInterrupt

\* While the driver configures: nothing of before the reset survives it.
LEMMA WriteConfigurationStep ==
  ASSUME LeftoversAreReset, WriteConfiguration, UNCHANGED program
  PROVE  LeftoversAreReset' /\ SeparateStep
<1>1. pc = "configuring" /\ UNCHANGED <<pc, config, tx_fifo>>
  BY DEF WriteConfiguration, application
<1>2. CASE Busy
  <2>1. writes = ConfigurationWrites(config) /\ config \in ConfigType
    BY <1>1, <1>2, DriverAssumption DEF LeftoversAreReset, ResetIsNext
  <2>2. Head(writes) = Head(reset)
    BY <2>1, ResetIsFirst
  <2>3. transmitting' = FALSE /\ int_status' = {}
    BY <2>2, ResetTransaction DEF WriteConfiguration
  <2> QED BY <1>1, <2>3 DEF LeftoversAreReset, SeparateStep, Busy
<1>3. CASE ~Busy
  <2>1. ~transmitting' /\ TXInterrupt \notin int_status'
    BY <1>3 DEF WriteConfiguration, Busy
  <2> QED BY <1>1, <2>1 DEF LeftoversAreReset, SeparateStep, Busy
<1> QED BY <1>2, <1>3

\* When there is nothing left to write, the reset was done long ago.
LEMMA FinishConfigurationStep ==
  ASSUME LeftoversAreReset, FinishConfiguration, UNCHANGED program
  PROVE  LeftoversAreReset' /\ SeparateStep
<1>1. /\ pc = "configuring" /\ pc' = "ready" /\ writes = <<>>
      /\ UNCHANGED <<transmitting, tx_fifo, int_status>>
  BY DEF FinishConfiguration, chip
<1>2. config \in ConfigType
  BY <1>1, DriverAssumption DEF LeftoversAreReset
<1>3. ~ResetIsNext
  BY <1>1, <1>2, ResetIsFirst DEF ResetIsNext
<1>4. ~Busy
  BY <1>1, <1>3 DEF LeftoversAreReset
<1> QED BY <1>1, <1>4 DEF LeftoversAreReset, SeparateStep, Busy

\* sendBlocking starts on an idle chip and waits for the end of what it started.
LEMMA SendStep ==
  ASSUME LeftoversAreReset, SendBlocking \/ SendSteps, UNCHANGED program
  PROVE  LeftoversAreReset' /\ SeparateStep
<1>1. CASE SendBlocking \/ WritePayloadField
  <2>1. /\ pc \in {"ready", "write payload"} /\ pc' \in {"write payload", "trigger"}
        /\ UNCHANGED <<transmitting, int_status>>
    BY <1>1 DEF SendBlocking, WritePayloadField
  <2> QED BY <2>1 DEF LeftoversAreReset, SeparateStep, Busy, ResetIsNext
<1>2. CASE TriggerSend
  BY <1>2 DEF TriggerSend, LeftoversAreReset, SeparateStep, Busy, ResetIsNext
<1>3. CASE PollInterruptStatus
  <2>1. /\ pc = "poll" /\ pc' \in {"poll", "ready"} /\ int_status' = {}
        /\ pc' = "ready" => TXInterrupt \in int_status
        /\ UNCHANGED <<transmitting, tx_fifo>>
    BY <1>3 DEF PollInterruptStatus
  <2> QED BY <2>1 DEF LeftoversAreReset, SeparateStep, Busy, ResetIsNext
<1> QED BY <1>1, <1>2, <1>3 DEF SendSteps

LEMMA LeftoversStayReset ==
  ASSUME LeftoversAreReset, [ApplicationsNext]_app_vars
  PROVE  LeftoversAreReset' /\ SeparateStep
<1>1. CASE \/ setUpMac \/ setUpDebugging \/ debug \/ ifE \/ sprintf
           \/ UNCHANGED app_vars
  BY <1>1, QuietStep DEF setUpMac, setUpDebugging, debug, ifE, sprintf, Makes,
     vars, app_vars
<1>2. CASE configure
  <2>1. /\ pc \in {"unconfigured", "ready"} /\ pc' = "configuring"
        /\ config' = program.config /\ writes' = ConfigurationWrites(config')
        /\ UNCHANGED <<transmitting, tx_fifo, int_status, program>>
    BY <1>2 DEF configure, Calls, Makes, Reconfigure, chip
  <2>2. config' \in Configs
    <3>1. program \in Programs
      BY DEF LeftoversAreReset
    <3>2. program.config \in Configs
      BY <3>1, ConfigOfProgram, Zenon
    <3> QED BY <2>1, <3>2
  <2> QED BY <2>1, <2>2 DEF LeftoversAreReset, SeparateStep, Busy, ResetIsNext
<1>3. CASE ConfigureSteps
  BY <1>3, WriteConfigurationStep, FinishConfigurationStep DEF ConfigureSteps
<1>4. CASE enablePromiscuousMode
  BY <1>4, QuietStep DEF enablePromiscuousMode, Calls, Makes, EnablePromiscuousMode,
     SetPromiscuousMode, driver
<1>5. CASE newPacketAvailable
  BY <1>5, QuietStep DEF newPacketAvailable, NewMessageAvailable, driver
<1>6. CASE getReceivedPacketSize \/ fetchPacketBlocking
  BY <1>6, QuietStep DEF getReceivedPacketSize, fetchPacketBlocking, Calls, Makes,
     GetReceivedMessageSize, FetchMessageBlocking, driver, chip
<1>7. CASE setShortDestinationAddress \/ setExtendedDestinationAddress
           \/ setPayload \/ setPayloadToText
  BY <1>7, QuietStep DEF setShortDestinationAddress, setExtendedDestinationAddress,
     setPayload, setPayloadToText, Calls, Makes, SetShortDestinationAddress,
     SetExtendedDestinationAddress, SetPayload, SetUp, chip
<1>8. CASE sendBlocking \/ SendBlockingSteps
  BY <1>8, SendStep DEF sendBlocking, SendBlockingSteps, Calls, Makes
<1>9. CASE Restart
  BY <1>9 DEF Restart, chip, LeftoversAreReset, SeparateStep, Busy
<1>10. CASE TransmissionIsOver
  BY <1>10 DEF TransmissionIsOver, TransmissionEnds, driver, LeftoversAreReset,
     SeparateStep, Busy, ResetIsNext
<1>11. CASE \E p \in Packets : PacketComesIn(p)
  BY <1>11, QuietStep DEF PacketComesIn, Receive, driver
<1> QED
  BY <1>1, <1>2, <1>3, <1>4, <1>5, <1>6, <1>7, <1>8, <1>9, <1>10, <1>11
     DEF ApplicationsNext, ProcessorSteps, LoopSteps

\* Whatever program runs, however often and whenever the microcontroller restarts:
\* sendBlocking returns only when nothing is on air, and no frame is changed while
\* it is.
THEOREM SendsStaySeparate == ApplicationsSpec => SendsAreSeparate
<1>1. LeftoversAreReset /\ [ApplicationsNext]_app_vars => LeftoversAreReset'
  BY LeftoversStayReset
<1>2. LeftoversAreReset /\ [ApplicationsNext]_app_vars => [SeparateStep]_app_vars
  BY LeftoversStayReset
<1>3. ApplicationsSpec => [][SeparateStep]_app_vars
  BY LeftoversAreResetInitially, <1>1, <1>2, PTL DEF ApplicationsSpec
<1> QED BY <1>3 DEF SendsAreSeparate, SeparateStep

-----------------------------------------------------------------------------
(* Where a program is.                                                     *)

\* The calls of a program, and the one to be made when `n' are left.
AllCalls(p) == p.setup \o p.loop
Call(calls, n) == calls[Len(calls) - n + 1]
CallAt(p, n) == Call(AllCalls(p), n)

Left == Len(todo)

CallNames ==
  {"setUpDebugging", "setUpMac", "configure", "enablePromiscuousMode", "debug",
   "newPacketAvailable", "getReceivedPacketSize", "fetchPacketBlocking", "if 'e'",
   "setShortDestinationAddress", "setExtendedDestinationAddress", "setPayload",
   "sprintf", "setPayloadToText", "sendBlocking"}

\* How many calls are left after configure.
LeftAfterConfigure(p) ==
  CASE p = EchoMessageBlocking  -> 6
    [] p = NetworkMonitor       -> 6
    [] p = SendOneFrameBlocking -> 5
    [] p = PrintTXBuffer        -> 8

\* The calls `calls' are the last ones of the program `p'.
Following(p, calls) ==
  /\ calls \in Seq(CallNames)
  /\ Len(calls) \in 1 .. Len(AllCalls(p))
  /\ \A i \in 1 .. Len(calls) : calls[i] = CallAt(p, Len(calls) - i + 1)

\* The calls left are the last ones of the program, the driver is configured once
\* configure is behind, and it sends only after the last call of the loop.
OnTrack ==
  /\ program \in Programs
  /\ Following(program, todo)
  /\ pc = "unconfigured" <=> Left > LeftAfterConfigure(program)
  /\ pc = "configuring" => Left = LeftAfterConfigure(program)
  /\ pc \in Sending => Left = Len(program.loop)

\* The program is `p', and `n' calls are left.
At(p, n) == program = p /\ Left = n

\* The size that was read is that of the packet in the FIFO, unless another one came
\* in since, and there is none while the driver configures.
SizeIsCurrent ==
  /\ size # Null => rx_fifo \in Packets /\ pc \in ReadyStates
  /\ size # Null /\ ~overtaken => size = rx_fifo.length + 1

\* A receive interrupt that is to be seen by newPacketAvailable is that of a packet
\* nobody fetched.
InterruptIsUnread ==
  /\ RXInterrupt \in int_status => arrived \/ pc = "unconfigured" \/ ResetIsNext
  /\ program = EchoMessageBlocking /\ Left \in {4, 5} => unread
  /\ /\ program = EchoMessageBlocking /\ Left \in 4 .. 6
     /\ pc \in {"configuring", "ready"} /\ ~ResetIsNext
     /\ RXInterrupt \in int_status
     => unread

\* What was fetched is a packet; the request goes to the first two bytes of where it
\* came from; the request carries its payload.
Fetched  == packet.content \in Packets
Returned == request.destination = [i \in 0 .. 1 |-> packet.content.source[i]]
Carried  == /\ request.payload = [buffer |-> "packet", start |-> packet.content.payload.start]
            /\ request.length = packet.content.payload.length
            /\ request.header_size # 0

\* The header has not changed size since the payload was set.
Fits == request.header_size = HeaderSize(mrf)

\* The variables the programs add have their types.
OwnTypes ==
  /\ mac802154 \in {Null, "created"}
  /\ number \in 0 .. (NumberRange - 1)
  /\ restarts \in Nat
  /\ unread \in BOOLEAN

\* What the programs that send have done so far, by the calls that are left.  While
\* they send they are at the start of their loop already.
EchoAnswers ==
  program = EchoMessageBlocking =>
    /\ Left \in 1 .. 3 \/ pc \in Sending => Fetched
    /\ Left \in 1 .. 2 \/ pc \in Sending => Returned
    /\ Left = 1 \/ pc \in Sending => Carried /\ Fits

PrintAnswers ==
  program = PrintTXBuffer =>
    /\ Left \in 1 .. 5 \/ pc \in Sending => Fetched
    /\ Left \in 1 .. 2 \/ pc \in Sending => Carried
    /\ Left = 1 \/ pc \in Sending => Returned

SenderSendsText ==
  program = SendOneFrameBlocking =>
    /\ Left \in 1 .. 4 => request.destination = coordinator
    /\ Left = 1 \/ pc \in Sending =>
         request.payload = text /\ request.length = TextLength(number) /\ Fits

LEMMA CallsHaveNames ==
  /\ "setUpDebugging" \in CallNames
  /\ "setUpMac" \in CallNames
  /\ "configure" \in CallNames
  /\ "enablePromiscuousMode" \in CallNames
  /\ "newPacketAvailable" \in CallNames
  /\ "getReceivedPacketSize" \in CallNames
  /\ "fetchPacketBlocking" \in CallNames
  /\ "debug" \in CallNames
  /\ "if 'e'" \in CallNames
  /\ "setPayload" \in CallNames
  /\ "setShortDestinationAddress" \in CallNames
  /\ "setExtendedDestinationAddress" \in CallNames
  /\ "sprintf" \in CallNames
  /\ "setPayloadToText" \in CallNames
  /\ "sendBlocking" \in CallNames
BY DEF CallNames

\* The calls of EchoMessageBlocking.c, the last one first.
LEMMA EchoCalls ==
  /\ Len(EchoMessageBlocking.loop) = 6 /\ Len(AllCalls(EchoMessageBlocking)) = 8
  /\ EchoMessageBlocking.loop \in Seq(CallNames) /\ AllCalls(EchoMessageBlocking) \in Seq(CallNames)
  /\ CallAt(EchoMessageBlocking, 1) = "sendBlocking"
  /\ CallAt(EchoMessageBlocking, 2) = "setPayload"
  /\ CallAt(EchoMessageBlocking, 3) = "setShortDestinationAddress"
  /\ CallAt(EchoMessageBlocking, 4) = "fetchPacketBlocking"
  /\ CallAt(EchoMessageBlocking, 5) = "getReceivedPacketSize"
  /\ CallAt(EchoMessageBlocking, 6) = "newPacketAvailable"
  /\ CallAt(EchoMessageBlocking, 7) = "configure"
  /\ CallAt(EchoMessageBlocking, 8) = "setUpMac"
  /\ \A i \in 1 .. Len(EchoMessageBlocking.loop) :
       EchoMessageBlocking.loop[i] = CallAt(EchoMessageBlocking,
           Len(EchoMessageBlocking.loop) - i + 1)
<1> DEFINE Turn(c3, c4, c5, c6, c7, c8) == <<c3, c4, c5>> \o <<c6, c7, c8>>
           All(c1, c2, c3, c4, c5, c6, c7, c8) == <<c1, c2>> \o Turn(c3, c4, c5, c6, c7, c8)
           Listed(S, turn, all, c1, c2, c3, c4, c5, c6, c7, c8) ==
             /\ turn \in Seq(S) /\ Len(turn) = 6
             /\ all \in Seq(S) /\ Len(all) = 8
             /\ all[1] = c1 /\ all[2] = c2 /\ all[3] = c3 /\ all[4] = c4 /\ all[5] = c5
                    /\ all[6] = c6 /\ all[7] = c7 /\ all[8] = c8
             /\ \A i \in 1 .. 6 : turn[i] = all[2 + i]
<1>1. ASSUME NEW S, NEW c1 \in S, NEW c2 \in S, NEW c3 \in S, NEW c4 \in S, NEW c5 \in S,
                 NEW c6 \in S, NEW c7 \in S, NEW c8 \in S
      PROVE  Listed(S, Turn(c3, c4, c5, c6, c7, c8), All(c1, c2, c3, c4, c5, c6, c7, c8), c1,
                 c2, c3, c4, c5, c6, c7, c8)
  OBVIOUS
<1> DEFINE turn == Turn("newPacketAvailable", "getReceivedPacketSize", "fetchPacketBlocking",
                       "setShortDestinationAddress", "setPayload", "sendBlocking")
           all  == All("setUpMac", "configure", "newPacketAvailable", "getReceivedPacketSize",
                       "fetchPacketBlocking", "setShortDestinationAddress", "setPayload",
                       "sendBlocking")
<1>2. EchoMessageBlocking.loop = turn /\ AllCalls(EchoMessageBlocking) = all
  BY DEF AllCalls, EchoMessageBlocking, AskAndFetch, FetchUnasked
<1> HIDE DEF Turn, All, Listed
<1>3. Listed(CallNames, turn, all, "setUpMac", "configure", "newPacketAvailable",
          "getReceivedPacketSize", "fetchPacketBlocking", "setShortDestinationAddress",
          "setPayload", "sendBlocking")
  BY <1>1, CallsHaveNames, Zenon
<1> HIDE DEF turn, all
<1> DEFINE Told(t, l) ==
             /\ Len(t) = 6 /\ Len(l) = 8 /\ t \in Seq(CallNames) /\ l \in Seq(CallNames)
             /\ Call(l, 1) = "sendBlocking"
             /\ Call(l, 2) = "setPayload"
             /\ Call(l, 3) = "setShortDestinationAddress"
             /\ Call(l, 4) = "fetchPacketBlocking"
             /\ Call(l, 5) = "getReceivedPacketSize"
             /\ Call(l, 6) = "newPacketAvailable"
             /\ Call(l, 7) = "configure"
             /\ Call(l, 8) = "setUpMac"
             /\ \A i \in 1 .. Len(t) : t[i] = Call(l, Len(t) - i + 1)
<1>4. ASSUME NEW t, NEW l, Listed(CallNames, t, l, "setUpMac", "configure",
                 "newPacketAvailable", "getReceivedPacketSize", "fetchPacketBlocking",
                 "setShortDestinationAddress", "setPayload", "sendBlocking")
      PROVE  Told(t, l)
  <2>1. Len(t) = 6 /\ Len(l) = 8 /\ t \in Seq(CallNames) /\ l \in Seq(CallNames)
    BY <1>4 DEF Listed
  <2>2. ASSUME NEW i \in 1 .. Len(t) PROVE t[i] = Call(l, Len(t) - i + 1)
    <3>1. t[i] = l[2 + i]
      BY <1>4, <2>1 DEF Listed
    <3>2. Len(l) - (Len(t) - i + 1) + 1 = 2 + i
      BY <2>1
    <3> QED BY <3>1, <3>2 DEF Call
  <2>3. /\ Call(l, 1) = l[8]
        /\ Call(l, 2) = l[7]
        /\ Call(l, 3) = l[6]
        /\ Call(l, 4) = l[5]
        /\ Call(l, 5) = l[4]
        /\ Call(l, 6) = l[3]
        /\ Call(l, 7) = l[2]
        /\ Call(l, 8) = l[1]
    BY <2>1 DEF Call
  <2> QED BY <1>4, <2>1, <2>2, <2>3, Zenon DEF Listed
<1>5. Told(EchoMessageBlocking.loop, AllCalls(EchoMessageBlocking))
  <2> HIDE DEF Told
  <2> QED BY <1>2, <1>3, <1>4, Zenon
<1> QED BY <1>5, Zenon DEF CallAt

\* The calls of NetworkMonitor.c, the last one first.
LEMMA MonitorCalls ==
  /\ Len(NetworkMonitor.loop) = 4 /\ Len(AllCalls(NetworkMonitor)) = 9
  /\ NetworkMonitor.loop \in Seq(CallNames) /\ AllCalls(NetworkMonitor) \in Seq(CallNames)
  /\ CallAt(NetworkMonitor, 1) = "debug"
  /\ CallAt(NetworkMonitor, 2) = "fetchPacketBlocking"
  /\ CallAt(NetworkMonitor, 3) = "getReceivedPacketSize"
  /\ CallAt(NetworkMonitor, 4) = "newPacketAvailable"
  /\ CallAt(NetworkMonitor, 5) = "debug"
  /\ CallAt(NetworkMonitor, 6) = "enablePromiscuousMode"
  /\ CallAt(NetworkMonitor, 7) = "configure"
  /\ CallAt(NetworkMonitor, 8) = "setUpMac"
  /\ CallAt(NetworkMonitor, 9) = "setUpDebugging"
  /\ \A i \in 1 .. Len(NetworkMonitor.loop) :
       NetworkMonitor.loop[i] = CallAt(NetworkMonitor, Len(NetworkMonitor.loop) - i + 1)
<1> DEFINE Turn(c6, c7, c8, c9) == <<c6, c7, c8>> \o <<c9>>
           All(c1, c2, c3, c4, c5, c6, c7, c8, c9) == <<c1, c2, c3, c4, c5>> \o Turn(c6, c7, c8, c9)
           Listed(S, turn, all, c1, c2, c3, c4, c5, c6, c7, c8, c9) ==
             /\ turn \in Seq(S) /\ Len(turn) = 4
             /\ all \in Seq(S) /\ Len(all) = 9
             /\ all[1] = c1 /\ all[2] = c2 /\ all[3] = c3 /\ all[4] = c4 /\ all[5] = c5
                    /\ all[6] = c6 /\ all[7] = c7 /\ all[8] = c8 /\ all[9] = c9
             /\ \A i \in 1 .. 4 : turn[i] = all[5 + i]
<1>1. ASSUME NEW S, NEW c1 \in S, NEW c2 \in S, NEW c3 \in S, NEW c4 \in S, NEW c5 \in S,
                 NEW c6 \in S, NEW c7 \in S, NEW c8 \in S, NEW c9 \in S
      PROVE  Listed(S, Turn(c6, c7, c8, c9), All(c1, c2, c3, c4, c5, c6, c7, c8, c9), c1, c2,
                 c3, c4, c5, c6, c7, c8, c9)
  OBVIOUS
<1> DEFINE turn == Turn("newPacketAvailable", "getReceivedPacketSize", "fetchPacketBlocking",
                       "debug")
           all  == All("setUpDebugging", "setUpMac", "configure", "enablePromiscuousMode",
                       "debug", "newPacketAvailable", "getReceivedPacketSize",
                       "fetchPacketBlocking", "debug")
<1>2. NetworkMonitor.loop = turn /\ AllCalls(NetworkMonitor) = all
  BY DEF AllCalls, NetworkMonitor, AskAndFetch, FetchUnasked
<1> HIDE DEF Turn, All, Listed
<1>3. Listed(CallNames, turn, all, "setUpDebugging", "setUpMac", "configure",
          "enablePromiscuousMode", "debug", "newPacketAvailable", "getReceivedPacketSize",
          "fetchPacketBlocking", "debug")
  BY <1>1, CallsHaveNames, Zenon
<1> HIDE DEF turn, all
<1> DEFINE Told(t, l) ==
             /\ Len(t) = 4 /\ Len(l) = 9 /\ t \in Seq(CallNames) /\ l \in Seq(CallNames)
             /\ Call(l, 1) = "debug"
             /\ Call(l, 2) = "fetchPacketBlocking"
             /\ Call(l, 3) = "getReceivedPacketSize"
             /\ Call(l, 4) = "newPacketAvailable"
             /\ Call(l, 5) = "debug"
             /\ Call(l, 6) = "enablePromiscuousMode"
             /\ Call(l, 7) = "configure"
             /\ Call(l, 8) = "setUpMac"
             /\ Call(l, 9) = "setUpDebugging"
             /\ \A i \in 1 .. Len(t) : t[i] = Call(l, Len(t) - i + 1)
<1>4. ASSUME NEW t, NEW l, Listed(CallNames, t, l, "setUpDebugging", "setUpMac", "configure",
                 "enablePromiscuousMode", "debug", "newPacketAvailable",
                 "getReceivedPacketSize", "fetchPacketBlocking", "debug")
      PROVE  Told(t, l)
  <2>1. Len(t) = 4 /\ Len(l) = 9 /\ t \in Seq(CallNames) /\ l \in Seq(CallNames)
    BY <1>4 DEF Listed
  <2>2. ASSUME NEW i \in 1 .. Len(t) PROVE t[i] = Call(l, Len(t) - i + 1)
    <3>1. t[i] = l[5 + i]
      BY <1>4, <2>1 DEF Listed
    <3>2. Len(l) - (Len(t) - i + 1) + 1 = 5 + i
      BY <2>1
    <3> QED BY <3>1, <3>2 DEF Call
  <2>3. /\ Call(l, 1) = l[9]
        /\ Call(l, 2) = l[8]
        /\ Call(l, 3) = l[7]
        /\ Call(l, 4) = l[6]
        /\ Call(l, 5) = l[5]
        /\ Call(l, 6) = l[4]
        /\ Call(l, 7) = l[3]
        /\ Call(l, 8) = l[2]
        /\ Call(l, 9) = l[1]
    BY <2>1 DEF Call
  <2> QED BY <1>4, <2>1, <2>2, <2>3, Zenon DEF Listed
<1>5. Told(NetworkMonitor.loop, AllCalls(NetworkMonitor))
  <2> HIDE DEF Told
  <2> QED BY <1>2, <1>3, <1>4, Zenon
<1> QED BY <1>5, Zenon DEF CallAt

\* The calls of SendOneFrameBlocking.c, the last one first.
LEMMA SenderCalls ==
  /\ Len(SendOneFrameBlocking.loop) = 4 /\ Len(AllCalls(SendOneFrameBlocking)) = 8
  /\ SendOneFrameBlocking.loop \in Seq(CallNames)
         /\ AllCalls(SendOneFrameBlocking) \in Seq(CallNames)
  /\ CallAt(SendOneFrameBlocking, 1) = "sendBlocking"
  /\ CallAt(SendOneFrameBlocking, 2) = "setPayloadToText"
  /\ CallAt(SendOneFrameBlocking, 3) = "debug"
  /\ CallAt(SendOneFrameBlocking, 4) = "sprintf"
  /\ CallAt(SendOneFrameBlocking, 5) = "setExtendedDestinationAddress"
  /\ CallAt(SendOneFrameBlocking, 6) = "configure"
  /\ CallAt(SendOneFrameBlocking, 7) = "setUpMac"
  /\ CallAt(SendOneFrameBlocking, 8) = "setUpDebugging"
  /\ \A i \in 1 .. Len(SendOneFrameBlocking.loop) :
       SendOneFrameBlocking.loop[i] = CallAt(SendOneFrameBlocking,
           Len(SendOneFrameBlocking.loop) - i + 1)
<1> DEFINE Turn(c5, c6, c7, c8) == <<c5, c6, c7, c8>>
           All(c1, c2, c3, c4, c5, c6, c7, c8) == <<c1, c2, c3, c4>> \o Turn(c5, c6, c7, c8)
           Listed(S, turn, all, c1, c2, c3, c4, c5, c6, c7, c8) ==
             /\ turn \in Seq(S) /\ Len(turn) = 4
             /\ all \in Seq(S) /\ Len(all) = 8
             /\ all[1] = c1 /\ all[2] = c2 /\ all[3] = c3 /\ all[4] = c4 /\ all[5] = c5
                    /\ all[6] = c6 /\ all[7] = c7 /\ all[8] = c8
             /\ \A i \in 1 .. 4 : turn[i] = all[4 + i]
<1>1. ASSUME NEW S, NEW c1 \in S, NEW c2 \in S, NEW c3 \in S, NEW c4 \in S, NEW c5 \in S,
                 NEW c6 \in S, NEW c7 \in S, NEW c8 \in S
      PROVE  Listed(S, Turn(c5, c6, c7, c8), All(c1, c2, c3, c4, c5, c6, c7, c8), c1, c2, c3,
                 c4, c5, c6, c7, c8)
  OBVIOUS
<1> DEFINE turn == Turn("sprintf", "debug", "setPayloadToText", "sendBlocking")
           all  == All("setUpDebugging", "setUpMac", "configure",
                       "setExtendedDestinationAddress", "sprintf", "debug", "setPayloadToText",
                       "sendBlocking")
<1>2. SendOneFrameBlocking.loop = turn /\ AllCalls(SendOneFrameBlocking) = all
  BY DEF AllCalls, SendOneFrameBlocking, AskAndFetch, FetchUnasked
<1> HIDE DEF Turn, All, Listed
<1>3. Listed(CallNames, turn, all, "setUpDebugging", "setUpMac", "configure",
          "setExtendedDestinationAddress", "sprintf", "debug", "setPayloadToText",
          "sendBlocking")
  BY <1>1, CallsHaveNames, Zenon
<1> HIDE DEF turn, all
<1> DEFINE Told(t, l) ==
             /\ Len(t) = 4 /\ Len(l) = 8 /\ t \in Seq(CallNames) /\ l \in Seq(CallNames)
             /\ Call(l, 1) = "sendBlocking"
             /\ Call(l, 2) = "setPayloadToText"
             /\ Call(l, 3) = "debug"
             /\ Call(l, 4) = "sprintf"
             /\ Call(l, 5) = "setExtendedDestinationAddress"
             /\ Call(l, 6) = "configure"
             /\ Call(l, 7) = "setUpMac"
             /\ Call(l, 8) = "setUpDebugging"
             /\ \A i \in 1 .. Len(t) : t[i] = Call(l, Len(t) - i + 1)
<1>4. ASSUME NEW t, NEW l, Listed(CallNames, t, l, "setUpDebugging", "setUpMac", "configure",
                 "setExtendedDestinationAddress", "sprintf", "debug", "setPayloadToText",
                 "sendBlocking")
      PROVE  Told(t, l)
  <2>1. Len(t) = 4 /\ Len(l) = 8 /\ t \in Seq(CallNames) /\ l \in Seq(CallNames)
    BY <1>4 DEF Listed
  <2>2. ASSUME NEW i \in 1 .. Len(t) PROVE t[i] = Call(l, Len(t) - i + 1)
    <3>1. t[i] = l[4 + i]
      BY <1>4, <2>1 DEF Listed
    <3>2. Len(l) - (Len(t) - i + 1) + 1 = 4 + i
      BY <2>1
    <3> QED BY <3>1, <3>2 DEF Call
  <2>3. /\ Call(l, 1) = l[8]
        /\ Call(l, 2) = l[7]
        /\ Call(l, 3) = l[6]
        /\ Call(l, 4) = l[5]
        /\ Call(l, 5) = l[4]
        /\ Call(l, 6) = l[3]
        /\ Call(l, 7) = l[2]
        /\ Call(l, 8) = l[1]
    BY <2>1 DEF Call
  <2> QED BY <1>4, <2>1, <2>2, <2>3, Zenon DEF Listed
<1>5. Told(SendOneFrameBlocking.loop, AllCalls(SendOneFrameBlocking))
  <2> HIDE DEF Told
  <2> QED BY <1>2, <1>3, <1>4, Zenon
<1> QED BY <1>5, Zenon DEF CallAt

\* The calls of PrintTXBuffer.c, the last one first.
LEMMA PrintCalls ==
  /\ Len(PrintTXBuffer.loop) = 7 /\ Len(AllCalls(PrintTXBuffer)) = 11
  /\ PrintTXBuffer.loop \in Seq(CallNames) /\ AllCalls(PrintTXBuffer) \in Seq(CallNames)
  /\ CallAt(PrintTXBuffer, 1) = "sendBlocking"
  /\ CallAt(PrintTXBuffer, 2) = "setShortDestinationAddress"
  /\ CallAt(PrintTXBuffer, 3) = "setPayload"
  /\ CallAt(PrintTXBuffer, 4) = "if 'e'"
  /\ CallAt(PrintTXBuffer, 5) = "debug"
  /\ CallAt(PrintTXBuffer, 6) = "fetchPacketBlocking"
  /\ CallAt(PrintTXBuffer, 7) = "getReceivedPacketSize"
  /\ CallAt(PrintTXBuffer, 8) = "debug"
  /\ CallAt(PrintTXBuffer, 9) = "configure"
  /\ CallAt(PrintTXBuffer, 10) = "setUpDebugging"
  /\ CallAt(PrintTXBuffer, 11) = "setUpMac"
  /\ \A i \in 1 .. Len(PrintTXBuffer.loop) :
       PrintTXBuffer.loop[i] = CallAt(PrintTXBuffer, Len(PrintTXBuffer.loop) - i + 1)
<1> DEFINE Turn(c5, c6, c7, c8, c9, c10, c11) == <<c5, c6>> \o <<c7, c8, c9, c10, c11>>
           All(c1, c2, c3, c4, c5, c6, c7, c8, c9, c10, c11) == <<c1, c2, c3, c4>> \o Turn(c5,
               c6, c7, c8, c9, c10, c11)
           Listed(S, turn, all, c1, c2, c3, c4, c5, c6, c7, c8, c9, c10, c11) ==
             /\ turn \in Seq(S) /\ Len(turn) = 7
             /\ all \in Seq(S) /\ Len(all) = 11
             /\ all[1] = c1 /\ all[2] = c2 /\ all[3] = c3 /\ all[4] = c4 /\ all[5] = c5
                    /\ all[6] = c6 /\ all[7] = c7 /\ all[8] = c8 /\ all[9] = c9
                    /\ all[10] = c10 /\ all[11] = c11
             /\ \A i \in 1 .. 7 : turn[i] = all[4 + i]
<1>1. ASSUME NEW S, NEW c1 \in S, NEW c2 \in S, NEW c3 \in S, NEW c4 \in S, NEW c5 \in S,
                 NEW c6 \in S, NEW c7 \in S, NEW c8 \in S, NEW c9 \in S, NEW c10 \in S,
                 NEW c11 \in S
      PROVE  Listed(S, Turn(c5, c6, c7, c8, c9, c10, c11), All(c1, c2, c3, c4, c5, c6, c7, c8,
                 c9, c10, c11), c1, c2, c3, c4, c5, c6, c7, c8, c9, c10, c11)
  OBVIOUS
<1> DEFINE turn == Turn("getReceivedPacketSize", "fetchPacketBlocking", "debug", "if 'e'",
                       "setPayload", "setShortDestinationAddress", "sendBlocking")
           all  == All("setUpMac", "setUpDebugging", "configure", "debug",
                       "getReceivedPacketSize", "fetchPacketBlocking", "debug", "if 'e'",
                       "setPayload", "setShortDestinationAddress", "sendBlocking")
<1>2. PrintTXBuffer.loop = turn /\ AllCalls(PrintTXBuffer) = all
  BY DEF AllCalls, PrintTXBuffer, AskAndFetch, FetchUnasked
<1> HIDE DEF Turn, All, Listed
<1>3. Listed(CallNames, turn, all, "setUpMac", "setUpDebugging", "configure", "debug",
          "getReceivedPacketSize", "fetchPacketBlocking", "debug", "if 'e'", "setPayload",
          "setShortDestinationAddress", "sendBlocking")
  BY <1>1, CallsHaveNames, Zenon
<1> HIDE DEF turn, all
<1> DEFINE Told(t, l) ==
             /\ Len(t) = 7 /\ Len(l) = 11 /\ t \in Seq(CallNames) /\ l \in Seq(CallNames)
             /\ Call(l, 1) = "sendBlocking"
             /\ Call(l, 2) = "setShortDestinationAddress"
             /\ Call(l, 3) = "setPayload"
             /\ Call(l, 4) = "if 'e'"
             /\ Call(l, 5) = "debug"
             /\ Call(l, 6) = "fetchPacketBlocking"
             /\ Call(l, 7) = "getReceivedPacketSize"
             /\ Call(l, 8) = "debug"
             /\ Call(l, 9) = "configure"
             /\ Call(l, 10) = "setUpDebugging"
             /\ Call(l, 11) = "setUpMac"
             /\ \A i \in 1 .. Len(t) : t[i] = Call(l, Len(t) - i + 1)
<1>4. ASSUME NEW t, NEW l, Listed(CallNames, t, l, "setUpMac", "setUpDebugging", "configure",
                 "debug", "getReceivedPacketSize", "fetchPacketBlocking", "debug", "if 'e'",
                 "setPayload", "setShortDestinationAddress", "sendBlocking")
      PROVE  Told(t, l)
  <2>1. Len(t) = 7 /\ Len(l) = 11 /\ t \in Seq(CallNames) /\ l \in Seq(CallNames)
    BY <1>4 DEF Listed
  <2>2. ASSUME NEW i \in 1 .. Len(t) PROVE t[i] = Call(l, Len(t) - i + 1)
    <3>1. t[i] = l[4 + i]
      BY <1>4, <2>1 DEF Listed
    <3>2. Len(l) - (Len(t) - i + 1) + 1 = 4 + i
      BY <2>1
    <3> QED BY <3>1, <3>2 DEF Call
  <2>3. /\ Call(l, 1) = l[11]
        /\ Call(l, 2) = l[10]
        /\ Call(l, 3) = l[9]
        /\ Call(l, 4) = l[8]
        /\ Call(l, 5) = l[7]
        /\ Call(l, 6) = l[6]
        /\ Call(l, 7) = l[5]
        /\ Call(l, 8) = l[4]
        /\ Call(l, 9) = l[3]
        /\ Call(l, 10) = l[2]
        /\ Call(l, 11) = l[1]
    BY <2>1 DEF Call
  <2> QED BY <1>4, <2>1, <2>2, <2>3, Zenon DEF Listed
<1>5. Told(PrintTXBuffer.loop, AllCalls(PrintTXBuffer))
  <2> HIDE DEF Told
  <2> QED BY <1>2, <1>3, <1>4, Zenon
<1> QED BY <1>5, Zenon DEF CallAt

\* The programs are four, by their names.
LEMMA FourPrograms ==
  /\ EchoMessageBlocking # NetworkMonitor /\ EchoMessageBlocking # SendOneFrameBlocking
  /\ EchoMessageBlocking # PrintTXBuffer /\ NetworkMonitor # SendOneFrameBlocking
  /\ NetworkMonitor # PrintTXBuffer /\ SendOneFrameBlocking # PrintTXBuffer
<1>1. /\ EchoMessageBlocking.name = "EchoMessageBlocking"
      /\ NetworkMonitor.name = "NetworkMonitor"
      /\ SendOneFrameBlocking.name = "SendOneFrameBlocking"
      /\ PrintTXBuffer.name = "PrintTXBuffer"
  BY DEF EchoMessageBlocking, NetworkMonitor, SendOneFrameBlocking, PrintTXBuffer
<1> QED BY <1>1

\* configure is made once, in the setup; the loop comes after it.
LEMMA Lengths ==
  /\ LeftAfterConfigure(EchoMessageBlocking) = 6
  /\ Len(EchoMessageBlocking.loop) = 6 /\ Len(AllCalls(EchoMessageBlocking)) = 8
  /\ LeftAfterConfigure(NetworkMonitor) = 6
  /\ Len(NetworkMonitor.loop) = 4 /\ Len(AllCalls(NetworkMonitor)) = 9
  /\ LeftAfterConfigure(SendOneFrameBlocking) = 5
  /\ Len(SendOneFrameBlocking.loop) = 4 /\ Len(AllCalls(SendOneFrameBlocking)) = 8
  /\ LeftAfterConfigure(PrintTXBuffer) = 8
  /\ Len(PrintTXBuffer.loop) = 7 /\ Len(AllCalls(PrintTXBuffer)) = 11
<1>1. /\ Len(EchoMessageBlocking.loop) = 6 /\ Len(AllCalls(EchoMessageBlocking)) = 8
      /\ Len(NetworkMonitor.loop) = 4 /\ Len(AllCalls(NetworkMonitor)) = 9
      /\ Len(SendOneFrameBlocking.loop) = 4 /\ Len(AllCalls(SendOneFrameBlocking)) = 8
      /\ Len(PrintTXBuffer.loop) = 7 /\ Len(AllCalls(PrintTXBuffer)) = 11
  BY EchoCalls, MonitorCalls, SenderCalls, PrintCalls, Zenon
<1> QED BY <1>1, FourPrograms, SMT DEF LeftAfterConfigure

LEMMA LoopAndAllCalls ==
  ASSUME NEW p \in Programs
  PROVE  /\ p.loop \in Seq(CallNames) /\ AllCalls(p) \in Seq(CallNames)
         /\ Len(p.loop) \in 1 .. LeftAfterConfigure(p)
         /\ LeftAfterConfigure(p) \in 1 .. Len(AllCalls(p)) - 1
         /\ \A i \in 1 .. Len(p.loop) : p.loop[i] = CallAt(p, Len(p.loop) - i + 1)
<1>1. \/ p = EchoMessageBlocking \/ p = NetworkMonitor
      \/ p = SendOneFrameBlocking \/ p = PrintTXBuffer
  BY ProgramsAssumption
<1>2. /\ Len(p.loop) \in 1 .. LeftAfterConfigure(p)
      /\ LeftAfterConfigure(p) \in 1 .. Len(AllCalls(p)) - 1
  <2>1. CASE p = EchoMessageBlocking
    <3>1. LeftAfterConfigure(p) = 6 /\ Len(p.loop) = 6 /\ Len(AllCalls(p)) = 8
      BY <2>1, Lengths, Zenon
    <3> QED BY <3>1
  <2>2. CASE p = NetworkMonitor
    <3>1. LeftAfterConfigure(p) = 6 /\ Len(p.loop) = 4 /\ Len(AllCalls(p)) = 9
      BY <2>2, Lengths, Zenon
    <3> QED BY <3>1
  <2>3. CASE p = SendOneFrameBlocking
    <3>1. LeftAfterConfigure(p) = 5 /\ Len(p.loop) = 4 /\ Len(AllCalls(p)) = 8
      BY <2>3, Lengths, Zenon
    <3> QED BY <3>1
  <2>4. CASE p = PrintTXBuffer
    <3>1. LeftAfterConfigure(p) = 8 /\ Len(p.loop) = 7 /\ Len(AllCalls(p)) = 11
      BY <2>4, Lengths, Zenon
    <3> QED BY <3>1
  <2> QED BY <1>1, <2>1, <2>2, <2>3, <2>4, Zenon
<1>3. /\ p.loop \in Seq(CallNames) /\ AllCalls(p) \in Seq(CallNames)
      /\ \A i \in 1 .. Len(p.loop) : p.loop[i] = CallAt(p, Len(p.loop) - i + 1)
  <2>1. CASE p = EchoMessageBlocking
    BY <2>1, EchoCalls, Zenon
  <2>2. CASE p = NetworkMonitor
    BY <2>2, MonitorCalls, Zenon
  <2>3. CASE p = SendOneFrameBlocking
    BY <2>3, SenderCalls, Zenon
  <2>4. CASE p = PrintTXBuffer
    BY <2>4, PrintCalls, Zenon
  <2> QED BY <1>1, <2>1, <2>2, <2>3, <2>4, Zenon
<1> QED BY <1>2, <1>3, Zenon

\* Where the calls of a program are, counted from its end.
LEMMA HeadIsCallAt ==
  ASSUME OnTrack
  PROVE  /\ Head(todo) = CallAt(program, Left)
         /\ todo \in Seq(CallNames) /\ todo # <<>> /\ Left \in Nat /\ Left >= 1
<1>1. /\ program \in Programs /\ Following(program, todo)
  BY DEF OnTrack
<1>2. /\ todo \in Seq(CallNames) /\ Left \in 1 .. Len(AllCalls(program))
      /\ \A i \in 1 .. Left : todo[i] = CallAt(program, Left - i + 1)
  BY <1>1 DEF Following, Left
<1>3. AllCalls(program) \in Seq(CallNames)
  BY <1>1, LoopAndAllCalls
<1>4. Left \in Nat /\ Left >= 1
  BY <1>2, <1>3
<1>5. todo # <<>> /\ Head(todo) = todo[1]
  BY <1>2, <1>4 DEF Left
<1>6. todo[1] = CallAt(program, Left - 1 + 1)
  BY <1>2, <1>4
<1>7. Left - 1 + 1 = Left
  BY <1>4
<1>8. todo[1] = CallAt(program, Left)
  BY <1>6, <1>7
<1> QED BY <1>2, <1>4, <1>5, <1>8

\* The calls left after one more is done.
LEMMA DoneMovesOn ==
  ASSUME OnTrack, Done, UNCHANGED program
  PROVE  /\ Following(program, todo')
         /\ Left' = IF Left = 1 THEN Len(program.loop) ELSE Left - 1
<1>1. program \in Programs
  BY DEF OnTrack
<1>2. CASE Left = 1
  <2>1. todo' = program.loop
    BY <1>2 DEF Done, Left
  <2>2. /\ Len(program.loop) \in Nat /\ Len(AllCalls(program)) \in Nat
        /\ 1 <= Len(program.loop) /\ Len(program.loop) <= Len(AllCalls(program))
    BY <1>1, LoopAndAllCalls
  <2>3. Following(program, program.loop)
    BY <1>1, <2>2, LoopAndAllCalls DEF Following
  <2> QED BY <1>2, <2>1, <2>3, Zenon DEF Left
<1>3. CASE Left # 1
  <2>1. todo' = Tail(todo)
    BY <1>3 DEF Done, Left
  <2>2. Following(program, todo) /\ AllCalls(program) \in Seq(CallNames)
    BY <1>1, LoopAndAllCalls DEF OnTrack
  <2>3. ASSUME NEW s \in Seq(CallNames), NEW n \in Nat, Len(s) \in 1 .. n, Len(s) # 1
        PROVE  /\ Tail(s) \in Seq(CallNames) /\ Len(Tail(s)) = Len(s) - 1
               /\ Len(Tail(s)) \in 1 .. n
               /\ \A i \in 1 .. Len(Tail(s)) :
                    /\ Tail(s)[i] = s[i + 1] /\ i + 1 \in 1 .. Len(s)
                    /\ Len(s) - (i + 1) + 1 = Len(Tail(s)) - i + 1
    <3>1. Len(s) \in Nat /\ Len(s) >= 2 /\ Len(s) <= n
      <4>1. \A k \in Nat : k \in 1 .. n /\ k # 1 => k >= 2 /\ k <= n
        OBVIOUS
      <4>2. Len(s) \in Nat
        OBVIOUS
      <4> QED BY <2>3, <4>1, <4>2, Zenon
    <3>2. /\ Tail(s) \in Seq(CallNames) /\ Len(Tail(s)) = Len(s) - 1
          /\ \A i \in 1 .. Len(s) - 1 : Tail(s)[i] = s[i + 1]
      BY <3>1
    <3>3. Len(Tail(s)) \in 1 .. n
      BY <3>1, <3>2
    <3>4. ASSUME NEW i \in 1 .. Len(Tail(s))
          PROVE  /\ i + 1 \in 1 .. Len(s)
                 /\ Len(s) - (i + 1) + 1 = Len(Tail(s)) - i + 1
      BY <3>1, <3>2
    <3> QED BY <3>2, <3>3, <3>4
  <2>4. todo \in Seq(CallNames) /\ Len(AllCalls(program)) \in Nat
        /\ Len(todo) \in 1 .. Len(AllCalls(program)) /\ Len(todo) # 1
    BY <1>3, <2>2 DEF Following, Left
  <2>5. /\ Tail(todo) \in Seq(CallNames) /\ Len(Tail(todo)) = Len(todo) - 1
        /\ Len(Tail(todo)) \in 1 .. Len(AllCalls(program))
        /\ \A i \in 1 .. Len(Tail(todo)) :
             /\ Tail(todo)[i] = todo[i + 1] /\ i + 1 \in 1 .. Len(todo)
             /\ Len(todo) - (i + 1) + 1 = Len(Tail(todo)) - i + 1
    BY <2>3, <2>4, Zenon
  <2>6. Following(program, Tail(todo))
    BY <2>2, <2>5, Zenon DEF Following
  <2> QED BY <1>3, <2>1, <2>5, <2>6, Zenon DEF Left
<1> QED BY <1>2, <1>3

\* Which program makes a call, and how many are left then.
LEMMA WhereTheCallsAre ==
  ASSUME OnTrack
  PROVE  /\ Head(todo) = "setUpMac" =>
              \/ At(EchoMessageBlocking, 8) \/ At(NetworkMonitor, 8)
              \/ At(SendOneFrameBlocking, 7) \/ At(PrintTXBuffer, 11)
         /\ Head(todo) = "setUpDebugging" =>
              \/ At(NetworkMonitor, 9) \/ At(SendOneFrameBlocking, 8)
              \/ At(PrintTXBuffer, 10)
         /\ Head(todo) = "configure" =>
              \/ At(EchoMessageBlocking, 7) \/ At(NetworkMonitor, 7)
              \/ At(SendOneFrameBlocking, 6) \/ At(PrintTXBuffer, 9)
         /\ Head(todo) = "enablePromiscuousMode" =>
              At(NetworkMonitor, 6)
         /\ Head(todo) = "setExtendedDestinationAddress" =>
              At(SendOneFrameBlocking, 5)
         /\ Head(todo) = "newPacketAvailable" =>
              At(EchoMessageBlocking, 6) \/ At(NetworkMonitor, 4)
         /\ Head(todo) = "getReceivedPacketSize" =>
              \/ At(EchoMessageBlocking, 5) \/ At(NetworkMonitor, 3)
              \/ At(PrintTXBuffer, 7)
         /\ Head(todo) = "fetchPacketBlocking" =>
              \/ At(EchoMessageBlocking, 4) \/ At(NetworkMonitor, 2)
              \/ At(PrintTXBuffer, 6)
         /\ Head(todo) = "if 'e'" =>
              At(PrintTXBuffer, 4)
         /\ Head(todo) = "setShortDestinationAddress" =>
              At(EchoMessageBlocking, 3) \/ At(PrintTXBuffer, 2)
         /\ Head(todo) = "setPayload" =>
              At(EchoMessageBlocking, 2) \/ At(PrintTXBuffer, 3)
         /\ Head(todo) = "sprintf" =>
              At(SendOneFrameBlocking, 4)
         /\ Head(todo) = "setPayloadToText" =>
              At(SendOneFrameBlocking, 2)
         /\ Head(todo) = "sendBlocking" =>
              \/ At(EchoMessageBlocking, 1) \/ At(SendOneFrameBlocking, 1)
              \/ At(PrintTXBuffer, 1)
         /\ Head(todo) = "debug" =>
              \/ At(NetworkMonitor, 5) \/ At(NetworkMonitor, 1)
              \/ At(SendOneFrameBlocking, 3) \/ At(PrintTXBuffer, 8)
              \/ At(PrintTXBuffer, 5)
<1>1. /\ program \in Programs /\ Left \in Nat /\ 1 <= Left
      /\ Head(todo) = CallAt(program, Left)
  BY HeadIsCallAt DEF OnTrack
<1>2. Left <= Len(AllCalls(program))
  BY <1>1, LoopAndAllCalls DEF OnTrack, Following, Left
<1>3. CASE program = EchoMessageBlocking
  <2>1. Len(AllCalls(program)) = 8
    BY <1>3, Lengths, Zenon
  <2>2. Left = 1 \/ Left = 2 \/ Left = 3 \/ Left = 4 \/ Left = 5 \/ Left = 6
        \/ Left = 7 \/ Left = 8
    BY <1>1, <1>2, <2>1
  <2>3. /\ Left = 1 => Head(todo) = "sendBlocking"
        /\ Left = 2 => Head(todo) = "setPayload"
        /\ Left = 3 => Head(todo) = "setShortDestinationAddress"
        /\ Left = 4 => Head(todo) = "fetchPacketBlocking"
        /\ Left = 5 => Head(todo) = "getReceivedPacketSize"
        /\ Left = 6 => Head(todo) = "newPacketAvailable"
        /\ Left = 7 => Head(todo) = "configure"
        /\ Left = 8 => Head(todo) = "setUpMac"
    BY <1>1, <1>3, EchoCalls, Zenon
  <2> QED BY <1>3, <2>2, <2>3 DEF At
<1>4. CASE program = NetworkMonitor
  <2>1. Len(AllCalls(program)) = 9
    BY <1>4, Lengths, Zenon
  <2>2. Left = 1 \/ Left = 2 \/ Left = 3 \/ Left = 4 \/ Left = 5 \/ Left = 6
        \/ Left = 7 \/ Left = 8 \/ Left = 9
    BY <1>1, <1>2, <2>1
  <2>3. /\ Left = 1 => Head(todo) = "debug"
        /\ Left = 2 => Head(todo) = "fetchPacketBlocking"
        /\ Left = 3 => Head(todo) = "getReceivedPacketSize"
        /\ Left = 4 => Head(todo) = "newPacketAvailable"
        /\ Left = 5 => Head(todo) = "debug"
        /\ Left = 6 => Head(todo) = "enablePromiscuousMode"
        /\ Left = 7 => Head(todo) = "configure"
        /\ Left = 8 => Head(todo) = "setUpMac"
        /\ Left = 9 => Head(todo) = "setUpDebugging"
    BY <1>1, <1>4, MonitorCalls, Zenon
  <2> QED BY <1>4, <2>2, <2>3 DEF At
<1>5. CASE program = SendOneFrameBlocking
  <2>1. Len(AllCalls(program)) = 8
    BY <1>5, Lengths, Zenon
  <2>2. Left = 1 \/ Left = 2 \/ Left = 3 \/ Left = 4 \/ Left = 5 \/ Left = 6
        \/ Left = 7 \/ Left = 8
    BY <1>1, <1>2, <2>1
  <2>3. /\ Left = 1 => Head(todo) = "sendBlocking"
        /\ Left = 2 => Head(todo) = "setPayloadToText"
        /\ Left = 3 => Head(todo) = "debug"
        /\ Left = 4 => Head(todo) = "sprintf"
        /\ Left = 5 => Head(todo) = "setExtendedDestinationAddress"
        /\ Left = 6 => Head(todo) = "configure"
        /\ Left = 7 => Head(todo) = "setUpMac"
        /\ Left = 8 => Head(todo) = "setUpDebugging"
    BY <1>1, <1>5, SenderCalls, Zenon
  <2> QED BY <1>5, <2>2, <2>3 DEF At
<1>6. CASE program = PrintTXBuffer
  <2>1. Len(AllCalls(program)) = 11
    BY <1>6, Lengths, Zenon
  <2>2. Left = 1 \/ Left = 2 \/ Left = 3 \/ Left = 4 \/ Left = 5 \/ Left = 6
        \/ Left = 7 \/ Left = 8 \/ Left = 9 \/ Left = 10 \/ Left = 11
    BY <1>1, <1>2, <2>1
  <2>3. /\ Left = 1 => Head(todo) = "sendBlocking"
        /\ Left = 2 => Head(todo) = "setShortDestinationAddress"
        /\ Left = 3 => Head(todo) = "setPayload"
        /\ Left = 4 => Head(todo) = "if 'e'"
        /\ Left = 5 => Head(todo) = "debug"
        /\ Left = 6 => Head(todo) = "fetchPacketBlocking"
        /\ Left = 7 => Head(todo) = "getReceivedPacketSize"
        /\ Left = 8 => Head(todo) = "debug"
        /\ Left = 9 => Head(todo) = "configure"
        /\ Left = 10 => Head(todo) = "setUpDebugging"
        /\ Left = 11 => Head(todo) = "setUpMac"
    BY <1>1, <1>6, PrintCalls, Zenon
  <2> QED BY <1>6, <2>2, <2>3 DEF At
<1> QED BY <1>1, <1>3, <1>4, <1>5, <1>6, ProgramsAssumption

LEMMA LoopFollows ==
  ASSUME NEW p \in Programs
  PROVE  /\ Following(p, p.loop) /\ Len(p.loop) <= LeftAfterConfigure(p)
         /\ Following(p, AllCalls(p)) /\ Len(AllCalls(p)) > LeftAfterConfigure(p)
         /\ Len(p.loop) \in Nat /\ Len(AllCalls(p)) \in Nat /\ LeftAfterConfigure(p) \in Nat
<1>1. /\ p.loop \in Seq(CallNames) /\ AllCalls(p) \in Seq(CallNames)
      /\ Len(p.loop) \in 1 .. LeftAfterConfigure(p)
      /\ LeftAfterConfigure(p) \in 1 .. Len(AllCalls(p)) - 1
      /\ \A i \in 1 .. Len(p.loop) : p.loop[i] = CallAt(p, Len(p.loop) - i + 1)
  BY LoopAndAllCalls
<1>2. /\ Len(p.loop) \in Nat /\ Len(AllCalls(p)) \in Nat /\ LeftAfterConfigure(p) \in Nat
      /\ Len(p.loop) <= LeftAfterConfigure(p) /\ Len(AllCalls(p)) > LeftAfterConfigure(p)
      /\ Len(p.loop) \in 1 .. Len(AllCalls(p)) /\ Len(AllCalls(p)) \in 1 .. Len(AllCalls(p))
  BY <1>1
<1>3. ASSUME NEW i \in 1 .. Len(AllCalls(p))
      PROVE  AllCalls(p)[i] = CallAt(p, Len(AllCalls(p)) - i + 1)
  <2>1. Len(AllCalls(p)) - (Len(AllCalls(p)) - i + 1) + 1 = i
    BY <1>2
  <2> QED BY <2>1 DEF CallAt, Call
<1> QED BY <1>1, <1>2, <1>3, Zenon DEF Following

\* The call that leaves LeftAfterConfigure calls is configure.
LEMMA ConfigureIsThere ==
  ASSUME OnTrack, Left = LeftAfterConfigure(program) + 1
  PROVE  Head(todo) = "configure"
<1>1. program \in Programs /\ Head(todo) = CallAt(program, Left)
  BY HeadIsCallAt DEF OnTrack
<1>2. CASE program = EchoMessageBlocking
  <2>1. Left = 7
    BY <1>2, Lengths
  <2> QED BY <1>1, <1>2, <2>1, EchoCalls, Zenon
<1>3. CASE program = NetworkMonitor
  <2>1. Left = 7
    BY <1>3, Lengths
  <2> QED BY <1>1, <1>3, <2>1, MonitorCalls, Zenon
<1>4. CASE program = SendOneFrameBlocking
  <2>1. Left = 6
    BY <1>4, Lengths
  <2> QED BY <1>1, <1>4, <2>1, SenderCalls, Zenon
<1>5. CASE program = PrintTXBuffer
  <2>1. Left = 9
    BY <1>5, Lengths
  <2> QED BY <1>1, <1>5, <2>1, PrintCalls, Zenon
<1> QED BY <1>1, <1>2, <1>3, <1>4, <1>5, ProgramsAssumption

LEMMA TrackNumbers ==
  ASSUME OnTrack
  PROVE  /\ program \in Programs /\ Left \in Nat /\ Left >= 1
         /\ Len(program.loop) \in Nat /\ LeftAfterConfigure(program) \in Nat
         /\ Len(program.loop) <= LeftAfterConfigure(program)
BY HeadIsCallAt, LoopFollows DEF OnTrack

LEMMA TrackInitially == ApplicationsInit => OnTrack
<1> SUFFICES ASSUME ApplicationsInit PROVE OnTrack
  OBVIOUS
<1>1. program \in Programs /\ todo = AllCalls(program) /\ pc = "unconfigured"
  BY DEF ApplicationsInit, Init, AllCalls
<1> QED BY <1>1, LoopFollows DEF OnTrack, Left, Sending

\* A call other than configure and sendBlocking.
LEMMA CallKeepsTrack ==
  ASSUME OnTrack, Done, UNCHANGED <<program, pc>>,
         pc \in {"unconfigured", "ready"}, Head(todo) # "configure"
  PROVE  OnTrack'
<1> DEFINE after == LeftAfterConfigure(program)
           round == Len(program.loop)
           left  == Left
           later == Left'
<1>1. /\ Following(program, todo') /\ later = IF left = 1 THEN round ELSE left - 1
  BY DoneMovesOn
<1>2. /\ program \in Programs /\ left \in Nat /\ left >= 1 /\ round \in Nat
      /\ after \in Nat /\ round <= after /\ after >= 1
  BY TrackNumbers, LoopAndAllCalls
<1>3. left # after + 1 /\ (pc = "unconfigured" <=> left > after)
  BY ConfigureIsThere DEF OnTrack
<1> HIDE DEF after, round, left, later
<1>4. pc = "unconfigured" <=> later > after
  BY <1>1, <1>2, <1>3
<1> QED
  BY <1>1, <1>2, <1>4 DEF OnTrack, Sending, after, later, Left

LEMMA ConfigureKeepsTrack ==
  ASSUME OnTrack, configure \/ ConfigureSteps
  PROVE  OnTrack'
<1>1. CASE configure
  <2>1. /\ Done /\ UNCHANGED program /\ Head(todo) = "configure" /\ pc' = "configuring"
    BY <1>1 DEF configure, Calls, Makes, Doing, Reconfigure
  <2>2. Left # 1 /\ Left - 1 = LeftAfterConfigure(program)
    <3>1. \/ (At(EchoMessageBlocking, 7) \/ At(NetworkMonitor, 7))
          \/ (At(SendOneFrameBlocking, 6) \/ At(PrintTXBuffer, 9))
      BY <2>1, WhereTheCallsAre, Zenon
    <3> QED BY <3>1, Lengths DEF At
  <2>3. Following(program, todo') /\ Left' = LeftAfterConfigure(program)
    BY <2>1, <2>2, DoneMovesOn
  <2>4. LeftAfterConfigure(program)' = LeftAfterConfigure(program)
    BY <2>1
  <2>5. LeftAfterConfigure(program) \in Nat
    BY TrackNumbers
  <2>6. ~(Left' > LeftAfterConfigure(program))
    BY <2>3, <2>5
  <2> QED BY <2>1, <2>3, <2>4, <2>6 DEF OnTrack, Sending
<1>2. CASE ConfigureSteps
  <2>1. /\ pc = "configuring" /\ pc' \in {"configuring", "ready"}
        /\ UNCHANGED <<program, todo>>
    BY <1>2 DEF ConfigureSteps, WriteConfiguration, FinishConfiguration
  <2>2. Left' = Left /\ LeftAfterConfigure(program)' = LeftAfterConfigure(program)
    BY <2>1 DEF Left
  <2> QED BY <2>1, <2>2 DEF OnTrack, Sending
<1> QED BY <1>1, <1>2

LEMMA SendKeepsTrack ==
  ASSUME OnTrack, sendBlocking \/ SendBlockingSteps
  PROVE  OnTrack'
<1>1. CASE sendBlocking
  <2>1. /\ Done /\ UNCHANGED program /\ Head(todo) = "sendBlocking"
        /\ pc' = "write payload"
    BY <1>1 DEF sendBlocking, Calls, Makes, Doing, SendBlocking
  <2>2. Left = 1
    BY <2>1, WhereTheCallsAre DEF At
  <2>3. Following(program, todo') /\ Left' = Len(program.loop)
    BY <2>1, <2>2, DoneMovesOn
  <2>4. /\ Len(program.loop) \in Nat /\ LeftAfterConfigure(program) \in Nat
        /\ Len(program.loop) <= LeftAfterConfigure(program)
    BY TrackNumbers
  <2>5. LeftAfterConfigure(program)' = LeftAfterConfigure(program)
    BY <2>1
  <2>6. ~(Left' > LeftAfterConfigure(program))
    BY <2>3, <2>4
  <2> QED BY <2>1, <2>3, <2>5, <2>6 DEF OnTrack, Sending
<1>2. CASE SendBlockingSteps
  <2>1. /\ pc \in Sending /\ pc' \in Sending \cup {"ready"}
        /\ UNCHANGED <<program, todo>>
    BY <1>2 DEF SendBlockingSteps, SendSteps, WritePayloadField, TriggerSend,
       PollInterruptStatus, Sending
  <2>2. Left' = Left /\ LeftAfterConfigure(program)' = LeftAfterConfigure(program)
    BY <2>1 DEF Left
  <2> QED BY <2>1, <2>2 DEF OnTrack, Sending
<1> QED BY <1>1, <1>2

LEMMA TrackStands ==
  ASSUME OnTrack, UNCHANGED <<program, todo, pc>>
  PROVE  OnTrack'
BY DEF OnTrack, Left

LEMMA StaysOnTrack ==
  ASSUME OnTrack, [ApplicationsNext]_app_vars
  PROVE  OnTrack'
<1>1. CASE UNCHANGED app_vars \/ TransmissionIsOver \/ \E p \in Packets : PacketComesIn(p)
  BY <1>1, TrackStands DEF app_vars, TransmissionIsOver, TransmissionEnds, PacketComesIn,
     Receive, driver
<1>2. CASE configure \/ ConfigureSteps
  BY <1>2, ConfigureKeepsTrack
<1>3. CASE sendBlocking \/ SendBlockingSteps
  BY <1>3, SendKeepsTrack
<1>4. CASE \/ setUpMac \/ setUpDebugging \/ debug \/ sprintf \/ enablePromiscuousMode
           \/ getReceivedPacketSize \/ fetchPacketBlocking
  <2>1. /\ Done /\ UNCHANGED <<program, pc>> /\ pc \in {"unconfigured", "ready"}
        /\ Head(todo) # "configure"
    BY <1>4 DEF setUpMac, setUpDebugging, debug, sprintf, enablePromiscuousMode,
       getReceivedPacketSize, fetchPacketBlocking, Calls, Makes, Doing, vars,
       EnablePromiscuousMode, SetPromiscuousMode, GetReceivedMessageSize,
       FetchMessageBlocking, driver
  <2> QED BY <2>1, CallKeepsTrack
<1>5. CASE setShortDestinationAddress \/ setPayload \/ setExtendedDestinationAddress
           \/ setPayloadToText
  <2>1. /\ Done /\ UNCHANGED <<program, pc>> /\ pc \in {"unconfigured", "ready"}
        /\ Head(todo) # "configure"
    BY <1>5 DEF setShortDestinationAddress, setPayload, setExtendedDestinationAddress,
       setPayloadToText, Calls, Makes, Doing, SetShortDestinationAddress,
       SetExtendedDestinationAddress, SetPayload, SetUp
  <2> QED BY <2>1, CallKeepsTrack
<1>6. CASE newPacketAvailable
  <2>1. /\ UNCHANGED <<program, pc>> /\ pc = "ready" /\ Head(todo) = "newPacketAvailable"
        /\ todo' = todo \/ todo' = Tail(todo)
    BY <1>6 DEF newPacketAvailable, NewMessageAvailable, Doing, driver
  <2>2. Left # 1
    <3>1. At(EchoMessageBlocking, 6) \/ At(NetworkMonitor, 4)
      BY <2>1, WhereTheCallsAre, Zenon
    <3> QED BY <3>1 DEF At
  <2> QED BY <2>1, <2>2, CallKeepsTrack, TrackStands DEF Done, Left
<1>7. CASE ifE
  <2>1. /\ UNCHANGED <<program, pc>> /\ Head(todo) = "if 'e'"
        /\ pc \in {"unconfigured", "ready"}
        /\ todo' = Tail(todo) \/ todo' = program.loop
    BY <1>7 DEF ifE, Doing, vars
  <2>2. program = PrintTXBuffer /\ Left = 4
    BY <2>1, WhereTheCallsAre DEF At
  <2>3. CASE todo' = Tail(todo)
    <3>1. Done
      BY <2>2, <2>3 DEF Done, Left
    <3> QED BY <2>1, <3>1, CallKeepsTrack
  <2>4. CASE todo' = program.loop
    <3>1. pc = "ready"
      <4>1. ~(Left > LeftAfterConfigure(program))
        BY <2>2, Lengths
      <4> QED BY <2>1, <4>1 DEF OnTrack
    <3>2. Following(program, todo') /\ Left' = Len(program.loop)
      BY <2>4, TrackNumbers, LoopFollows DEF Left
    <3>3. LeftAfterConfigure(program)' = LeftAfterConfigure(program)
      BY <2>1
    <3>4. ~(Left' > LeftAfterConfigure(program))
      BY <3>2, TrackNumbers
    <3> QED BY <2>1, <3>1, <3>2, <3>3, <3>4, TrackNumbers DEF OnTrack, Sending
  <2> QED BY <2>1, <2>3, <2>4
<1>8. CASE Restart
  <2>1. todo' = AllCalls(program) /\ UNCHANGED program /\ pc' = "unconfigured"
    BY <1>8 DEF Restart, AllCalls
  <2>2. program \in Programs
    BY TrackNumbers
  <2>3. Following(program, todo') /\ Left' > LeftAfterConfigure(program)'
    BY <2>1, <2>2, LoopFollows DEF Left
  <2> QED BY <2>1, <2>2, <2>3 DEF OnTrack, Sending
<1> QED
  BY <1>1, <1>2, <1>3, <1>4, <1>5, <1>6, <1>7, <1>8
     DEF ApplicationsNext, ProcessorSteps, LoopSteps

-----------------------------------------------------------------------------
(* What the programs hand to the driver.                                   *)

\* What a program takes from a packet: two bytes for a destination, its payload.
LEMMA TakenFromPacket ==
  ASSUME NEW p \in Packets
  PROVE  /\ getPacketSourceAddress(p, 2) \in ShortBytes
         /\ getPacketSourceAddress(p, 2) = [i \in 0 .. 1 |-> p.source[i]]
         /\ PayloadOf(p) \in Payloads
         /\ PayloadOf(p) = [buffer |-> "packet", start |-> p.payload.start]
         /\ getPacketPayloadSize(p) = p.payload.length
         /\ p.payload.length \in Nat /\ p.payload.length <= 128
         /\ uint8(p.length + frame_length_field_size) = p.length + 1
<1> DEFINE h == p.header
           first == FrameHeader802154_getSourceAddressOffset(h)
<1>1. IsOfThisLibrary(p) /\ PayloadOf(p) \in Payloads
  BY PacketsAssumption
<1>2. WellFormed(h) /\ h.data \in [HeaderIndex -> Byte] /\ first \in {7, 13}
  <2>1. WellFormed(h)
    BY <1>1 DEF IsOfThisLibrary
  <2> QED BY <2>1, Layout, Modes, WellFormedIsAddressable
<1>3. getPacketSourceAddress(p, 2) \in ShortBytes
  <2>1. ASSUME NEW i \in 0 .. 1 PROVE h.data[first + i] \in Byte
    <3>1. first + i \in HeaderIndex
      BY <1>2 DEF HeaderIndex, MAXIMUM_HEADER_SIZE
    <3> QED BY <1>2, <3>1
  <2>2. getPacketSourceAddress(p, 2) = [i \in 0 .. 1 |-> h.data[first + i]]
    BY DEF getPacketSourceAddress
  <2> HIDE DEF first, h
  <2> QED BY <2>1, <2>2 DEF ShortBytes
<1>4. /\ getPacketPayload(p) = p.payload.start
      /\ getPacketPayloadSize(p) = p.payload.length
      /\ getPacketSourceAddress(p, getPacketSourceAddressSize(p)) = p.source
  BY <1>1, OwnPacketIsInspected
<1>5. getPacketSourceAddress(p, 2) = [i \in 0 .. 1 |-> p.source[i]]
  <2> DEFINE bytes == getPacketSourceAddressSize(p)
  <2>1. bytes \in {2, 8}
    BY <1>1, Layout DEF getPacketSourceAddressSize, IsOfThisLibrary
  <2>2. /\ p.source = [i \in 0 .. (bytes - 1) |-> h.data[first + i]]
        /\ getPacketSourceAddress(p, 2) = [i \in 0 .. 1 |-> h.data[first + i]]
    BY <1>4 DEF getPacketSourceAddress
  <2> HIDE DEF bytes, first, h
  <2>3. \A i \in 0 .. 1 : i \in 0 .. (bytes - 1)
    BY <2>1
  <2>4. \A i \in 0 .. 1 : p.source[i] = h.data[first + i]
    BY <2>2, <2>3
  <2> QED BY <2>2, <2>4
<1>6. PayloadOf(p) = [buffer |-> "packet", start |-> p.payload.start]
  BY <1>4 DEF PayloadOf
<1>7. /\ p.payload.length \in Nat /\ p.payload.length <= 128
      /\ p.length \in Nat /\ p.length <= 128
  <2>1. /\ p.payload.length \in Nat
        /\ p.length = PayloadStart(h) + p.payload.length + 2 /\ p.length <= 128
    BY <1>1 DEF IsOfThisLibrary, LargestPacket, frame_check_sequence_size
  <2>2. PayloadStart(h) \in Nat
    BY <1>2, Layout
  <2> QED BY <2>1, <2>2
<1>8. uint8(p.length + frame_length_field_size) = p.length + 1
  BY <1>7 DEF uint8, frame_length_field_size
<1> QED BY <1>1, <1>3, <1>4, <1>5, <1>6, <1>7, <1>8, Zenon

\* The text is never longer than a byte tells, and the coordinator has an address.
LEMMA TakenFromText ==
  /\ \A n \in Nat : n < 65536 =>
       TextLength(n) \in Nat /\ uint8(TextLength(n)) = TextLength(n)
  /\ coordinator \in ExtendedBytes /\ text \in Payloads
<1>1. ASSUME NEW n \in Nat, n < 65536 PROVE TextLength(n) \in 2 .. 7
  BY <1>1 DEF TextLength
<1>2. ASSUME NEW n \in Nat, n < 65536
      PROVE  TextLength(n) \in Nat /\ uint8(TextLength(n)) = TextLength(n)
  BY <1>1, <1>2 DEF uint8
<1>3. coordinator \in ExtendedBytes
  BY DEF coordinator, ExtendedBytes, Byte
<1> QED BY <1>2, <1>3, PacketsAssumption

\* The address and the payload of an echo are taken from a packet that was fetched.
LEMMA PacketIsFetched ==
  ASSUME OnTrack, EchoAnswers, PrintAnswers,
         \/ Head(todo) = "setShortDestinationAddress"
         \/ Head(todo) = "setPayload"
  PROVE  packet.content \in Packets
<1>1. \/ At(EchoMessageBlocking, 3) \/ At(PrintTXBuffer, 2)
      \/ At(EchoMessageBlocking, 2) \/ At(PrintTXBuffer, 3)
  BY WhereTheCallsAre, Zenon
<1> QED BY <1>1 DEF At, EchoAnswers, PrintAnswers, Fetched

\* The setters are called with what they are made for.
LEMMA SettersBuild ==
  ASSUME OnTrack, FrameIsBuilt, EchoAnswers, PrintAnswers, OwnTypes,
         \/ setShortDestinationAddress \/ setPayload
         \/ setExtendedDestinationAddress \/ setPayloadToText
  PROVE  \E m, r : Built(m, r) /\ SetUp(m, r)
<1>1. CASE setShortDestinationAddress
  <2> DEFINE address == getPacketSourceAddress(packet.content, 2)
  <2>1. /\ Head(todo) = "setShortDestinationAddress" /\ SetShortDestinationAddress(address)
    BY <1>1 DEF setShortDestinationAddress, Calls, Makes, Doing
  <2>2. address \in ShortBytes
    BY <2>1, PacketIsFetched, TakenFromPacket
  <2>3. Built(mrf, request)
    BY <2>1 DEF SetShortDestinationAddress, SetUp, FrameIsBuilt, ReadyStates
  <2> HIDE DEF address
  <2> QED BY <2>1, <2>2, <2>3, ShortDestinationIsBuilt DEF SetShortDestinationAddress
<1>2. CASE setPayload
  <2> DEFINE payload == PayloadOf(packet.content)
             length == getPacketPayloadSize(packet.content)
  <2>1. Head(todo) = "setPayload" /\ SetPayload(payload, length)
    BY <1>2 DEF setPayload, Calls, Makes, Doing
  <2>2. payload \in Payloads /\ length \in Nat
    BY <2>1, PacketIsFetched, TakenFromPacket
  <2>3. Built(mrf, request)
    BY <2>1 DEF SetPayload, SetUp, FrameIsBuilt, ReadyStates
  <2> HIDE DEF payload, length
  <2> QED BY <2>1, <2>2, <2>3, PayloadIsBuilt DEF SetPayload
<1>3. CASE setExtendedDestinationAddress
  <2>1. SetExtendedDestinationAddress(coordinator)
    BY <1>3 DEF setExtendedDestinationAddress, Calls, Makes
  <2>2. Built(mrf, request)
    BY <2>1 DEF SetExtendedDestinationAddress, SetUp, FrameIsBuilt, ReadyStates
  <2> QED BY <2>1, <2>2, TakenFromText, ExtendedDestinationIsBuilt DEF SetExtendedDestinationAddress
<1>4. CASE setPayloadToText
  <2> DEFINE length == TextLength(number)
  <2>1. SetPayload(text, length)
    BY <1>4 DEF setPayloadToText, Calls, Makes
  <2>2. length \in Nat /\ text \in Payloads
    <3>1. number \in 0 .. (NumberRange - 1)
      BY Zenon DEF OwnTypes
    <3>2. number \in Nat /\ number < 65536
      BY <3>1, NumberFits
    <3> QED BY <3>2, TakenFromText
  <2>3. Built(mrf, request)
    BY <2>1 DEF SetPayload, SetUp, FrameIsBuilt, ReadyStates
  <2> HIDE DEF length
  <2> QED BY <2>1, <2>2, <2>3, PayloadIsBuilt DEF SetPayload
<1> QED BY <1>1, <1>2, <1>3, <1>4

-----------------------------------------------------------------------------
(* Frame, registers and types, for the programs.                           *)

\* The calls that do nothing to driver and chip.
LEMMA NothingIsDone ==
  ASSUME \/ setUpMac \/ setUpDebugging \/ debug \/ ifE \/ sprintf
         \/ UNCHANGED app_vars
  PROVE  /\ UNCHANGED <<pc, mrf, config, writes, size, packet, available>>
         /\ UNCHANGED <<register, tx_fifo, transmitting, int_status, rx_fifo>>
         /\ UNCHANGED <<request, arrived, overtaken, program, unread>>
BY DEF setUpMac, setUpDebugging, debug, ifE, sprintf, Makes, vars, app_vars

LEMMA ConfigureActs ==
  ASSUME OnTrack, configure \/ ConfigureSteps
  PROVE  (\E new_config \in Configs : Reconfigure(new_config))
           \/ WriteConfiguration \/ FinishConfiguration
<1>1. program.config \in Configs
  BY ConfigOfProgram, Zenon DEF OnTrack
<1>2. Reconfigure(program.config) \/ WriteConfiguration \/ FinishConfiguration
  BY DEF configure, ConfigureSteps, Calls, Makes
<1> QED BY <1>1, <1>2

\* The other calls, by what they do to the driver.
LEMMA CallsAct ==
  /\ enablePromiscuousMode => EnablePromiscuousMode
  /\ newPacketAvailable => NewMessageAvailable
  /\ getReceivedPacketSize => GetReceivedMessageSize
  /\ fetchPacketBlocking => FetchMessageBlocking
  /\ sendBlocking => SendBlocking
  /\ SendBlockingSteps => SendSteps
  /\ TransmissionIsOver => TransmissionEnds
  /\ (\E p \in Packets : PacketComesIn(p)) => PacketArrives
BY DEF enablePromiscuousMode, newPacketAvailable, getReceivedPacketSize, fetchPacketBlocking,
   sendBlocking, SendBlockingSteps, TransmissionIsOver, PacketComesIn, PacketArrives,
   Calls, Makes

\* Every step is one of these.
Steps ==
  \/ (setUpMac \/ setUpDebugging \/ debug \/ ifE \/ sprintf \/ UNCHANGED app_vars)
  \/ (configure \/ ConfigureSteps)
  \/ (enablePromiscuousMode \/ newPacketAvailable \/ getReceivedPacketSize)
  \/ fetchPacketBlocking
  \/ (setShortDestinationAddress \/ setPayload
        \/ setExtendedDestinationAddress \/ setPayloadToText)
  \/ (sendBlocking \/ SendBlockingSteps)
  \/ (TransmissionIsOver \/ \E p \in Packets : PacketComesIn(p))
  \/ Restart

LEMMA EveryStep == [ApplicationsNext]_app_vars => Steps
BY Zenon DEF ApplicationsNext, ProcessorSteps, LoopSteps, Steps

LEMMA FrameStaysBuilt ==
  ASSUME FrameIsBuilt, OnTrack, EchoAnswers, PrintAnswers, OwnTypes, Steps
  PROVE  FrameIsBuilt'
<1>1. CASE \/ setUpMac \/ setUpDebugging \/ debug \/ ifE \/ sprintf
           \/ UNCHANGED app_vars
  BY <1>1, NothingIsDone, QuietKeepsFrame
<1>2. CASE configure \/ ConfigureSteps
  BY <1>2, ConfigureActs, ConfigurationKeepsFrame
<1>3. CASE \/ enablePromiscuousMode \/ newPacketAvailable \/ getReceivedPacketSize
           \/ fetchPacketBlocking
  <2>1. UNCHANGED <<mrf, config, pc, request, tx_fifo>>
    BY <1>3, CallsAct DEF EnablePromiscuousMode, SetPromiscuousMode, NewMessageAvailable,
       GetReceivedMessageSize, FetchMessageBlocking, driver, chip, histories
  <2> QED BY <2>1, QuietKeepsFrame
<1>4. CASE \/ setShortDestinationAddress \/ setPayload
           \/ setExtendedDestinationAddress \/ setPayloadToText
  BY <1>4, SettersBuild, SetterKeepsFrame
<1>5. CASE sendBlocking \/ SendBlockingSteps
  BY <1>5, CallsAct, SendingKeepsFrame
<1>6. CASE TransmissionIsOver \/ \E p \in Packets : PacketComesIn(p)
  <2>1. UNCHANGED <<mrf, config, pc, request, tx_fifo>>
    BY <1>6, CallsAct DEF TransmissionEnds, PacketArrives, Receive, driver, histories
  <2> QED BY <2>1, QuietKeepsFrame
<1>7. CASE Restart
  <2>1. mrf' = StaticMemory /\ pc' = "unconfigured" /\ UNCHANGED tx_fifo
    BY <1>7 DEF Restart, chip
  <2> QED BY <2>1, StaticMemoryIsMrfState DEF FrameIsBuilt, ReadyStates, Sending
<1> QED BY <1>1, <1>2, <1>3, <1>4, <1>5, <1>6, <1>7 DEF Steps

LEMMA RegistersStayConfigured ==
  ASSUME RegistersAreConfigured, OnTrack, Steps
  PROVE  RegistersAreConfigured'
<1>1. CASE \/ setUpMac \/ setUpDebugging \/ debug \/ ifE \/ sprintf
           \/ UNCHANGED app_vars
  BY <1>1, NothingIsDone, RegistersUntouched
<1>2. CASE configure \/ ConfigureSteps
  BY <1>2, ConfigureActs, ConfigurationConfigures
<1>3. CASE enablePromiscuousMode
  BY <1>3, CallsAct, PromiscuousModeConfiguresNothing
<1>4. CASE newPacketAvailable \/ getReceivedPacketSize \/ fetchPacketBlocking
  <2>1. UNCHANGED <<register, writes, config, pc>>
    BY <1>4, CallsAct DEF NewMessageAvailable, GetReceivedMessageSize, FetchMessageBlocking,
       driver, chip
  <2> QED BY <2>1, RegistersUntouched
<1>5. CASE \/ setShortDestinationAddress \/ setPayload
           \/ setExtendedDestinationAddress \/ setPayloadToText
  <2>1. UNCHANGED <<register, writes, config, pc>>
    BY <1>5 DEF setShortDestinationAddress, setPayload, setExtendedDestinationAddress,
       setPayloadToText, Calls, Makes, SetShortDestinationAddress,
       SetExtendedDestinationAddress, SetPayload, SetUp, chip
  <2> QED BY <2>1, RegistersUntouched
<1>6. CASE sendBlocking \/ SendBlockingSteps
  <2>1. /\ UNCHANGED <<register, writes, config>>
        /\ pc \in ReadyStates /\ pc' \in ReadyStates
    BY <1>6, CallsAct, Zenon DEF SendBlocking, SendSteps, WritePayloadField, TriggerSend,
       PollInterruptStatus, ReadyStates
  <2> QED BY <2>1, RegistersUntouched
<1>7. CASE TransmissionIsOver \/ \E p \in Packets : PacketComesIn(p)
  <2>1. UNCHANGED <<register, writes, config, pc>>
    BY <1>7, CallsAct DEF TransmissionEnds, PacketArrives, Receive, driver
  <2> QED BY <2>1, RegistersUntouched
<1>8. CASE Restart
  <2>1. /\ pc' = "unconfigured" /\ writes' = <<>> /\ UNCHANGED register
    BY <1>8 DEF Restart, chip
  <2>2. \A e : e = <<>> => e \in Seq(ByteWrites) /\ Len(e) <= 64
    OBVIOUS
  <2> QED BY <2>1, <2>2 DEF RegistersAreConfigured, ReadyStates
<1> QED BY <1>1, <1>2, <1>3, <1>4, <1>5, <1>6, <1>7, <1>8 DEF Steps

LEMMA TypesStay ==
  ASSUME OtherTypes, OnTrack, Steps
  PROVE  OtherTypes'
<1>1. CASE \/ setUpMac \/ setUpDebugging \/ debug \/ ifE \/ sprintf
           \/ UNCHANGED app_vars
  BY <1>1, NothingIsDone DEF OtherTypes
<1>2. CASE configure \/ ConfigureSteps
  BY <1>2, ConfigureActs, OtherTypesOfConfiguration
<1>3. CASE \/ enablePromiscuousMode \/ newPacketAvailable \/ getReceivedPacketSize
           \/ fetchPacketBlocking \/ sendBlocking \/ SendBlockingSteps
  BY <1>3, CallsAct, OtherTypesOfDriver
<1>4. CASE \/ setShortDestinationAddress \/ setPayload
           \/ setExtendedDestinationAddress \/ setPayloadToText
  <2>1. \E m, r : SetUp(m, r)
    BY <1>4 DEF setShortDestinationAddress, setPayload, setExtendedDestinationAddress,
       setPayloadToText, Calls, Makes, SetShortDestinationAddress,
       SetExtendedDestinationAddress, SetPayload
  <2> QED BY <2>1, OtherTypesOfDriver
<1>5. CASE TransmissionIsOver \/ \E p \in Packets : PacketComesIn(p)
  BY <1>5, CallsAct, OtherTypesOfChip
<1>6. CASE Restart
  BY <1>6 DEF Restart, chip, OtherTypes
<1> QED BY <1>1, <1>2, <1>3, <1>4, <1>5, <1>6 DEF Steps

LEMMA OwnTypesStay ==
  ASSUME OwnTypes, OtherTypes, Steps
  PROVE  OwnTypes'
<1>1. /\ mac802154' = mac802154 \/ mac802154' = "created" \/ mac802154' = Null
      /\ restarts' = restarts \/ restarts' = restarts + 1
      /\ number' = number \/ number' = (number + 1) % NumberRange \/ number' = 0
      /\ \/ unread' = unread \/ unread' = TRUE \/ unread' = FALSE
         \/ unread' = (unread /\ arrived')
  BY DEF Steps, setUpMac, setUpDebugging, debug, ifE, sprintf, configure, ConfigureSteps,
     enablePromiscuousMode, newPacketAvailable, getReceivedPacketSize, fetchPacketBlocking,
     setShortDestinationAddress, setPayload, setExtendedDestinationAddress, setPayloadToText,
     sendBlocking, SendBlockingSteps, TransmissionIsOver, PacketComesIn, Restart, Calls, Makes,
     app_vars
<1>2. unread' \in BOOLEAN
  BY <1>1 DEF OwnTypes
<1>3. number' \in 0 .. (NumberRange - 1)
  <2>1. number \in 0 .. (NumberRange - 1)
    BY Zenon DEF OwnTypes
  <2>2. number' = number \/ number' = (number + 1) % NumberRange \/ number' = 0
    BY <1>1
  <2> QED BY <2>1, <2>2, NumberRangeIsSmall
<1>4. mac802154' \in {Null, "created"}
  BY <1>1 DEF OwnTypes
<1>5. restarts' \in Nat
  BY <1>1 DEF OwnTypes
<1> QED BY <1>2, <1>3, <1>4, <1>5, Zenon DEF OwnTypes

-----------------------------------------------------------------------------
(* What was read of the chip is still so.                                  *)

LEMMA SizeStaysCurrent ==
  ASSUME SizeIsCurrent, OtherTypes, OnTrack, Steps
  PROVE  SizeIsCurrent'
<1>1. CASE \/ setUpMac \/ setUpDebugging \/ debug \/ ifE \/ sprintf
           \/ UNCHANGED app_vars
  BY <1>1, NothingIsDone DEF SizeIsCurrent
<1>2. CASE configure \/ ConfigureSteps
  <2>1. size' = Null
    BY <1>2, ConfigureActs DEF Reconfigure, WriteConfiguration, FinishConfiguration,
       application, SizeIsCurrent, ReadyStates
  <2> QED BY <2>1 DEF SizeIsCurrent
<1>3. CASE enablePromiscuousMode \/ fetchPacketBlocking
  <2>1. UNCHANGED <<size, rx_fifo, overtaken, pc>>
    BY <1>3, CallsAct DEF EnablePromiscuousMode, SetPromiscuousMode, FetchMessageBlocking,
       driver, application, chip, histories
  <2> QED BY <2>1 DEF SizeIsCurrent
<1>4. CASE newPacketAvailable \/ Restart
  <2>1. size' = Null
    BY <1>4, CallsAct DEF NewMessageAvailable, Restart
  <2> QED BY <2>1 DEF SizeIsCurrent
<1>5. CASE getReceivedPacketSize
  <2>1. /\ rx_fifo # Null /\ size' = uint8(rx_fifo.length + frame_length_field_size)
        /\ pc' = "ready" /\ UNCHANGED rx_fifo
    BY <1>5, CallsAct DEF GetReceivedMessageSize, driver, chip
  <2>2. rx_fifo \in Packets
    BY <2>1 DEF OtherTypes
  <2>3. size' = rx_fifo'.length + 1
    BY <2>1, <2>2, TakenFromPacket
  <2> QED BY <2>1, <2>2, <2>3 DEF SizeIsCurrent, ReadyStates
<1>6. CASE \/ setShortDestinationAddress \/ setPayload
           \/ setExtendedDestinationAddress \/ setPayloadToText
  <2>1. UNCHANGED <<size, rx_fifo, overtaken, pc>>
    BY <1>6 DEF setShortDestinationAddress, setPayload, setExtendedDestinationAddress,
       setPayloadToText, Calls, Makes, SetShortDestinationAddress,
       SetExtendedDestinationAddress, SetPayload, SetUp, application, chip
  <2> QED BY <2>1 DEF SizeIsCurrent
<1>7. CASE sendBlocking \/ SendBlockingSteps
  <2>1. UNCHANGED <<size, rx_fifo, overtaken>> /\ pc' \in ReadyStates
    BY <1>7, CallsAct, Zenon DEF SendBlocking, SendSteps, WritePayloadField, TriggerSend,
       PollInterruptStatus, application, histories, ReadyStates
  <2> QED BY <2>1 DEF SizeIsCurrent
<1>8. CASE TransmissionIsOver
  <2>1. UNCHANGED <<size, rx_fifo, overtaken, pc>>
    BY <1>8, CallsAct DEF TransmissionEnds, driver, application, histories
  <2> QED BY <2>1 DEF SizeIsCurrent
<1>9. CASE \E p \in Packets : PacketComesIn(p)
  <2>1. /\ rx_fifo' \in Packets /\ UNCHANGED <<size, pc>>
        /\ overtaken' = (size # Null)
    BY <1>9, CallsAct DEF PacketArrives, Receive, driver, application
  <2> QED BY <2>1 DEF SizeIsCurrent
<1> QED BY <1>1, <1>2, <1>3, <1>4, <1>5, <1>6, <1>7, <1>8, <1>9 DEF Steps

-----------------------------------------------------------------------------
(* The moves of each program.                                              *)

\* A call was made, and the program goes on.
Made(call) ==
  /\ Head(todo) = call /\ Done /\ UNCHANGED program
  /\ pc \in {"unconfigured", "ready"}

LEMMA CallsAreMade ==
  /\ setUpMac => Made("setUpMac")
  /\ setUpDebugging => Made("setUpDebugging")
  /\ debug => Made("debug")
  /\ sprintf => Made("sprintf")
  /\ configure => Made("configure")
  /\ enablePromiscuousMode => Made("enablePromiscuousMode")
  /\ getReceivedPacketSize => Made("getReceivedPacketSize")
  /\ fetchPacketBlocking => Made("fetchPacketBlocking")
  /\ setShortDestinationAddress => Made("setShortDestinationAddress")
  /\ setPayload => Made("setPayload")
  /\ setExtendedDestinationAddress => Made("setExtendedDestinationAddress")
  /\ setPayloadToText => Made("setPayloadToText")
  /\ sendBlocking => Made("sendBlocking")
BY Zenon DEF setUpMac, setUpDebugging, debug, sprintf, configure, enablePromiscuousMode,
   getReceivedPacketSize, fetchPacketBlocking, setShortDestinationAddress, setPayload,
   setExtendedDestinationAddress, setPayloadToText, sendBlocking, Calls, Makes, Doing, Made

\* How many calls are left after it.
LEMMA AfterTheCall ==
  ASSUME OnTrack, NEW call, Made(call)
  PROVE  /\ Head(todo) = call /\ program' = program
         /\ Left' = IF Left = 1 THEN Len(program.loop) ELSE Left - 1
BY DoneMovesOn DEF Made

\* A step that leaves the program where it is, and its frame as it is.
Pause ==
  /\ Left' = Left /\ program' = program
  /\ pc' \in Sending => pc \in Sending
  /\ UNCHANGED <<mrf, packet, request, number>>

LEMMA ProgramPauses ==
  ASSUME OnTrack,
         \/ SendBlockingSteps \/ UNCHANGED app_vars
         \/ TransmissionIsOver \/ \E p \in Packets : PacketComesIn(p)
  PROVE  Pause
<1>1. CASE SendBlockingSteps
  BY <1>1 DEF SendBlockingSteps, SendSteps, WritePayloadField, TriggerSend,
     PollInterruptStatus, application, histories, Sending, Pause, Left
<1>2. CASE UNCHANGED app_vars
  BY <1>2 DEF app_vars, Pause, Left
<1>3. CASE TransmissionIsOver \/ \E p \in Packets : PacketComesIn(p)
  BY <1>3 DEF TransmissionIsOver, TransmissionEnds, PacketComesIn, Receive, driver,
     application, histories, Pause, Left
<1> QED BY <1>1, <1>2, <1>3

\* While the driver configures, and after a restart.
LEMMA ConfigurationMoves ==
  ASSUME OnTrack, ConfigureSteps \/ Restart
  PROVE  /\ program' = program /\ pc' \notin Sending
         /\ Left' = LeftAfterConfigure(program) \/ Left' = Len(AllCalls(program))
<1>1. CASE ConfigureSteps
  BY <1>1 DEF ConfigureSteps, WriteConfiguration, FinishConfiguration, OnTrack, Left, Sending
<1>2. CASE Restart
  BY <1>2 DEF Restart, AllCalls, Left, Sending
<1> QED BY <1>1, <1>2

\* Setup, and the turn of the loop up to the fetch: the program owes nothing yet.
Early(first, last) ==
  Left' \in first .. last /\ pc' \notin Sending

\* The steps of EchoMessageBlocking.
LEMMA EchoMoves ==
  ASSUME OnTrack, Steps, program = EchoMessageBlocking
  PROVE  /\ program' = program
         /\ \/ Pause
            \/ Early(4, 8)
            \/ fetchPacketBlocking /\ Left = 4 /\ Left' = 3 /\ pc' \notin Sending
            \/ setShortDestinationAddress /\ Left = 3 /\ Left' = 2 /\ pc' \notin Sending
            \/ setPayload /\ Left = 2 /\ Left' = 1 /\ pc' \notin Sending
            \/ Left = 1 /\ Left' = 6 /\ UNCHANGED <<mrf, packet, request, number>>
<1>1. CASE \/ SendBlockingSteps \/ UNCHANGED app_vars
           \/ TransmissionIsOver \/ \E p \in Packets : PacketComesIn(p)
  BY <1>1, ProgramPauses DEF Pause
<1>2. CASE ConfigureSteps \/ Restart
  <2>1. LeftAfterConfigure(program) = 6 /\ Len(AllCalls(program)) = 8
    BY Lengths, Zenon
  <2> QED BY <1>2, <2>1, ConfigurationMoves DEF Early
<1>3. CASE setUpMac
  <2>1. Made("setUpMac")
    BY <1>3, CallsAreMade, Zenon
  <2>2. Left = 8
    BY <2>1, WhereTheCallsAre, FourPrograms, Zenon DEF At, Made
  <2>3. Len(program.loop) = 6
    BY Lengths, Zenon
  <2>4. program' = program /\ Left' = IF Left = 1 THEN 6 ELSE Left - 1
    BY <2>1, <2>3, AfterTheCall
  <2>5. pc' \notin Sending
    BY <1>3 DEF setUpMac, Makes, Doing, vars, Sending
  <2> QED BY <1>3, <2>2, <2>4, <2>5 DEF Early
<1>4. CASE configure
  <2>1. Made("configure")
    BY <1>4, CallsAreMade, Zenon
  <2>2. Left = 7
    BY <2>1, WhereTheCallsAre, FourPrograms, Zenon DEF At, Made
  <2>3. Len(program.loop) = 6
    BY Lengths, Zenon
  <2>4. program' = program /\ Left' = IF Left = 1 THEN 6 ELSE Left - 1
    BY <2>1, <2>3, AfterTheCall
  <2>5. pc' = "configuring"
    BY <1>4 DEF configure, Calls, Makes, Reconfigure
  <2> QED BY <1>4, <2>2, <2>4, <2>5 DEF Early, Sending
<1>5. CASE getReceivedPacketSize
  <2>1. Made("getReceivedPacketSize")
    BY <1>5, CallsAreMade, Zenon
  <2>2. Left = 5
    BY <2>1, WhereTheCallsAre, FourPrograms, Zenon DEF At, Made
  <2>3. Len(program.loop) = 6
    BY Lengths, Zenon
  <2>4. program' = program /\ Left' = IF Left = 1 THEN 6 ELSE Left - 1
    BY <2>1, <2>3, AfterTheCall
  <2>5. pc' \notin Sending
    BY <1>5 DEF getReceivedPacketSize, Calls, Makes, GetReceivedMessageSize, driver, Sending
  <2> QED BY <1>5, <2>2, <2>4, <2>5 DEF Early
<1>6. CASE fetchPacketBlocking
  <2>1. Made("fetchPacketBlocking")
    BY <1>6, CallsAreMade, Zenon
  <2>2. Left = 4
    BY <2>1, WhereTheCallsAre, FourPrograms, Zenon DEF At, Made
  <2>3. Len(program.loop) = 6
    BY Lengths, Zenon
  <2>4. program' = program /\ Left' = IF Left = 1 THEN 6 ELSE Left - 1
    BY <2>1, <2>3, AfterTheCall
  <2>5. pc' \notin Sending
    BY <1>6 DEF fetchPacketBlocking, Makes, FetchMessageBlocking, driver, Sending
  <2> QED BY <1>6, <2>2, <2>4, <2>5 DEF Early
<1>7. CASE setShortDestinationAddress
  <2>1. Made("setShortDestinationAddress")
    BY <1>7, CallsAreMade, Zenon
  <2>2. Left = 3
    BY <2>1, WhereTheCallsAre, FourPrograms, Zenon DEF At, Made
  <2>3. Len(program.loop) = 6
    BY Lengths, Zenon
  <2>4. program' = program /\ Left' = IF Left = 1 THEN 6 ELSE Left - 1
    BY <2>1, <2>3, AfterTheCall
  <2>5. pc' \notin Sending
    BY <1>7 DEF setShortDestinationAddress, Calls, Makes, SetShortDestinationAddress, SetUp, Sending
  <2> QED BY <1>7, <2>2, <2>4, <2>5 DEF Early
<1>8. CASE setPayload
  <2>1. Made("setPayload")
    BY <1>8, CallsAreMade, Zenon
  <2>2. Left = 2
    BY <2>1, WhereTheCallsAre, FourPrograms, Zenon DEF At, Made
  <2>3. Len(program.loop) = 6
    BY Lengths, Zenon
  <2>4. program' = program /\ Left' = IF Left = 1 THEN 6 ELSE Left - 1
    BY <2>1, <2>3, AfterTheCall
  <2>5. pc' \notin Sending
    BY <1>8 DEF setPayload, Calls, Makes, SetPayload, SetUp, Sending
  <2> QED BY <1>8, <2>2, <2>4, <2>5 DEF Early
<1>9. CASE sendBlocking
  <2>1. Made("sendBlocking")
    BY <1>9, CallsAreMade, Zenon
  <2>2. Left = 1
    BY <2>1, WhereTheCallsAre, FourPrograms, Zenon DEF At, Made
  <2>3. Len(program.loop) = 6
    BY Lengths, Zenon
  <2>4. program' = program /\ Left' = IF Left = 1 THEN 6 ELSE Left - 1
    BY <2>1, <2>3, AfterTheCall
  <2>5. UNCHANGED <<mrf, packet, request, number>>
    BY <1>9 DEF sendBlocking, Calls, Makes, SendBlocking, application, histories
  <2> QED BY <1>9, <2>2, <2>4, <2>5 DEF Early
<1>10. CASE newPacketAvailable
  <2>1. /\ Head(todo) = "newPacketAvailable" /\ program' = program /\ pc' \notin Sending
        /\ todo' = todo \/ todo' = Tail(todo)
    BY <1>10 DEF newPacketAvailable, NewMessageAvailable, Doing, driver, Sending
  <2>2. Left = 6
    BY <2>1, WhereTheCallsAre, FourPrograms, Zenon DEF At
  <2>3. Left' = 6 \/ Left' = 5
    <3>1. CASE todo' = todo
      BY <2>2, <3>1 DEF Left
    <3>2. CASE todo' = Tail(todo)
      <4>1. Done
        BY <2>2, <3>2 DEF Done, Left
      <4> QED BY <2>1, <2>2, <4>1, DoneMovesOn
    <3> QED BY <2>1, <3>1, <3>2
  <2> QED BY <2>1, <2>3 DEF Early
\* The calls of other programs.
<1>11. ~(setUpDebugging \/ debug \/ sprintf \/
       enablePromiscuousMode \/ setExtendedDestinationAddress \/ setPayloadToText \/
       ifE)
  <2>1. /\ Head(todo) # "setUpDebugging"
        /\ Head(todo) # "debug"
        /\ Head(todo) # "sprintf"
        /\ Head(todo) # "enablePromiscuousMode"
        /\ Head(todo) # "setExtendedDestinationAddress"
        /\ Head(todo) # "setPayloadToText"
        /\ Head(todo) # "if 'e'"
    BY WhereTheCallsAre, FourPrograms, Zenon DEF At
  <2> QED BY <2>1, CallsAreMade, Zenon DEF Made, newPacketAvailable, ifE, Doing
<1> QED
  BY <1>1, <1>2, <1>3, <1>4, <1>5, <1>6, <1>7, <1>8, <1>9, <1>10, <1>11, Zenon DEF Steps

\* The steps of SendOneFrameBlocking.
LEMMA SenderMoves ==
  ASSUME OnTrack, Steps, program = SendOneFrameBlocking
  PROVE  /\ program' = program
         /\ \/ Pause
            \/ Early(5, 8)
            \/ setExtendedDestinationAddress /\ Left = 5 /\ Left' = 4 /\ pc' \notin Sending
            \/ Left = 4 /\ Left' = 3 /\ pc' \notin Sending /\ UNCHANGED <<mrf, packet, request>>
            \/ Left = 3 /\ Left' = 2 /\ pc' \notin Sending /\ UNCHANGED <<mrf, packet,
                   request>> /\ UNCHANGED number
            \/ setPayloadToText /\ Left = 2 /\ Left' = 1 /\ pc' \notin Sending
            \/ Left = 1 /\ Left' = 4 /\ UNCHANGED <<mrf, packet, request, number>>
<1>1. CASE \/ SendBlockingSteps \/ UNCHANGED app_vars
           \/ TransmissionIsOver \/ \E p \in Packets : PacketComesIn(p)
  BY <1>1, ProgramPauses DEF Pause
<1>2. CASE ConfigureSteps \/ Restart
  <2>1. LeftAfterConfigure(program) = 5 /\ Len(AllCalls(program)) = 8
    BY Lengths, Zenon
  <2> QED BY <1>2, <2>1, ConfigurationMoves DEF Early
<1>3. CASE setUpDebugging
  <2>1. Made("setUpDebugging")
    BY <1>3, CallsAreMade, Zenon
  <2>2. Left = 8
    BY <2>1, WhereTheCallsAre, FourPrograms, Zenon DEF At, Made
  <2>3. Len(program.loop) = 4
    BY Lengths, Zenon
  <2>4. program' = program /\ Left' = IF Left = 1 THEN 4 ELSE Left - 1
    BY <2>1, <2>3, AfterTheCall
  <2>5. pc' \notin Sending
    BY <1>3 DEF setUpDebugging, Makes, Doing, vars, Sending
  <2> QED BY <1>3, <2>2, <2>4, <2>5 DEF Early
<1>4. CASE setUpMac
  <2>1. Made("setUpMac")
    BY <1>4, CallsAreMade, Zenon
  <2>2. Left = 7
    BY <2>1, WhereTheCallsAre, FourPrograms, Zenon DEF At, Made
  <2>3. Len(program.loop) = 4
    BY Lengths, Zenon
  <2>4. program' = program /\ Left' = IF Left = 1 THEN 4 ELSE Left - 1
    BY <2>1, <2>3, AfterTheCall
  <2>5. pc' \notin Sending
    BY <1>4 DEF setUpMac, Makes, Doing, vars, Sending
  <2> QED BY <1>4, <2>2, <2>4, <2>5 DEF Early
<1>5. CASE configure
  <2>1. Made("configure")
    BY <1>5, CallsAreMade, Zenon
  <2>2. Left = 6
    BY <2>1, WhereTheCallsAre, FourPrograms, Zenon DEF At, Made
  <2>3. Len(program.loop) = 4
    BY Lengths, Zenon
  <2>4. program' = program /\ Left' = IF Left = 1 THEN 4 ELSE Left - 1
    BY <2>1, <2>3, AfterTheCall
  <2>5. pc' = "configuring"
    BY <1>5 DEF configure, Calls, Makes, Reconfigure
  <2> QED BY <1>5, <2>2, <2>4, <2>5 DEF Early, Sending
<1>6. CASE setExtendedDestinationAddress
  <2>1. Made("setExtendedDestinationAddress")
    BY <1>6, CallsAreMade, Zenon
  <2>2. Left = 5
    BY <2>1, WhereTheCallsAre, FourPrograms, Zenon DEF At, Made
  <2>3. Len(program.loop) = 4
    BY Lengths, Zenon
  <2>4. program' = program /\ Left' = IF Left = 1 THEN 4 ELSE Left - 1
    BY <2>1, <2>3, AfterTheCall
  <2>5. pc' \notin Sending
    BY <1>6 DEF setExtendedDestinationAddress, Calls, Makes, SetExtendedDestinationAddress,
       SetUp, Sending
  <2> QED BY <1>6, <2>2, <2>4, <2>5 DEF Early
<1>7. CASE sprintf
  <2>1. Made("sprintf")
    BY <1>7, CallsAreMade, Zenon
  <2>2. Left = 4
    BY <2>1, WhereTheCallsAre, FourPrograms, Zenon DEF At, Made
  <2>3. Len(program.loop) = 4
    BY Lengths, Zenon
  <2>4. program' = program /\ Left' = IF Left = 1 THEN 4 ELSE Left - 1
    BY <2>1, <2>3, AfterTheCall
  <2>5. pc' \notin Sending /\ UNCHANGED <<mrf, packet, request>>
    BY <1>7 DEF sprintf, Doing, vars, Sending
  <2> QED BY <1>7, <2>2, <2>4, <2>5 DEF Early
<1>8. CASE debug
  <2>1. Made("debug")
    BY <1>8, CallsAreMade, Zenon
  <2>2. Left = 3
    BY <2>1, WhereTheCallsAre, FourPrograms, Zenon DEF At, Made
  <2>3. Len(program.loop) = 4
    BY Lengths, Zenon
  <2>4. program' = program /\ Left' = IF Left = 1 THEN 4 ELSE Left - 1
    BY <2>1, <2>3, AfterTheCall
  <2>5. pc' \notin Sending /\ UNCHANGED <<mrf, packet, request, number>>
    BY <1>8 DEF debug, Makes, Doing, vars, Sending
  <2> QED BY <1>8, <2>2, <2>4, <2>5 DEF Early
<1>9. CASE setPayloadToText
  <2>1. Made("setPayloadToText")
    BY <1>9, CallsAreMade, Zenon
  <2>2. Left = 2
    BY <2>1, WhereTheCallsAre, FourPrograms, Zenon DEF At, Made
  <2>3. Len(program.loop) = 4
    BY Lengths, Zenon
  <2>4. program' = program /\ Left' = IF Left = 1 THEN 4 ELSE Left - 1
    BY <2>1, <2>3, AfterTheCall
  <2>5. pc' \notin Sending
    BY <1>9 DEF setPayloadToText, Calls, Makes, SetPayload, SetUp, Sending
  <2> QED BY <1>9, <2>2, <2>4, <2>5 DEF Early
<1>10. CASE sendBlocking
  <2>1. Made("sendBlocking")
    BY <1>10, CallsAreMade, Zenon
  <2>2. Left = 1
    BY <2>1, WhereTheCallsAre, FourPrograms, Zenon DEF At, Made
  <2>3. Len(program.loop) = 4
    BY Lengths, Zenon
  <2>4. program' = program /\ Left' = IF Left = 1 THEN 4 ELSE Left - 1
    BY <2>1, <2>3, AfterTheCall
  <2>5. UNCHANGED <<mrf, packet, request, number>>
    BY <1>10 DEF sendBlocking, Calls, Makes, SendBlocking, application, histories
  <2> QED BY <1>10, <2>2, <2>4, <2>5 DEF Early
\* The calls of other programs.
<1>11. ~(enablePromiscuousMode \/ getReceivedPacketSize \/ fetchPacketBlocking \/
       setShortDestinationAddress \/ setPayload \/ newPacketAvailable \/
       ifE)
  <2>1. /\ Head(todo) # "enablePromiscuousMode"
        /\ Head(todo) # "getReceivedPacketSize"
        /\ Head(todo) # "fetchPacketBlocking"
        /\ Head(todo) # "setShortDestinationAddress"
        /\ Head(todo) # "setPayload"
        /\ Head(todo) # "newPacketAvailable"
        /\ Head(todo) # "if 'e'"
    BY WhereTheCallsAre, FourPrograms, Zenon DEF At
  <2> QED BY <2>1, CallsAreMade, Zenon DEF Made, newPacketAvailable, ifE, Doing
<1> QED
  BY <1>1, <1>2, <1>3, <1>4, <1>5, <1>6, <1>7, <1>8, <1>9, <1>10, <1>11, Zenon DEF Steps

\* The steps of PrintTXBuffer.
LEMMA PrintMoves ==
  ASSUME OnTrack, Steps, program = PrintTXBuffer
  PROVE  /\ program' = program
         /\ \/ Pause
            \/ Early(6, 11)
            \/ Left = 5 /\ Left' = 4 /\ pc' \notin Sending /\ UNCHANGED <<mrf, packet, request>>
            \/ fetchPacketBlocking /\ Left = 6 /\ Left' = 5 /\ pc' \notin Sending
            \/ Left = 4 /\ Left' = 3 /\ pc' \notin Sending /\ UNCHANGED <<mrf, packet, request>>
            \/ setPayload /\ Left = 3 /\ Left' = 2 /\ pc' \notin Sending
            \/ setShortDestinationAddress /\ Left = 2 /\ Left' = 1 /\ pc' \notin Sending
            \/ Left = 1 /\ Left' = 7 /\ UNCHANGED <<mrf, packet, request, number>>
<1>1. CASE \/ SendBlockingSteps \/ UNCHANGED app_vars
           \/ TransmissionIsOver \/ \E p \in Packets : PacketComesIn(p)
  BY <1>1, ProgramPauses DEF Pause
<1>2. CASE ConfigureSteps \/ Restart
  <2>1. LeftAfterConfigure(program) = 8 /\ Len(AllCalls(program)) = 11
    BY Lengths, Zenon
  <2> QED BY <1>2, <2>1, ConfigurationMoves DEF Early
<1>3. CASE setUpMac
  <2>1. Made("setUpMac")
    BY <1>3, CallsAreMade, Zenon
  <2>2. Left = 11
    BY <2>1, WhereTheCallsAre, FourPrograms, Zenon DEF At, Made
  <2>3. Len(program.loop) = 7
    BY Lengths, Zenon
  <2>4. program' = program /\ Left' = IF Left = 1 THEN 7 ELSE Left - 1
    BY <2>1, <2>3, AfterTheCall
  <2>5. pc' \notin Sending
    BY <1>3 DEF setUpMac, Makes, Doing, vars, Sending
  <2> QED BY <1>3, <2>2, <2>4, <2>5 DEF Early
<1>4. CASE setUpDebugging
  <2>1. Made("setUpDebugging")
    BY <1>4, CallsAreMade, Zenon
  <2>2. Left = 10
    BY <2>1, WhereTheCallsAre, FourPrograms, Zenon DEF At, Made
  <2>3. Len(program.loop) = 7
    BY Lengths, Zenon
  <2>4. program' = program /\ Left' = IF Left = 1 THEN 7 ELSE Left - 1
    BY <2>1, <2>3, AfterTheCall
  <2>5. pc' \notin Sending
    BY <1>4 DEF setUpDebugging, Makes, Doing, vars, Sending
  <2> QED BY <1>4, <2>2, <2>4, <2>5 DEF Early
<1>5. CASE configure
  <2>1. Made("configure")
    BY <1>5, CallsAreMade, Zenon
  <2>2. Left = 9
    BY <2>1, WhereTheCallsAre, FourPrograms, Zenon DEF At, Made
  <2>3. Len(program.loop) = 7
    BY Lengths, Zenon
  <2>4. program' = program /\ Left' = IF Left = 1 THEN 7 ELSE Left - 1
    BY <2>1, <2>3, AfterTheCall
  <2>5. pc' = "configuring"
    BY <1>5 DEF configure, Calls, Makes, Reconfigure
  <2> QED BY <1>5, <2>2, <2>4, <2>5 DEF Early, Sending
<1>6. CASE debug
  <2>1. Made("debug")
    BY <1>6, CallsAreMade, Zenon
  <2>2. Left = 8 \/ Left = 5
    BY <2>1, WhereTheCallsAre, FourPrograms, Zenon DEF At, Made
  <2>3. Len(program.loop) = 7
    BY Lengths, Zenon
  <2>4. program' = program /\ Left' = IF Left = 1 THEN 7 ELSE Left - 1
    BY <2>1, <2>3, AfterTheCall
  <2>5. pc' \notin Sending /\ UNCHANGED <<mrf, packet, request, number>>
    BY <1>6 DEF debug, Makes, Doing, vars, Sending
  <2> QED BY <1>6, <2>2, <2>4, <2>5 DEF Early
<1>7. CASE getReceivedPacketSize
  <2>1. Made("getReceivedPacketSize")
    BY <1>7, CallsAreMade, Zenon
  <2>2. Left = 7
    BY <2>1, WhereTheCallsAre, FourPrograms, Zenon DEF At, Made
  <2>3. Len(program.loop) = 7
    BY Lengths, Zenon
  <2>4. program' = program /\ Left' = IF Left = 1 THEN 7 ELSE Left - 1
    BY <2>1, <2>3, AfterTheCall
  <2>5. pc' \notin Sending
    BY <1>7 DEF getReceivedPacketSize, Calls, Makes, GetReceivedMessageSize, driver, Sending
  <2> QED BY <1>7, <2>2, <2>4, <2>5 DEF Early
<1>8. CASE fetchPacketBlocking
  <2>1. Made("fetchPacketBlocking")
    BY <1>8, CallsAreMade, Zenon
  <2>2. Left = 6
    BY <2>1, WhereTheCallsAre, FourPrograms, Zenon DEF At, Made
  <2>3. Len(program.loop) = 7
    BY Lengths, Zenon
  <2>4. program' = program /\ Left' = IF Left = 1 THEN 7 ELSE Left - 1
    BY <2>1, <2>3, AfterTheCall
  <2>5. pc' \notin Sending
    BY <1>8 DEF fetchPacketBlocking, Makes, FetchMessageBlocking, driver, Sending
  <2> QED BY <1>8, <2>2, <2>4, <2>5 DEF Early
<1>9. CASE setPayload
  <2>1. Made("setPayload")
    BY <1>9, CallsAreMade, Zenon
  <2>2. Left = 3
    BY <2>1, WhereTheCallsAre, FourPrograms, Zenon DEF At, Made
  <2>3. Len(program.loop) = 7
    BY Lengths, Zenon
  <2>4. program' = program /\ Left' = IF Left = 1 THEN 7 ELSE Left - 1
    BY <2>1, <2>3, AfterTheCall
  <2>5. pc' \notin Sending
    BY <1>9 DEF setPayload, Calls, Makes, SetPayload, SetUp, Sending
  <2> QED BY <1>9, <2>2, <2>4, <2>5 DEF Early
<1>10. CASE setShortDestinationAddress
  <2>1. Made("setShortDestinationAddress")
    BY <1>10, CallsAreMade, Zenon
  <2>2. Left = 2
    BY <2>1, WhereTheCallsAre, FourPrograms, Zenon DEF At, Made
  <2>3. Len(program.loop) = 7
    BY Lengths, Zenon
  <2>4. program' = program /\ Left' = IF Left = 1 THEN 7 ELSE Left - 1
    BY <2>1, <2>3, AfterTheCall
  <2>5. pc' \notin Sending
    BY <1>10 DEF setShortDestinationAddress, Calls, Makes, SetShortDestinationAddress, SetUp,
       Sending
  <2> QED BY <1>10, <2>2, <2>4, <2>5 DEF Early
<1>11. CASE sendBlocking
  <2>1. Made("sendBlocking")
    BY <1>11, CallsAreMade, Zenon
  <2>2. Left = 1
    BY <2>1, WhereTheCallsAre, FourPrograms, Zenon DEF At, Made
  <2>3. Len(program.loop) = 7
    BY Lengths, Zenon
  <2>4. program' = program /\ Left' = IF Left = 1 THEN 7 ELSE Left - 1
    BY <2>1, <2>3, AfterTheCall
  <2>5. UNCHANGED <<mrf, packet, request, number>>
    BY <1>11 DEF sendBlocking, Calls, Makes, SendBlocking, application, histories
  <2> QED BY <1>11, <2>2, <2>4, <2>5 DEF Early
<1>12. CASE ifE
  <2>1. /\ Head(todo) = "if 'e'" /\ program' = program /\ pc' \notin Sending
        /\ UNCHANGED <<mrf, packet, request>>
        /\ todo' = program.loop \/ todo' = Tail(todo)
    BY <1>12 DEF ifE, Doing, vars, Sending
  <2>2. Left = 4
    BY <2>1, WhereTheCallsAre, FourPrograms, Zenon DEF At
  <2>3. Left' = 7 \/ Left' = 3
    <3>1. CASE todo' = program.loop
      <4>1. Len(program.loop) = 7
        BY Lengths, Zenon
      <4> QED BY <3>1, <4>1, Zenon DEF Left
    <3>2. CASE todo' = Tail(todo)
      <4>1. Done
        BY <2>2, <3>2 DEF Done, Left
      <4>2. Left' = IF Left = 1 THEN Len(program.loop) ELSE Left - 1
        BY <4>1, <2>1, DoneMovesOn
      <4> QED BY <2>2, <4>2
    <3> QED BY <2>1, <3>1, <3>2, Zenon
  <2>4. CASE Left' = 7
    <3>1. 7 \in 6 .. 11
      OBVIOUS
    <3> QED BY <2>1, <2>4, <3>1, Zenon DEF Early
  <2>5. CASE Left' = 3
    BY <2>1, <2>2, <2>5
  <2> QED BY <2>3, <2>4, <2>5, Zenon
\* The calls of other programs.
<1>13. ~(sprintf \/ enablePromiscuousMode \/ setExtendedDestinationAddress \/
       setPayloadToText \/ newPacketAvailable)
  <2>1. /\ Head(todo) # "sprintf"
        /\ Head(todo) # "enablePromiscuousMode"
        /\ Head(todo) # "setExtendedDestinationAddress"
        /\ Head(todo) # "setPayloadToText"
        /\ Head(todo) # "newPacketAvailable"
    BY WhereTheCallsAre, FourPrograms, Zenon DEF At
  <2> QED BY <2>1, CallsAreMade, Zenon DEF Made, newPacketAvailable, ifE, Doing
<1> QED
  BY <1>1, <1>2, <1>3, <1>4, <1>5, <1>6, <1>7, <1>8, <1>9, <1>10, <1>11, <1>12, <1>13,
     Zenon DEF Steps

-----------------------------------------------------------------------------
(* What each program has done so far stays so.                             *)

LEMMA ProgramStays ==
  ASSUME Steps
  PROVE  program' = program
BY DEF Steps, setUpMac, setUpDebugging, debug, ifE, sprintf, configure, ConfigureSteps,
   enablePromiscuousMode, newPacketAvailable, getReceivedPacketSize, fetchPacketBlocking,
   setShortDestinationAddress, setPayload, setExtendedDestinationAddress, setPayloadToText,
   sendBlocking, SendBlockingSteps, TransmissionIsOver, PacketComesIn, Restart, Calls, Makes,
   app_vars

\* What the setters leave in the request.
LEMMA PayloadIsAsked ==
  ASSUME FrameIsBuilt, NEW payload \in Payloads, NEW length \in Nat,
         SetPayload(payload, length)
  PROVE  /\ request'.destination = request.destination
         /\ request'.payload = payload /\ request'.length = length
         /\ request'.header_size # 0
         /\ Fits' /\ UNCHANGED packet
<1>1. /\ mrf \in MrfStates(Pointers) /\ request \in Requests
      /\ mrf' = MrfState_setPayload(mrf, payload, uint8(length))
      /\ request' = [request EXCEPT !.payload = payload, !.length = length,
                                    !.header_size = HeaderSize(mrf)]
      /\ UNCHANGED packet
  BY DEF SetPayload, SetUp, FrameIsBuilt, ReadyStates, Built, application
<1>2. /\ request'.destination = request.destination
      /\ request'.payload = payload /\ request'.length = length
      /\ request'.header_size = HeaderSize(mrf)
  BY <1>1 DEF Requests
<1>3. mrf'.header.frame_header = mrf.header.frame_header
  BY <1>1 DEF MrfState_setPayload, MrfStates, MrfHeaders
<1>4. HeaderSize(mrf)' = HeaderSize(mrf)
  BY <1>3 DEF HeaderSize
<1>5. HeaderSize(mrf) # 0
  BY SpaceIsHeaderSize DEF SetPayload, SetUp, FrameIsBuilt, ReadyStates
<1> QED BY <1>1, <1>2, <1>4, <1>5 DEF Fits

LEMMA DestinationIsAsked ==
  ASSUME FrameIsBuilt, NEW address,
         SetShortDestinationAddress(address) \/ SetExtendedDestinationAddress(address)
  PROVE  /\ request'.destination = address
         /\ request'.payload = request.payload /\ request'.length = request.length
         /\ request'.header_size = request.header_size
         /\ UNCHANGED packet
<1>1. /\ request \in Requests /\ request' = [request EXCEPT !.destination = address]
      /\ UNCHANGED packet
  BY DEF SetShortDestinationAddress, SetExtendedDestinationAddress, SetUp, FrameIsBuilt,
     ReadyStates, Built, application
<1> QED BY <1>1 DEF Requests

\* The address a program takes out of a packet, and the payload.
LEMMA EchoIsAsked ==
  ASSUME FrameIsBuilt, Fetched, setShortDestinationAddress \/ setPayload
  PROVE  /\ Fetched'
         /\ setShortDestinationAddress => Returned' /\ (Carried => Carried')
         /\ setPayload => Carried' /\ Fits' /\ (Returned => Returned')
<1>1. CASE setShortDestinationAddress
  <2>1. SetShortDestinationAddress(getPacketSourceAddress(packet.content, 2))
    BY <1>1 DEF setShortDestinationAddress, Calls, Makes
  <2>2. /\ request'.destination = getPacketSourceAddress(packet.content, 2)
        /\ request'.payload = request.payload /\ request'.length = request.length
        /\ request'.header_size = request.header_size
        /\ UNCHANGED packet
    BY <2>1, DestinationIsAsked
  <2>3. getPacketSourceAddress(packet.content, 2) =
          [i \in 0 .. 1 |-> packet.content.source[i]]
    BY TakenFromPacket DEF Fetched
  <2>4. ~setPayload
    BY <1>1 DEF setPayload, setShortDestinationAddress, Calls, Makes, Doing
  <2> QED BY <2>2, <2>3, <2>4 DEF Fetched, Returned, Carried
<1>2. CASE setPayload
  <2>1. SetPayload(PayloadOf(packet.content), getPacketPayloadSize(packet.content))
    BY <1>2 DEF setPayload, Calls, Makes
  <2>2. /\ PayloadOf(packet.content) \in Payloads
        /\ PayloadOf(packet.content) =
             [buffer |-> "packet", start |-> packet.content.payload.start]
        /\ getPacketPayloadSize(packet.content) = packet.content.payload.length
        /\ packet.content.payload.length \in Nat
    BY TakenFromPacket DEF Fetched
  <2>3. /\ request'.destination = request.destination
        /\ request'.payload = PayloadOf(packet.content)
        /\ request'.length = packet.content.payload.length
        /\ request'.header_size # 0
        /\ Fits' /\ UNCHANGED packet
    BY <2>1, <2>2, PayloadIsAsked
  <2>4. ~setShortDestinationAddress
    BY <1>2 DEF setPayload, setShortDestinationAddress, Calls, Makes, Doing
  <2> QED BY <2>2, <2>3, <2>4 DEF Fetched, Returned, Carried
<1> QED BY <1>1, <1>2

LEMMA PacketIsTaken ==
  ASSUME SizeIsCurrent, fetchPacketBlocking
  PROVE  Fetched'
<1>1. size # Null /\ packet' = [content |-> rx_fifo, size |-> size]
  BY DEF fetchPacketBlocking, Makes, FetchMessageBlocking
<1> QED BY <1>1 DEF SizeIsCurrent, Fetched

\* A step that leaves frame, packet and request alone.
LEMMA AnswerStands ==
  ASSUME UNCHANGED <<mrf, packet, request>>
  PROVE  /\ Fetched' = Fetched /\ Returned' = Returned
         /\ Carried' = Carried /\ Fits' = Fits
BY DEF Fetched, Returned, Carried, Fits, HeaderSize

LEMMA EchoStaysFaithful ==
  ASSUME EchoAnswers, FrameIsBuilt, SizeIsCurrent, OnTrack, Steps
  PROVE  EchoAnswers'
<1>1. CASE program # EchoMessageBlocking
  BY <1>1, ProgramStays DEF EchoAnswers
<1>2. CASE program = EchoMessageBlocking
  <2>1. program' = program
    BY ProgramStays
  <2>2. CASE Pause
    <3>1. /\ Left' = Left /\ (pc' \in Sending => pc \in Sending)
          /\ UNCHANGED <<mrf, packet, request>>
      BY <2>2 DEF Pause
    <3> QED BY <1>2, <3>1, AnswerStands DEF EchoAnswers
  <2>3. CASE Early(4, 8)
    BY <2>3 DEF Early, EchoAnswers
  <2>4. CASE fetchPacketBlocking /\ Left = 4 /\ Left' = 3 /\ pc' \notin Sending
    BY <2>4, PacketIsTaken DEF EchoAnswers
  <2>5. CASE setShortDestinationAddress /\ Left = 3 /\ Left' = 2 /\ pc' \notin Sending
    <3>1. Fetched
      BY <1>2, <2>5 DEF EchoAnswers
    <3>2. Fetched' /\ Returned'
      BY <2>5, <3>1, EchoIsAsked
    <3> QED BY <2>5, <3>2 DEF EchoAnswers
  <2>6. CASE setPayload /\ Left = 2 /\ Left' = 1 /\ pc' \notin Sending
    <3>1. Fetched /\ Returned
      BY <1>2, <2>6 DEF EchoAnswers
    <3>2. Fetched' /\ Returned' /\ Carried' /\ Fits'
      BY <2>6, <3>1, EchoIsAsked
    <3> QED BY <3>2 DEF EchoAnswers
  <2>7. CASE Left = 1 /\ Left' = 6 /\ UNCHANGED <<mrf, packet, request, number>>
    <3>1. Fetched /\ Returned /\ Carried /\ Fits
      BY <1>2, <2>7 DEF EchoAnswers
    <3> QED BY <2>7, <3>1, AnswerStands DEF EchoAnswers
  <2> QED BY <1>2, <2>2, <2>3, <2>4, <2>5, <2>6, <2>7, EchoMoves, Zenon
<1> QED BY <1>1, <1>2

LEMMA PrintStaysFaithful ==
  ASSUME PrintAnswers, FrameIsBuilt, SizeIsCurrent, OnTrack, Steps
  PROVE  PrintAnswers'
<1>1. CASE program # PrintTXBuffer
  BY <1>1, ProgramStays DEF PrintAnswers
<1>2. CASE program = PrintTXBuffer
  <2>1. program' = program
    BY ProgramStays
  <2>2. CASE Pause
    <3>1. /\ Left' = Left /\ (pc' \in Sending => pc \in Sending)
          /\ UNCHANGED <<mrf, packet, request>>
      BY <2>2 DEF Pause
    <3> QED BY <1>2, <3>1, AnswerStands DEF PrintAnswers
  <2>3. CASE Early(6, 11)
    BY <2>3 DEF Early, PrintAnswers
  <2>4. CASE fetchPacketBlocking /\ Left = 6 /\ Left' = 5 /\ pc' \notin Sending
    BY <2>4, PacketIsTaken DEF PrintAnswers
  <2>5. CASE \/ Left = 5 /\ Left' = 4 /\ pc' \notin Sending
                /\ UNCHANGED <<mrf, packet, request>>
             \/ Left = 4 /\ Left' = 3 /\ pc' \notin Sending
                /\ UNCHANGED <<mrf, packet, request>>
    <3>1. Fetched
      BY <1>2, <2>5 DEF PrintAnswers
    <3>2. Fetched'
      BY <2>5, <3>1, AnswerStands, Zenon
    <3>3. (Left' = 4 \/ Left' = 3) /\ pc' \notin Sending
      BY <2>5, Zenon
    <3> QED BY <3>2, <3>3 DEF PrintAnswers
  <2>6. CASE setPayload /\ Left = 3 /\ Left' = 2 /\ pc' \notin Sending
    <3>1. Fetched
      BY <1>2, <2>6 DEF PrintAnswers
    <3>2. Fetched' /\ Carried'
      BY <2>6, <3>1, EchoIsAsked
    <3> QED BY <2>6, <3>2 DEF PrintAnswers
  <2>7. CASE setShortDestinationAddress /\ Left = 2 /\ Left' = 1 /\ pc' \notin Sending
    <3>1. Fetched /\ Carried
      BY <1>2, <2>7 DEF PrintAnswers
    <3>2. Fetched' /\ Returned' /\ Carried'
      BY <2>7, <3>1, EchoIsAsked
    <3> QED BY <3>2 DEF PrintAnswers
  <2>8. CASE Left = 1 /\ Left' = 7 /\ UNCHANGED <<mrf, packet, request, number>>
    <3>1. Fetched /\ Returned /\ Carried
      BY <1>2, <2>8 DEF PrintAnswers
    <3> QED BY <2>8, <3>1, AnswerStands DEF PrintAnswers
  <2> QED BY <1>2, <2>2, <2>3, <2>4, <2>5, <2>6, <2>7, <2>8, PrintMoves, Zenon
<1> QED BY <1>1, <1>2

LEMMA TextIsAsked ==
  ASSUME FrameIsBuilt, OwnTypes, setPayloadToText
  PROVE  /\ request'.destination = request.destination
         /\ request'.payload = text /\ request'.length = TextLength(number)'
         /\ Fits'
<1>1. SetPayload(text, TextLength(number)) /\ number' = number
  BY DEF setPayloadToText, Calls, Makes
<1>2. number \in Nat /\ number < 65536
  <2>1. number \in 0 .. (NumberRange - 1)
    BY Zenon DEF OwnTypes
  <2> QED BY <2>1, NumberFits
<1>3. TextLength(number) \in Nat /\ text \in Payloads
  BY <1>2, TakenFromText
<1>4. TextLength(number)' = TextLength(number)
  BY <1>1
<1> QED BY <1>1, <1>3, <1>4, PayloadIsAsked

LEMMA SenderStaysFaithful ==
  ASSUME SenderSendsText, FrameIsBuilt, OwnTypes, OnTrack, Steps
  PROVE  SenderSendsText'
<1>1. CASE program # SendOneFrameBlocking
  BY <1>1, ProgramStays DEF SenderSendsText
<1>2. CASE program = SendOneFrameBlocking
  <2>1. program' = program
    BY ProgramStays
  <2>2. CASE Pause
    <3>1. /\ Left' = Left /\ (pc' \in Sending => pc \in Sending)
          /\ UNCHANGED <<mrf, packet, request, number>>
      BY <2>2 DEF Pause
    <3>2. TextLength(number)' = TextLength(number)
      BY <3>1
    <3> QED BY <1>2, <3>1, <3>2, AnswerStands DEF SenderSendsText
  <2>3. CASE Early(5, 8)
    BY <2>3 DEF Early, SenderSendsText
  <2>4. CASE setExtendedDestinationAddress /\ Left = 5 /\ Left' = 4 /\ pc' \notin Sending
    <3>1. SetExtendedDestinationAddress(coordinator)
      BY <2>4 DEF setExtendedDestinationAddress, Calls, Makes
    <3>2. request'.destination = coordinator
      BY <3>1, DestinationIsAsked
    <3> QED BY <2>4, <3>2 DEF SenderSendsText
  <2>5. CASE \/ Left = 4 /\ Left' = 3 /\ pc' \notin Sending
                /\ UNCHANGED <<mrf, packet, request>>
             \/ Left = 3 /\ Left' = 2 /\ pc' \notin Sending
                /\ UNCHANGED <<mrf, packet, request>> /\ UNCHANGED number
    BY <1>2, <2>5 DEF SenderSendsText
  <2>6. CASE setPayloadToText /\ Left = 2 /\ Left' = 1 /\ pc' \notin Sending
    <3>1. request.destination = coordinator
      BY <1>2, <2>6 DEF SenderSendsText
    <3> QED BY <2>6, <3>1, TextIsAsked DEF SenderSendsText
  <2>7. CASE Left = 1 /\ Left' = 4 /\ UNCHANGED <<mrf, packet, request, number>>
    <3>1. TextLength(number)' = TextLength(number)
      BY <2>7
    <3> QED BY <1>2, <2>7, <3>1, AnswerStands DEF SenderSendsText
  <2> QED BY <1>2, <2>2, <2>3, <2>4, <2>5, <2>6, <2>7, SenderMoves, Zenon
<1> QED BY <1>1, <1>2

-----------------------------------------------------------------------------
(* The interrupt bit EchoMessageBlocking waits for.                        *)

\* The calls of EchoMessageBlocking, and what is left before and after each.
LEMMA EchoCallByCall ==
  ASSUME OnTrack, program = EchoMessageBlocking
  PROVE  /\ setUpMac => Left = 8 /\ Left' = 7
         /\ configure => Left = 7 /\ Left' = 6
         /\ newPacketAvailable => Left = 6 /\ Left' = IF available' THEN 5 ELSE 6
         /\ getReceivedPacketSize => Left = 5 /\ Left' = 4
         /\ fetchPacketBlocking => Left = 4 /\ Left' = 3
         /\ setShortDestinationAddress => Left = 3 /\ Left' = 2
         /\ setPayload => Left = 2 /\ Left' = 1
         /\ sendBlocking => Left = 1 /\ Left' = 6
         /\ ~(\/ setUpDebugging \/ debug \/ sprintf \/ ifE \/ enablePromiscuousMode
                \/ setExtendedDestinationAddress \/ setPayloadToText)
<1>1. Len(program.loop) = 6
  BY Lengths, Zenon
<1>2. ASSUME NEW call, Made(call)
      PROVE  Head(todo) = call /\ Left' = IF Left = 1 THEN 6 ELSE Left - 1
  BY <1>1, <1>2, AfterTheCall
<1>3. setUpMac => Left = 8 /\ Left' = 7
  <2>1. setUpMac => Made("setUpMac")
    BY CallsAreMade, Zenon
  <2>2. Head(todo) = "setUpMac" => Left = 8
    BY WhereTheCallsAre, FourPrograms, Zenon DEF At
  <2> QED BY <1>2, <2>1, <2>2
<1>4. configure => Left = 7 /\ Left' = 6
  <2>1. configure => Made("configure")
    BY CallsAreMade, Zenon
  <2>2. Head(todo) = "configure" => Left = 7
    BY WhereTheCallsAre, FourPrograms, Zenon DEF At
  <2> QED BY <1>2, <2>1, <2>2
<1>5. getReceivedPacketSize => Left = 5 /\ Left' = 4
  <2>1. getReceivedPacketSize => Made("getReceivedPacketSize")
    BY CallsAreMade, Zenon
  <2>2. Head(todo) = "getReceivedPacketSize" => Left = 5
    BY WhereTheCallsAre, FourPrograms, Zenon DEF At
  <2> QED BY <1>2, <2>1, <2>2
<1>6. fetchPacketBlocking => Left = 4 /\ Left' = 3
  <2>1. fetchPacketBlocking => Made("fetchPacketBlocking")
    BY CallsAreMade, Zenon
  <2>2. Head(todo) = "fetchPacketBlocking" => Left = 4
    BY WhereTheCallsAre, FourPrograms, Zenon DEF At
  <2> QED BY <1>2, <2>1, <2>2
<1>7. setShortDestinationAddress => Left = 3 /\ Left' = 2
  <2>1. setShortDestinationAddress => Made("setShortDestinationAddress")
    BY CallsAreMade, Zenon
  <2>2. Head(todo) = "setShortDestinationAddress" => Left = 3
    BY WhereTheCallsAre, FourPrograms, Zenon DEF At
  <2> QED BY <1>2, <2>1, <2>2
<1>8. setPayload => Left = 2 /\ Left' = 1
  <2>1. setPayload => Made("setPayload")
    BY CallsAreMade, Zenon
  <2>2. Head(todo) = "setPayload" => Left = 2
    BY WhereTheCallsAre, FourPrograms, Zenon DEF At
  <2> QED BY <1>2, <2>1, <2>2
<1>9. sendBlocking => Left = 1 /\ Left' = 6
  <2>1. sendBlocking => Made("sendBlocking")
    BY CallsAreMade, Zenon
  <2>2. Head(todo) = "sendBlocking" => Left = 1
    BY WhereTheCallsAre, FourPrograms, Zenon DEF At
  <2> QED BY <1>2, <2>1, <2>2
<1>10. newPacketAvailable => Left = 6 /\ Left' = IF available' THEN 5 ELSE 6
  <2>1. newPacketAvailable =>
          /\ Head(todo) = "newPacketAvailable" /\ program' = program
          /\ todo' = IF available' THEN Tail(todo) ELSE todo
    BY DEF newPacketAvailable, Doing
  <2>2. Head(todo) = "newPacketAvailable" => Left = 6
    BY WhereTheCallsAre, FourPrograms, Zenon DEF At
  <2>3. ASSUME Left = 6, todo' = Tail(todo), program' = program
        PROVE  Left' = 5
    <3>1. Done
      BY <2>3 DEF Done, Left
    <3> QED BY <2>3, <3>1, DoneMovesOn
  <2>4. todo' = todo => Left' = Left
    BY DEF Left
  <2> QED BY <2>1, <2>2, <2>3, <2>4
<1>11. ~(\/ setUpDebugging \/ debug \/ sprintf \/ ifE \/ enablePromiscuousMode
        \/ setExtendedDestinationAddress \/ setPayloadToText)
  <2>1. /\ Head(todo) # "setUpDebugging"
        /\ Head(todo) # "debug"
        /\ Head(todo) # "sprintf"
        /\ Head(todo) # "if 'e'"
        /\ Head(todo) # "enablePromiscuousMode"
        /\ Head(todo) # "setExtendedDestinationAddress"
        /\ Head(todo) # "setPayloadToText"
    BY WhereTheCallsAre, FourPrograms, Zenon DEF At
  <2> QED BY <2>1, CallsAreMade, Zenon DEF Made, ifE, Doing
<1> QED
  BY <1>3, <1>4, <1>5, <1>6, <1>7, <1>8, <1>9, <1>10, <1>11, Zenon

\* A step that changes nothing the invariant speaks of, or leaves the part of the
\* loop of EchoMessageBlocking it speaks of.
LEMMA InterruptStands ==
  ASSUME InterruptIsUnread,
         UNCHANGED <<int_status, arrived, pc, writes, config, program, unread>>,
         Left' = Left \/ (program = EchoMessageBlocking => Left' \in {1, 2, 3, 7})
  PROVE  InterruptIsUnread'
<1>1. ResetIsNext' = ResetIsNext
  BY DEF ResetIsNext
<1> QED BY <1>1 DEF InterruptIsUnread

LEMMA ConfigurationKeepsInterrupt ==
  ASSUME InterruptIsUnread, LeftoversAreReset, OnTrack, ConfigureSteps
  PROVE  InterruptIsUnread'
<1>1. pc = "configuring" /\ UNCHANGED <<config, program, todo>> /\ config \in ConfigType
  BY DriverAssumption DEF ConfigureSteps, WriteConfiguration, FinishConfiguration,
     LeftoversAreReset
<1>2. Left' = Left
  BY <1>1 DEF Left
<1>3. program = EchoMessageBlocking => Left = 6
  <2>1. program = EchoMessageBlocking => LeftAfterConfigure(program) = 6
    BY Lengths, Zenon
  <2> QED BY <1>1, <2>1 DEF OnTrack
<1>4. CASE int_status' = {}
  BY <1>1, <1>2, <1>3, <1>4 DEF InterruptIsUnread
<1>5. CASE ~ResetIsNext /\ int_status' = int_status /\ (arrived => arrived')
  <2>1. unread /\ arrived' => unread'
    BY Zenon DEF ConfigureSteps
  <2>2. RXInterrupt \in int_status => arrived
    BY <1>1, <1>5 DEF InterruptIsUnread
  <2>3. program = EchoMessageBlocking /\ RXInterrupt \in int_status => unread
    BY <1>1, <1>3, <1>5 DEF InterruptIsUnread
  <2>4. RXInterrupt \in int_status' => arrived'
    BY <1>5, <2>2, Zenon
  <2>5. program = EchoMessageBlocking /\ RXInterrupt \in int_status' => unread'
    BY <1>5, <2>1, <2>2, <2>3, Zenon
  <2>6. program' = program /\ (program = EchoMessageBlocking => Left' = 6)
    BY <1>1, <1>2, <1>3
  <2> QED BY <2>4, <2>5, <2>6 DEF InterruptIsUnread
<1>6. CASE WriteConfiguration
  <2>1. ResetIsNext => int_status' = {}
    <3>1. ResetIsNext => Head(writes) = Head(reset)
      BY <1>1, ResetIsFirst DEF ResetIsNext
    <3> QED BY <1>6, <3>1, ResetTransaction DEF WriteConfiguration
  <2>2. int_status' = {} \/ (int_status' = int_status /\ (arrived => arrived'))
    <3>1. CASE int_status' = {}
      BY <3>1
    <3>2. CASE int_status' # {}
      BY <1>6, <3>2, Zenon DEF WriteConfiguration
    <3> QED BY <3>1, <3>2
  <2> QED BY <1>4, <1>5, <2>1, <2>2
<1>7. CASE FinishConfiguration
  <2>1. writes = <<>> /\ int_status' = int_status /\ arrived' = arrived
    BY <1>7 DEF FinishConfiguration, chip
  <2>2. ~ResetIsNext
    BY <1>1, <2>1, ResetIsFirst DEF ResetIsNext
  <2> QED BY <1>5, <2>1, <2>2
<1> QED BY <1>6, <1>7 DEF ConfigureSteps

LEMMA InterruptStaysUnread ==
  ASSUME InterruptIsUnread, LeftoversAreReset, OnTrack, Steps
  PROVE  InterruptIsUnread'
<1>1. CASE \/ setUpMac \/ setUpDebugging \/ debug \/ ifE \/ sprintf
           \/ UNCHANGED app_vars
  <2>1. UNCHANGED <<int_status, arrived, pc, writes, config, program, unread>>
    BY <1>1, NothingIsDone
  <2>2. CASE UNCHANGED app_vars
    <3>1. Left' = Left
      BY <2>2 DEF app_vars, Left
    <3> QED BY <2>1, <3>1, InterruptStands
  <2>3. CASE setUpMac \/ setUpDebugging \/ debug \/ ifE \/ sprintf
    <3>1. program = EchoMessageBlocking => Left' = 7
      BY <2>3, EchoCallByCall
    <3>2. program = EchoMessageBlocking => Left' \in {1, 2, 3, 7}
      BY <3>1
    <3> QED BY <2>1, <3>2, InterruptStands
  <2> QED BY <1>1, <2>2, <2>3
<1>2. CASE configure
  <2>1. /\ pc' = "configuring" /\ writes' = ConfigurationWrites(config')
        /\ UNCHANGED program
    BY <1>2 DEF configure, Calls, Makes, Reconfigure
  <2>2. ResetIsNext'
    BY <2>1 DEF ResetIsNext
  <2>3. program = EchoMessageBlocking => Left' = 6
    BY <1>2, EchoCallByCall
  <2> QED BY <2>1, <2>2, <2>3 DEF InterruptIsUnread
<1>3. CASE ConfigureSteps
  BY <1>3, ConfigurationKeepsInterrupt
<1>4. CASE enablePromiscuousMode
  <2>1. UNCHANGED <<int_status, arrived, pc, writes, config, program, unread>>
    BY <1>4 DEF enablePromiscuousMode, Calls, Makes, EnablePromiscuousMode,
       SetPromiscuousMode, driver, histories
  <2>2. program # EchoMessageBlocking
    BY <1>4, EchoCallByCall
  <2> QED BY <2>1, <2>2, InterruptStands
<1>5. CASE newPacketAvailable
  <2>1. /\ pc = "ready" /\ int_status' = {} /\ UNCHANGED <<pc, program, unread>>
    BY <1>5 DEF newPacketAvailable, NewMessageAvailable, driver
  <2>2. program = EchoMessageBlocking =>
          Left = 6 /\ Left' = IF available' THEN 5 ELSE 6
    BY <1>5, EchoCallByCall
  <2>3. ~ResetIsNext
    BY <2>1 DEF ResetIsNext
  <2>4. program = EchoMessageBlocking /\ RXInterrupt \in int_status => unread
    BY <2>1, <2>2, <2>3 DEF InterruptIsUnread
  <2>5. available' => RXInterrupt \in int_status
    BY <1>5, Zenon DEF newPacketAvailable, NewMessageAvailable
  <2>6. program = EchoMessageBlocking =>
          Left' = 6 \/ (available' /\ Left' = 5)
    BY <2>2
  <2>7. program = EchoMessageBlocking /\ Left' # 6 => unread
    BY <2>4, <2>5, <2>6, Zenon
  <2> QED BY <2>1, <2>7 DEF InterruptIsUnread
<1>6. CASE getReceivedPacketSize
  <2>1. /\ pc = "ready"
        /\ UNCHANGED <<int_status, arrived, pc, writes, config, program, unread>>
    BY <1>6 DEF getReceivedPacketSize, Calls, Makes, GetReceivedMessageSize, driver,
       chip, histories
  <2>2. program = EchoMessageBlocking => Left = 5 /\ Left' = 4
    BY <1>6, EchoCallByCall
  <2>3. program = EchoMessageBlocking => unread
    BY <2>2 DEF InterruptIsUnread
  <2>4. ResetIsNext' = ResetIsNext
    BY <2>1 DEF ResetIsNext
  <2> QED BY <2>1, <2>3, <2>4 DEF InterruptIsUnread
<1>7. CASE fetchPacketBlocking
  <2>1. UNCHANGED <<int_status, arrived, pc, writes, config, program>>
    BY <1>7 DEF fetchPacketBlocking, Makes, FetchMessageBlocking, driver, chip, histories
  <2>2. program = EchoMessageBlocking => Left' = 3
    BY <1>7, EchoCallByCall
  <2>3. ResetIsNext' = ResetIsNext
    BY <2>1 DEF ResetIsNext
  <2> QED BY <2>1, <2>2, <2>3 DEF InterruptIsUnread
<1>8. CASE \/ setShortDestinationAddress \/ setPayload
           \/ setExtendedDestinationAddress \/ setPayloadToText
  <2>1. UNCHANGED <<int_status, arrived, pc, writes, config, program, unread>>
    BY <1>8 DEF setShortDestinationAddress, setPayload, setExtendedDestinationAddress,
       setPayloadToText, Calls, Makes, SetShortDestinationAddress,
       SetExtendedDestinationAddress, SetPayload, SetUp, chip
  <2>2. program = EchoMessageBlocking => Left' = 2 \/ Left' = 1
    BY <1>8, EchoCallByCall
  <2>3. program = EchoMessageBlocking => Left' \in {1, 2, 3, 7}
    BY <2>2
  <2> QED BY <2>1, <2>3, InterruptStands
<1>9. CASE sendBlocking
  <2>1. /\ pc = "ready" /\ pc' = "write payload"
        /\ UNCHANGED <<int_status, arrived>> /\ program' = program
    BY <1>9 DEF sendBlocking, Calls, Makes, SendBlocking, histories
  <2>2. program = EchoMessageBlocking => Left' = 6
    BY <1>9, EchoCallByCall
  <2>3. RXInterrupt \in int_status => arrived
    BY <2>1 DEF InterruptIsUnread, ResetIsNext
  <2>4. RXInterrupt \in int_status' => arrived'
    BY <2>1, <2>3, Zenon
  <2>5. pc' \notin {"configuring", "ready"}
    BY <2>1
  <2>6. program' = EchoMessageBlocking => Left' \notin {4, 5}
    <3>1. program' = EchoMessageBlocking => Left' = 6
      BY <2>1, <2>2, Zenon
    <3> QED BY <3>1
  <2> QED BY <2>4, <2>5, <2>6, Zenon DEF InterruptIsUnread
<1>10. CASE SendBlockingSteps
  <2>1. /\ pc \in Sending /\ pc' \in Sending \cup {"ready"} /\ UNCHANGED <<arrived, program>>
        /\ int_status' = {} \/ (int_status' = int_status /\ pc' \in Sending)
        /\ unread' = unread /\ todo' = todo
    BY <1>10 DEF SendBlockingSteps, SendSteps, WritePayloadField, TriggerSend,
       PollInterruptStatus, histories, Sending
  <2>2. Left' = Left
    BY <2>1 DEF Left
  <2>3. RXInterrupt \in int_status => arrived
    BY <2>1 DEF InterruptIsUnread, ResetIsNext, Sending
  <2>4. pc' \in Sending => pc' \notin {"configuring", "ready"}
    BY DEF Sending
  <2> QED BY <2>1, <2>2, <2>3, <2>4 DEF InterruptIsUnread
<1>11. CASE TransmissionIsOver
  <2>1. /\ UNCHANGED <<arrived, pc, writes, config, program, unread, todo>>
        /\ int_status' = int_status \cup {TXInterrupt}
    BY <1>11 DEF TransmissionIsOver, TransmissionEnds, driver, histories
  <2>2. Left' = Left /\ ResetIsNext' = ResetIsNext
    BY <2>1 DEF Left, ResetIsNext
  <2>3. RXInterrupt \in int_status' => RXInterrupt \in int_status
    BY <2>1 DEF RXInterrupt, TXInterrupt
  <2> QED BY <2>1, <2>2, <2>3 DEF InterruptIsUnread
<1>12. CASE \E p \in Packets : PacketComesIn(p)
  <2>1. arrived' = TRUE /\ unread' = TRUE
    BY <1>12 DEF PacketComesIn, Receive
  <2> QED BY <2>1 DEF InterruptIsUnread
<1>13. CASE Restart
  <2>1. pc' = "unconfigured" /\ todo' = AllCalls(program) /\ UNCHANGED program
    BY <1>13 DEF Restart, AllCalls
  <2>2. program = EchoMessageBlocking => Left' = 8
    <3>1. program = EchoMessageBlocking => Len(AllCalls(program)) = 8
      BY Lengths, Zenon
    <3> QED BY <2>1, <3>1 DEF Left
  <2> QED BY <2>1, <2>2 DEF InterruptIsUnread
<1> QED
  BY <1>1, <1>2, <1>3, <1>4, <1>5, <1>6, <1>7, <1>8, <1>9, <1>10, <1>11, <1>12, <1>13
     DEF Steps

-----------------------------------------------------------------------------
(* The invariant of the programs.                                          *)

ProgramInvariant ==
  /\ OnTrack /\ LeftoversAreReset
  /\ FrameIsBuilt /\ RegistersAreConfigured /\ OtherTypes /\ OwnTypes
  /\ SizeIsCurrent /\ InterruptIsUnread
  /\ EchoAnswers /\ PrintAnswers /\ SenderSendsText

LEMMA ProgramsInitially == ApplicationsInit => ProgramInvariant
<1> SUFFICES ASSUME ApplicationsInit PROVE ProgramInvariant
  OBVIOUS
<1>1. /\ Init /\ program \in Programs /\ todo = AllCalls(program)
      /\ mac802154 = Null /\ number = 0 /\ restarts = 0 /\ unread = FALSE
  BY DEF ApplicationsInit, AllCalls
<1>2. pc = "unconfigured" /\ int_status = {} /\ size = Null
  BY <1>1 DEF Init
<1>3. OnTrack /\ LeftoversAreReset
  BY TrackInitially, LeftoversAreResetInitially
<1>4. FrameIsBuilt /\ RegistersAreConfigured /\ OtherTypes
  BY <1>1, InitIsServiceInit, RegistersInitially, OtherTypesInitially
<1>5. OwnTypes
  <2>1. NumberRange \in Nat /\ 1 <= NumberRange
    BY NumberRangeIsSmall
  <2>2. 0 \in 0 .. (NumberRange - 1) /\ 0 \in Nat
    BY <2>1
  <2> QED BY <1>1, <2>2, Zenon DEF OwnTypes
<1>6. SizeIsCurrent
  BY <1>2 DEF SizeIsCurrent
<1>7. pc \notin Sending
  BY <1>2 DEF Sending
<1>8. /\ program = EchoMessageBlocking => Left = 8
      /\ program = PrintTXBuffer => Left = 11
      /\ program = SendOneFrameBlocking => Left = 8
  <2>1. Left = Len(AllCalls(program))
    BY <1>1 DEF Left
  <2> QED BY <2>1, Lengths, Zenon
<1>9. InterruptIsUnread
  BY <1>2, <1>8 DEF InterruptIsUnread
<1>10. EchoAnswers /\ PrintAnswers /\ SenderSendsText
  BY <1>7, <1>8 DEF EchoAnswers, PrintAnswers, SenderSendsText
<1> QED BY <1>3, <1>4, <1>5, <1>6, <1>9, <1>10 DEF ProgramInvariant

LEMMA ProgramsKeepInvariant ==
  ASSUME ProgramInvariant, [ApplicationsNext]_app_vars
  PROVE  ProgramInvariant'
<1>1. Steps
  BY EveryStep
<1>2. OnTrack' /\ LeftoversAreReset'
  BY StaysOnTrack, LeftoversStayReset DEF ProgramInvariant
<1>3. FrameIsBuilt' /\ RegistersAreConfigured'
  BY <1>1, FrameStaysBuilt, RegistersStayConfigured DEF ProgramInvariant
<1>4. OtherTypes' /\ OwnTypes'
  BY <1>1, TypesStay, OwnTypesStay DEF ProgramInvariant
<1>5. SizeIsCurrent' /\ InterruptIsUnread'
  BY <1>1, SizeStaysCurrent, InterruptStaysUnread DEF ProgramInvariant
<1>6. EchoAnswers' /\ PrintAnswers' /\ SenderSendsText'
  BY <1>1, EchoStaysFaithful, PrintStaysFaithful, SenderStaysFaithful
     DEF ProgramInvariant
<1> QED BY <1>2, <1>3, <1>4, <1>5, <1>6 DEF ProgramInvariant

LEMMA ProgramsHoldInvariant == ApplicationsSpec => []ProgramInvariant
BY ProgramsInitially, ProgramsKeepInvariant, PTL DEF ApplicationsSpec

LEMMA TypesTogether ==
  ASSUME FrameIsBuilt, RegistersAreConfigured, OtherTypes
  PROVE  TypeOK
BY DEF FrameIsBuilt, RegistersAreConfigured, OtherTypes, TypeOK, Pointers

\* Whatever a program calls with whatever its packets hold, the variables have
\* their types, and there is always a call left to make.
THEOREM ProgramTypesCorrect == ApplicationsSpec => []ApplicationsTypeOK
<1>1. ASSUME ProgramInvariant PROVE ApplicationsTypeOK
  <2>1. TypeOK
    BY <1>1, TypesTogether DEF ProgramInvariant
  <2>2. program \in Programs /\ Len(todo) \in 1 .. Len(program.setup \o program.loop)
    BY <1>1 DEF ProgramInvariant, OnTrack, Following, AllCalls
  <2> QED BY <1>1, <2>1, <2>2, Zenon DEF ProgramInvariant, OwnTypes, ApplicationsTypeOK
<1> QED BY <1>1, ProgramsHoldInvariant, PTL

\* Between its calls a program's chip listens to the addresses, the network and the
\* channel of its configuration, after every restart too (Mac802154MRFImpl.c:59-182).
THEOREM ProgramsListen ==
  ASSUME ChannelsExist
  PROVE  ApplicationsSpec => []ChipListensToTheConfiguration
<1>1. ProgramInvariant => ChipListensToTheConfiguration
  BY ConfiguredIsListening DEF ProgramInvariant
<1> QED BY <1>1, ProgramsHoldInvariant, PTL

-----------------------------------------------------------------------------
(* What goes on air.                                                       *)

LEMMA Names ==
  ASSUME OnTrack
  PROVE  /\ Runs("EchoMessageBlocking") <=> program = EchoMessageBlocking
         /\ Runs("SendOneFrameBlocking") <=> program = SendOneFrameBlocking
         /\ Runs("PrintTXBuffer") <=> program = PrintTXBuffer
<1>1. /\ EchoMessageBlocking.name = "EchoMessageBlocking"
      /\ NetworkMonitor.name = "NetworkMonitor"
      /\ SendOneFrameBlocking.name = "SendOneFrameBlocking"
      /\ PrintTXBuffer.name = "PrintTXBuffer"
  BY DEF EchoMessageBlocking, NetworkMonitor, SendOneFrameBlocking, PrintTXBuffer
<1>2. program \in {EchoMessageBlocking, NetworkMonitor, SendOneFrameBlocking, PrintTXBuffer}
  BY ProgramsAssumption DEF OnTrack
<1> QED BY <1>1, <1>2 DEF Runs

\* After a configure, only triggerSend's polling sees a transmission, and it is
\* that of the frame that was asked for.
LEMMA OnAirIsAsked ==
  ASSUME ProgramInvariant, transmitting, pc \in ReadyStates
  PROVE  /\ pc \in Sending
         /\ FrameInFifo.destination = request.destination
         /\ FrameInFifo.header_size = HeaderSize(mrf)
         /\ HeaderSize(mrf) \in 1 .. MAXIMUM_HEADER_SIZE
         /\ request.header_size \in 0 .. MAXIMUM_HEADER_SIZE
         /\ request.header_size # 0 =>
              /\ FrameInFifo.payload = request.payload
              /\ FrameInFifo.length =
                   uint8(uint8(uint8(request.length) + request.header_size) - HeaderSize(mrf))
         /\ request.header_size = HeaderSize(mrf) =>
              /\ FrameInFifo.payload = request.payload
              /\ FrameInFifo.length = uint8(request.length)
<1>1. pc = "poll"
  BY DEF ProgramInvariant, LeftoversAreReset, Busy, ResetIsNext, ReadyStates
<1>2. /\ Built(mrf, request) /\ tx_fifo.header = mrf.header
      /\ tx_fifo.payload = MrfState_getPayloadField(mrf)
  BY <1>1 DEF ProgramInvariant, FrameIsBuilt, ReadyStates, Sending
<1>3. HeaderSize(mrf) \in 1 .. MAXIMUM_HEADER_SIZE
  <2>1. HeaderSize(mrf) # 0
    BY <1>2, SpaceIsHeaderSize
  <2>2. HeaderSize(mrf) \in 0 .. MAXIMUM_HEADER_SIZE
    BY <1>2, SizeBounds DEF HeaderSize, Built
  <2> QED BY <2>1, <2>2 DEF MAXIMUM_HEADER_SIZE
<1>4. pc \in Sending
  BY <1>1 DEF Sending
<1>5. request.header_size \in 0 .. MAXIMUM_HEADER_SIZE
  BY <1>2 DEF Built, Requests
<1>6. HeaderSize(mrf) # 0
  BY <1>3
<1> QED BY <1>2, <1>3, <1>4, <1>5, <1>6, FifoIsFrame

\* Every echo of a packet that was fetched whole, of whatever length and from
\* whatever address: it goes to the first two bytes of that address, which reaches
\* the sender only if the address is short; it begins with the payload of the packet
\* and is as long, but for what the header changed in size since setPayload; and in
\* EchoMessageBlocking, other than in PrintTXBuffer, the header did not
\* (EchoMessageBlocking.c:22-34, PrintTXBuffer.c:30-44).
THEOREM EchoGoesBack == ApplicationsSpec => []EchoIsFaithful
<1>1. ASSUME ProgramInvariant PROVE EchoIsFaithful
  <2> DEFINE frame    == FrameInFifo
             received == packet.content
  <2> SUFFICES ASSUME transmitting, pc \in ReadyStates,
                      program.name \in {"EchoMessageBlocking", "PrintTXBuffer"}
               PROVE  /\ frame.destination = [i \in 0 .. 1 |-> received.source[i]]
                      /\ frame.payload = [buffer |-> "packet", start |-> received.payload.start]
                      /\ frame.length = uint8(received.payload.length + request.header_size
                                                - frame.header_size)
                      /\ Runs("EchoMessageBlocking") => frame.header_size = request.header_size
    BY Zenon DEF EchoIsFaithful
  <2>1. OnTrack /\ EchoAnswers /\ PrintAnswers /\ pc \in Sending
    BY <1>1, OnAirIsAsked DEF ProgramInvariant
  <2>2. program = EchoMessageBlocking \/ program = PrintTXBuffer
    BY <2>1, Names DEF Runs
  <2>3. Fetched /\ Returned /\ Carried /\ (Runs("EchoMessageBlocking") => Fits)
    BY <2>1, <2>2, Names, Zenon DEF EchoAnswers, PrintAnswers
  <2>4. /\ frame.destination = request.destination
        /\ frame.header_size = HeaderSize(mrf)
        /\ frame.payload = request.payload
        /\ frame.length =
             uint8(uint8(uint8(request.length) + request.header_size) - HeaderSize(mrf))
        /\ HeaderSize(mrf) \in 1 .. MAXIMUM_HEADER_SIZE
        /\ request.header_size \in 0 .. MAXIMUM_HEADER_SIZE
    BY <1>1, <2>3, OnAirIsAsked DEF Carried
  <2>5. received.payload.length \in Nat /\ received.payload.length <= 128
    BY <2>3, TakenFromPacket DEF Fetched
  <2>6. ASSUME NEW n \in Nat, n <= 128, NEW then \in 0 .. MAXIMUM_HEADER_SIZE
        PROVE  uint8(uint8(n) + then) = n + then
    BY <2>6 DEF uint8, MAXIMUM_HEADER_SIZE
  <2> HIDE DEF frame, received
  <2>7. frame.length = uint8(received.payload.length + request.header_size - frame.header_size)
    BY <2>3, <2>4, <2>5, <2>6 DEF Carried, received
  <2> QED BY <2>3, <2>4, <2>7 DEF Returned, Carried, Fits, received
<1> QED BY <1>1, ProgramsHoldInvariant, PTL

\* SendOneFrameBlocking sends the text of its number, to the coordinator
\* (SendOneFrameBlocking.c:36-42).
THEOREM NumberGoesOut == ApplicationsSpec => []NumberIsSentAsFormatted
<1>1. ASSUME ProgramInvariant PROVE NumberIsSentAsFormatted
  <2> SUFFICES ASSUME transmitting, Runs("SendOneFrameBlocking"), pc \in ReadyStates
               PROVE  /\ FrameInFifo.destination = coordinator
                      /\ FrameInFifo.payload = text
                      /\ FrameInFifo.length = TextLength(number)
    BY Zenon DEF NumberIsSentAsFormatted
  <2>1. OnTrack /\ SenderSendsText /\ OwnTypes /\ pc \in Sending
    BY <1>1, OnAirIsAsked DEF ProgramInvariant
  <2>2. program = SendOneFrameBlocking
    BY <2>1, Names
  <2>3. Left = 4
    <3>1. Len(program.loop) = 4
      BY <2>2, Lengths, Zenon
    <3> QED BY <2>1, <3>1 DEF OnTrack
  <2>4. /\ request.destination = coordinator /\ request.payload = text
        /\ request.length = TextLength(number) /\ Fits
    BY <2>1, <2>2, <2>3 DEF SenderSendsText
  <2>5. uint8(TextLength(number)) = TextLength(number)
    <3>1. number \in 0 .. (NumberRange - 1)
      BY <2>1, Zenon DEF OwnTypes
    <3>2. number \in Nat /\ number < 65536
      BY <3>1, NumberFits
    <3> QED BY <3>2, TakenFromText
  <2> QED BY <1>1, <2>4, <2>5, OnAirIsAsked DEF Fits
<1> QED BY <1>1, ProgramsHoldInvariant, PTL

-----------------------------------------------------------------------------
(* What is fetched, and when.                                              *)

\* Whatever the program asked before: a packet is fetched with the size that was read
\* for it and for no other, unless one came in between the size and the fetch
\* (EchoMessageBlocking.c:25-27, NetworkMonitor.c:42-44, PrintTXBuffer.c:26-31).
THEOREM PacketsAreFetchedWhole == ApplicationsSpec => FetchedPacketIsWhole
<1> DEFINE Step == (FetchMessageBlocking /\ ~overtaken) =>
                      packet'.size = packet'.content.length + 1
<1>1. ASSUME ProgramInvariant PROVE [Step]_vars
  <2> SUFFICES ASSUME FetchMessageBlocking, ~overtaken
               PROVE  packet'.size = packet'.content.length + 1
    OBVIOUS
  <2>1. size # Null /\ packet' = [content |-> rx_fifo, size |-> size]
    BY DEF FetchMessageBlocking
  <2>2. size = rx_fifo.length + 1
    BY <1>1, <2>1 DEF ProgramInvariant, SizeIsCurrent
  <2> QED BY <2>1, <2>2
<1>2. ApplicationsSpec => [][Step]_vars
  BY <1>1, ProgramsHoldInvariant, PTL
<1> QED BY <1>2 DEF FetchedPacketIsWhole

\* The interrupt bit that lets EchoMessageBlocking go on is that of a packet it has
\* not fetched yet (EchoMessageBlocking.c:23-33).
THEOREM AnswersOnce == ApplicationsSpec => NoPacketIsAnsweredTwice
<1> DEFINE Step == (fetchPacketBlocking /\ Runs("EchoMessageBlocking")) => unread
<1>1. ASSUME ProgramInvariant PROVE [Step]_app_vars
  <2> SUFFICES ASSUME fetchPacketBlocking, Runs("EchoMessageBlocking") PROVE unread
    OBVIOUS
  <2>1. OnTrack /\ InterruptIsUnread /\ program = EchoMessageBlocking
    BY <1>1, Names DEF ProgramInvariant
  <2>2. Left = 4
    BY <2>1, EchoCallByCall
  <2> QED BY <2>1, <2>2 DEF InterruptIsUnread
<1>2. ApplicationsSpec => [][Step]_app_vars
  BY <1>1, ProgramsHoldInvariant, PTL
<1> QED BY <1>2 DEF NoPacketIsAnsweredTwice

\* Only sprintf writes the text, and only fetchPacketBlocking the buffer of a packet.
LEMMA OtherStepsKeepPayload ==
  ASSUME Steps, ~fetchPacketBlocking, ~sprintf, ~Restart
  PROVE  UNCHANGED <<number, packet>>
BY DEF Steps, setUpMac, setUpDebugging, debug, ifE, configure, ConfigureSteps,
   enablePromiscuousMode, newPacketAvailable, getReceivedPacketSize,
   setShortDestinationAddress, setPayload, setExtendedDestinationAddress, setPayloadToText,
   sendBlocking, SendBlockingSteps, TransmissionIsOver, PacketComesIn, Calls, Makes,
   vars, app_vars, Reconfigure, WriteConfiguration, FinishConfiguration,
   EnablePromiscuousMode, SetPromiscuousMode, NewMessageAvailable, GetReceivedMessageSize,
   SetShortDestinationAddress, SetExtendedDestinationAddress, SetPayload, SetUp,
   SendBlocking, SendSteps, WritePayloadField, TriggerSend, PollInterruptStatus,
   TransmissionEnds, Receive, application

\* The calls that write a buffer: a payload is still to be set before the next send.
LEMMA NothingIsNeededYet ==
  ASSUME OnTrack, Head(todo) \in {"fetchPacketBlocking", "sprintf"}
  PROVE  LET left == {todo[i] : i \in DOMAIN todo}
         IN "sendBlocking" \in left =>
              "setPayload" \in left \/ "setPayloadToText" \in left
<1> DEFINE left == {todo[i] : i \in DOMAIN todo}
<1>1. /\ \A n \in 1 .. Left : CallAt(program, n) \in left
      /\ \A call \in left : \E n \in 1 .. Left : call = CallAt(program, n)
  <2>1. /\ todo \in Seq(CallNames) /\ Left \in Nat /\ Left = Len(todo)
        /\ \A i \in 1 .. Len(todo) : todo[i] = CallAt(program, Len(todo) - i + 1)
    BY DEF OnTrack, Following, Left
  <2>2. DOMAIN todo = 1 .. Left
    BY <2>1
  <2>3. ASSUME NEW n \in 1 .. Left PROVE CallAt(program, n) \in left
    <3>1. Left - n + 1 \in 1 .. Left /\ Left - (Left - n + 1) + 1 = n
      BY <2>1
    <3>2. todo[Left - n + 1] = CallAt(program, n)
      BY <2>1, <3>1
    <3> QED BY <2>2, <3>1, <3>2
  <2>4. ASSUME NEW i \in DOMAIN todo
        PROVE  \E n \in 1 .. Left : todo[i] = CallAt(program, n)
    <3>1. Left - i + 1 \in 1 .. Left /\ todo[i] = CallAt(program, Left - i + 1)
      BY <2>1, <2>2
    <3> QED BY <3>1
  <2> QED BY <2>3, <2>4
<1> HIDE DEF left
<1>2. \/ At(EchoMessageBlocking, 4) \/ At(NetworkMonitor, 2)
      \/ At(PrintTXBuffer, 6) \/ At(SendOneFrameBlocking, 4)
  BY WhereTheCallsAre
<1>3. CASE At(EchoMessageBlocking, 4)
  <2>1. 2 \in 1 .. Left
    BY <1>3 DEF At
  <2>2. CallAt(program, 2) = "setPayload"
    BY <1>3, EchoCalls, Zenon DEF At
  <2> QED BY <1>1, <2>1, <2>2 DEF left
<1>4. CASE At(NetworkMonitor, 2)
  <2>1. "sendBlocking" \notin left
    <3> SUFFICES ASSUME NEW n \in 1 .. 2 PROVE CallAt(NetworkMonitor, n) # "sendBlocking"
      BY <1>1, <1>4 DEF At
    <3>1. n = 1 \/ n = 2
      OBVIOUS
    <3> QED BY <3>1, MonitorCalls
  <2> QED BY <2>1 DEF left
<1>5. CASE At(PrintTXBuffer, 6)
  <2>1. 3 \in 1 .. Left
    BY <1>5 DEF At
  <2>2. CallAt(program, 3) = "setPayload"
    BY <1>5, PrintCalls, Zenon DEF At
  <2> QED BY <1>1, <2>1, <2>2 DEF left
<1>6. CASE At(SendOneFrameBlocking, 4)
  <2>1. 2 \in 1 .. Left
    BY <1>6 DEF At
  <2>2. CallAt(program, 2) = "setPayloadToText"
    BY <1>6, SenderCalls, Zenon DEF At
  <2> QED BY <1>1, <2>1, <2>2 DEF left
<1> QED BY <1>2, <1>3, <1>4, <1>5, <1>6

\* From setPayload until its frame has been sent no program writes the buffer of the
\* payload, not even while a transmission of before a restart goes on
\* (Mac802154.h:87-89, MRFState.c:36-40).
THEOREM PayloadsStayAlive == ApplicationsSpec => PayloadStaysAlive
<1> DEFINE Step == (PayloadIsNeeded /\ restarts' = restarts) => UNCHANGED <<number, packet>>
<1>1. ASSUME ProgramInvariant, [ApplicationsNext]_app_vars PROVE [Step]_app_vars
  <2> SUFFICES ASSUME PayloadIsNeeded, restarts' = restarts PROVE UNCHANGED <<number, packet>>
    OBVIOUS
  <2>1. OnTrack /\ OwnTypes /\ Steps
    BY <1>1, EveryStep DEF ProgramInvariant
  <2>2. ASSUME fetchPacketBlocking \/ sprintf PROVE FALSE
    <3>1. pc \in {"unconfigured", "ready"} /\ Head(todo) \in {"fetchPacketBlocking", "sprintf"}
      BY <2>2 DEF fetchPacketBlocking, sprintf, Makes, Doing
    <3>2. pc # "unconfigured"
      <4>1. \/ At(EchoMessageBlocking, 4) \/ At(NetworkMonitor, 2)
            \/ At(PrintTXBuffer, 6) \/ At(SendOneFrameBlocking, 4)
        BY <2>1, <3>1, WhereTheCallsAre
      <4>2. Left <= LeftAfterConfigure(program) /\ Left \in Nat
                 /\ LeftAfterConfigure(program) \in Nat
        BY <4>1, Lengths DEF At
      <4> QED BY <2>1, <4>2 DEF OnTrack
    <3>3. pc = "ready" /\ ~transmitting
      BY <1>1, <3>1, <3>2 DEF ProgramInvariant, LeftoversAreReset, Busy, ResetIsNext
    <3>4. LET left == {todo[i] : i \in DOMAIN todo}
          IN "sendBlocking" \in left /\ left \cap {"setPayload", "setPayloadToText"} = {}
      BY <3>3, Zenon DEF PayloadIsNeeded
    <3> QED BY <2>1, <3>1, <3>4, NothingIsNeededYet
  <2>3. ~Restart
    <3>1. restarts \in Nat
      BY <2>1 DEF OwnTypes
    <3>2. Restart => restarts' = restarts + 1
      BY Zenon DEF Restart
    <3> QED BY <3>1, <3>2
  <2> QED BY <2>1, <2>2, <2>3, OtherStepsKeepPayload
<1>2. ApplicationsSpec => [][Step]_app_vars
  BY <1>1, ProgramsHoldInvariant, PTL DEF ApplicationsSpec
<1> QED BY <1>2 DEF PayloadStaysAlive

-----------------------------------------------------------------------------
(* With a peer.                                                            *)

\* The number of the peer's message; without a peer nothing counts as an answer.
PeerTypes == current \in 0 .. 2 /\ (current = 0 => ~answer)

\* A peer that repeats its messages, a lossy channel and answers are among the
\* worlds of ApplicationsSpec, so that all of the above holds of them too
\* (EchoMessageBlocking.c:22-34).
THEOREM PeerIsOneOfTheWorlds == PeerSpec => ApplicationsSpec
<1>1. PeerInit => ApplicationsInit /\ PeerTypes
  BY DEF PeerInit, PeerTypes
<1>2. PeerTypes /\ [PeerNext]_peer_vars => [ApplicationsNext]_app_vars /\ PeerTypes'
  <2> SUFFICES ASSUME PeerTypes, [PeerNext]_peer_vars
               PROVE  [ApplicationsNext]_app_vars /\ PeerTypes'
    OBVIOUS
  <2>1. CASE UNCHANGED peer_vars
    BY <2>1, Zenon DEF peer_vars, PeerTypes
  <2>2. CASE ProgramSteps
    <3>1. UNCHANGED current /\ (answer' => current # 0 \/ answer)
      BY <2>2, Zenon DEF ProgramSteps, IsAnswer
    <3>2. ApplicationsNext
      BY <2>2, Zenon DEF ProgramSteps, ApplicationsNext
    <3> QED BY <3>1, <3>2, Zenon DEF PeerTypes
  <2>3. CASE AnyPacketComesIn
    BY <2>3, Zenon DEF AnyPacketComesIn, ApplicationsNext, PeerTypes
  <2>4. CASE PeerSends
    <3>1. UNCHANGED <<current, answer>> /\ current # 0 /\ PacketComesIn(Messages[current])
      BY <2>4 DEF PeerSends
    <3>2. current = 1 \/ current = 2
      BY <3>1 DEF PeerTypes
    <3>3. Messages[current] \in Packets
      BY <3>2, MessagesAssumption
    <3> QED BY <3>1, <3>3, Zenon DEF ApplicationsNext, PeerTypes
  <2>5. CASE AnswerArrives
    <3>1. TransmissionIsOver /\ answer /\ current' = 3 - current /\ answer' = FALSE
      BY <2>5 DEF AnswerArrives
    <3>2. current = 1 \/ current = 2
      BY <3>1 DEF PeerTypes
    <3>3. current' \in 0 .. 2
      BY <3>1, <3>2
    <3> QED BY <3>1, <3>3, Zenon DEF ApplicationsNext, PeerTypes
  <2>6. CASE FrameIsLost
    BY <2>6, Zenon DEF FrameIsLost, ApplicationsNext, PeerTypes
  <2> QED BY <2>1, <2>2, <2>3, <2>4, <2>5, <2>6, Zenon DEF PeerNext
<1> QED BY <1>1, <1>2, PTL DEF PeerSpec, ApplicationsSpec

=============================================================================

