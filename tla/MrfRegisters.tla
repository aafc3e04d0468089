----------------------------- MODULE MrfRegisters -----------------------------
(***************************************************************************)
(* The control registers and values of MRFInternalConstants.h, and the     *)
(* writes of Mac802154MRFImpl.c that configure the chip, in their order.   *)
(***************************************************************************)
EXTENDS MrfIo

mrf_register_receive_mac_control        ==   0    \* 0x00
mrf_register_pan_id_low_byte            ==   1    \* 0x01
mrf_register_short_address_low_byte     ==   3    \* 0x03
mrf_register_extended_address0          ==   5    \* 0x05
mrf_register_power_amplifier_control2   ==  24    \* 0x18
mrf_register_tx_normal_fifo_control     ==  27    \* 0x1B
mrf_register_software_reset             ==  42    \* 0x2A
mrf_register_tx_stabilization           ==  46    \* 0x2E
mrf_register_interrupt_status           ==  49    \* 0x31
mrf_register_interrupt_control          ==  50    \* 0x32
mrf_register_rf_mode_control            ==  54    \* 0x36
mrf_register_base_band2                 ==  58    \* 0x3A
mrf_register_base_band6                 ==  62    \* 0x3E
mrf_register_energy_detection_threshold ==  63    \* 0x3F, _for_clear_channel_assessment
mrf_register_rf_control0                == 512    \* 0x200
mrf_register_rf_control1                == 513
mrf_register_rf_control2                == 514
mrf_register_rf_control3                == 515
mrf_register_rf_control6                == 518
mrf_register_rf_control7                == 519
mrf_register_rf_control8                == 520
mrf_register_sleep_clock_control1       == 544    \* 0x220

mrf_tx_fifo_start ==   0
mrf_rx_fifo_start == 768    \* 0x300

mrf_value_full_software_reset              == 7
mrf_value_rf_state_machine_reset_state     == 4
mrf_value_rf_state_machine_operating_state == 0
mrf_value_rx_interrupt_enabled             == 247    \* (uint8_t) ~(1 << 3)

\* Faulty: not cut to a byte.
power_amplifier_control2_uncut == 256 + 24

\* (uint8_t) (1 << 8 | 0x18): the bit mrf_fifo_enable asks for is outside the byte.
power_amplifier_control2_value == uint8(256 + 24)

reset == MrfIo_setControlRegister(mrf_register_software_reset, mrf_value_full_software_reset)

setInitializationValuesFromDatasheet ==
     MrfIo_setControlRegister(mrf_register_power_amplifier_control2,
                              power_amplifier_control2_value)
  \o MrfIo_setControlRegister(mrf_register_tx_stabilization, 149)              \* 0x95
  \o MrfIo_setControlRegister(mrf_register_rf_control0, 3)
  \o MrfIo_setControlRegister(mrf_register_rf_control1, 1)
  \o MrfIo_setControlRegister(mrf_register_rf_control2, 128)                   \* 0x80
  \o MrfIo_setControlRegister(mrf_register_rf_control6, 144)                   \* 1 << 7 | 1 << 4
  \o MrfIo_setControlRegister(mrf_register_rf_control7, 128)                   \* 0x80
  \o MrfIo_setControlRegister(mrf_register_rf_control8, 16)                    \* 0x10
  \o MrfIo_setControlRegister(mrf_register_sleep_clock_control1, 33)           \* 1 << 5 | 1
  \o MrfIo_setControlRegister(mrf_register_base_band2, 128)                    \* 0x80
  \o MrfIo_setControlRegister(mrf_register_energy_detection_threshold, 96)     \* 0x60
  \o MrfIo_setControlRegister(mrf_register_base_band6, 64)                     \* 0x40

enableRXInterrupt ==
  MrfIo_setControlRegister(mrf_register_interrupt_control, mrf_value_rx_interrupt_enabled)

resetInternalRFStateMachine ==
     MrfIo_setControlRegister(mrf_register_rf_mode_control,
                              mrf_value_rf_state_machine_reset_state)
  \o MrfIo_setControlRegister(mrf_register_rf_mode_control,
                              mrf_value_rf_state_machine_operating_state)

setChannel(channel_number) ==
     MrfIo_setControlRegister(mrf_register_rf_control0,
                              MRF_getRegisterValueForChannelNumber(channel_number))
  \o resetInternalRFStateMachine

setUpTransmitterPower == MrfIo_setControlRegister(mrf_register_rf_control3, 0)

\* An address as the sequence of its bytes.
AddressBytes(address, length) == [i \in 1 .. length |-> address[i - 1]]

setShortSourceAddress(address) ==
  MrfIo_writeBlockingToShortAddress(AddressBytes(address, 2),
                                    mrf_register_short_address_low_byte)

setExtendedSourceAddress(address) ==
  MrfIo_writeBlockingToShortAddress(AddressBytes(address, 8), mrf_register_extended_address0)

setPanId(pan_id) ==
  MrfIo_writeBlockingToShortAddress(AddressBytes(pan_id, 2), mrf_register_pan_id_low_byte)

\* Faulty: the channel before the initial values, which share a register with it.
ConfigurationWritesChannelFirst(config) ==
     reset
  \o setChannel(config.channel)
  \o setInitializationValuesFromDatasheet
  \o enableRXInterrupt
  \o setUpTransmitterPower
  \o setShortSourceAddress(config.short_source_address)
  \o setExtendedSourceAddress(config.extended_source_address)
  \o setPanId(config.pan_id)

\* Faulty: no reset.
ConfigurationWritesWithoutReset(config) ==
     setInitializationValuesFromDatasheet
  \o enableRXInterrupt
  \o setChannel(config.channel)
  \o setUpTransmitterPower
  \o setShortSourceAddress(config.short_source_address)
  \o setExtendedSourceAddress(config.extended_source_address)
  \o setPanId(config.pan_id)

\* Every transaction of reconfigure.
ConfigurationWrites(config) ==
     reset
  \o setInitializationValuesFromDatasheet
  \o enableRXInterrupt
  \o setChannel(config.channel)
  \o setUpTransmitterPower
  \o setShortSourceAddress(config.short_source_address)
  \o setExtendedSourceAddress(config.extended_source_address)
  \o setPanId(config.pan_id)

\* The registers these writes and the driver's other calls address.
ControlRegisters ==
  ({"short"} \X {0, 1, 2, 3, 4, 5, 6, 7, 8, 9, 10, 11, 12,
                 24, 27, 42, 46, 49, 50, 54, 58, 62, 63})
    \cup ({"long"} \X {512, 513, 514, 515, 518, 519, 520, 544})

=============================================================================
