-------------------------------- MODULE Bytes --------------------------------
(* The unsigned integers of the C code. *)
EXTENDS Integers

Byte == 0 .. 255
Bit  == 0 .. 1

\* Conversion to uint8_t and uint16_t.
uint8(n)  == n % 256
uint16(n) == n % 65536

=============================================================================
