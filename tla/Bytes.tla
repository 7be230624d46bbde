-------------------------------- MODULE Bytes --------------------------------
(***************************************************************************)
(* Integers as they travel: INT_BYTES bytes, the lowest first              *)
(* (src/app/utils/socket/socket_messenger.cpp).                            *)
(***************************************************************************)
EXTENDS Integers, Sequences

INT_BYTES == 4
MAX_VALUE == 256

Byte == 0..(MAX_VALUE - 1)

\* The greatest int: 2^31 - 1
MaxInt == (127 * 16777216) + 16777215

\* A negative value is less than MAX_VALUE, so only its lowest byte is kept
IntToByte(value) ==
    IF value < 0
    THEN <<value % MAX_VALUE, 0, 0, 0>>
    ELSE <<value % MAX_VALUE,
           (value \div MAX_VALUE) % MAX_VALUE,
           (value \div (MAX_VALUE * MAX_VALUE)) % MAX_VALUE,
           (value \div (MAX_VALUE * MAX_VALUE * MAX_VALUE)) % MAX_VALUE>>

\* Slip: the highest byte is taken as the first
ByteToIntReversed(arr) ==
    arr[4] + MAX_VALUE * (arr[3] + MAX_VALUE * (arr[2] + MAX_VALUE * (arr[1] % 128)))

\* The highest byte carries the sign of the 32-bit sum
ByteToInt(arr) ==
    LET top == IF arr[4] < MAX_VALUE \div 2 THEN arr[4] ELSE arr[4] - MAX_VALUE
    IN  arr[1] + MAX_VALUE * (arr[2] + MAX_VALUE * (arr[3] + MAX_VALUE * top))
=============================================================================
