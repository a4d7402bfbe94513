----------------------------- MODULE MCByteQueue -----------------------------
(* One producer and one consumer thread on a buffer of three bytes: a payload
   of four does not fit at once, a read takes two bytes of a full buffer. *)
EXTENDS ByteQueue

CONSTANTS inputReader, mainThread

MCProducers == {inputReader}
MCConsumers == {mainThread}
MCByte == 0..6
MCPayloads == {<<1>>, <<2, 3>>, <<3, 4, 5, 6>>}
==============================================================================
