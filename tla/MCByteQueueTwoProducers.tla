------------------------ MODULE MCByteQueueTwoProducers ------------------------
(* The input queue of a terminal session as the key row uses it: the main
   thread and the executor thread that repeats a held key both write, the
   session's writer thread reads. *)
EXTENDS ByteQueue

CONSTANTS mainThread, repeatThread, inputWriter

MCProducers == {mainThread, repeatThread}
MCConsumers == {inputWriter}
MCByte == 0..3
MCPayloads == {<<1>>, <<2, 3>>}
==============================================================================
