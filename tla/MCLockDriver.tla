---------------------------- MODULE MCLockDriver ----------------------------
(* The four frames in miniature above a FIFO that holds the wake-up and some *)
(* of what was sent before it, so that the pause starts with a full FIFO.    *)
EXTENDS LockDriver

MCSize == [f \in LockFrames |-> CASE f = "setKey" -> 3
                                  [] f = "open" -> 2
                                  [] f = "wakeup" -> 2
                                  [] f = "disableLatch" -> 1]

MCInitArgs == {UartArgs}

\* The pins of zigbee.hpp, and a pin the driver refuses.
MCPins == {<<4, 5>>, <<0, 5>>}
=============================================================================
