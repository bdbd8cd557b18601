---------------------------- MODULE MCUartDriver ----------------------------
(* A small UART: two frames, both longer than nothing and one longer than   *)
(* the FIFO, so that a write blocks, a restart tears a frame, and the FIFO  *)
(* holds the end of one frame and the beginning of the next.                *)
EXTENDS UartDriver

MCSize == [f \in Frame |-> IF f = "key" THEN 3 ELSE 2]

\* Lock::init is the only caller of init (Lock_driver.cpp:36).
MCInitArgs == {[cts |-> UART_PIN_NO_CHANGE, rts |-> UART_PIN_NO_CHANGE,
                hwFlow |-> FALSE]}
=============================================================================
