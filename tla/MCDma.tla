------------------------------- MODULE MCDma -------------------------------
(* Instances of DmaTransfer for TLC. *)
EXTENDS DmaTransfer

CONSTANTS c0, c1

By(d, u, c, modes) == {[dev |-> d, unit |-> u, core |-> c, mode |-> m] : m \in modes}

(* UART from both cores; SPI so that no core starts a transfer while       *)
(* another's spi_handle_data_dma is still to switch the unit off; I2C      *)
(* waited for by one core and with a callback, which the bus may abort, on *)
(* the other.                                                              *)
OfUnitZero == UNION {By("uart_send", 0, c0, Modes), By("uart_send", 0, c1, Modes),
                     By("uart_recv", 0, c0, Modes), By("uart_recv", 0, c1, {"async"}),
                     By("spi_send", 0, c0, {"sync"}),
                     By("i2c_send", 0, c0, {"async"}), By("i2c_send", 0, c1, {"sync"}),
                     By("spi_recv", 0, c0, {"async"}), By("spi_recv", 0, c1, {"async"})}

(* Of another unit, whose handlers look at unit 0.                         *)
OfUnitOne == UNION {By("uart_send", 1, c0, Modes), By("uart_recv", 1, c0, {"async"}),
                    By("spi_send", 1, c0, {"async"}), By("i2c_send", 1, c0, {"async"})}

MCCalls == OfUnitZero \cup OfUnitOne
=============================================================================
