----------------------------- MODULE MCModbusTCP -----------------------------
(* Model checking of the transport on its own: two devices on the bus.      *)
EXTENDS ModbusTCP

MCUnits == {1, 2}
=============================================================================
