------------------------- MODULE MCExampleValidation -------------------------
(* Three examples for TLC, in the order discovery sorts them.              *)
EXTENDS ExampleValidation

CONSTANTS e1, e2, e3

MCExamples == <<e1, e2, e3>>

MCObedient == {}

MCStubborn == {e2}

=============================================================================
