------------------------------ MODULE MCFraming ------------------------------
EXTENDS Framing

TwoBodies == {<<0>>, <<1, 0, 255>>}
=============================================================================
