---------------------------- MODULE MCPulsePcm ----------------------------
(* Instances of PulsePcm for TLC: one playback and one capture stream of a  *)
(* context, or two streams of the same kind.                                *)
EXTENDS PulsePcm

CONSTANTS p1, p2, c1

OnePlayback == {p1}
OneCapture  == {c1}
TwoPlayback == {p1, p2}
NoStreams   == {}

============================================================================
