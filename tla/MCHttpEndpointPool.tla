------------------------- MODULE MCHttpEndpointPool --------------------------
(* Instances of HttpEndpointPool for TLC.                                    *)
EXTENDS HttpEndpointPool

\* healthy_rotate_interval: -1s
Never == -1
==============================================================================
