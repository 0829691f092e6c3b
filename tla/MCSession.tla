----------------------------- MODULE MCSession -----------------------------
(* Sessions and Channels, each with its own small instance, side by side:  *)
(* commands meet a session that ends, or channels are opened beside it.    *)
EXTENDS Sessions, Channels

Unopened == ChannelsInit /\ play = "x11" /\ ~rule.forwards /\ xw.setup = "endless"

BesideInit == SessionsInit /\ ChannelsInit
BesideNext ==
    \/ Unopened /\ SessionsNext /\ UNCHANGED cvars
    \/ SessionsInit /\ ChannelsNext /\ UNCHANGED backend
BesideSpec ==
    /\ BesideInit /\ [][BesideNext]_<<backend, cvars>>
    /\ SessionsFairness /\ ChannelsFairness
=============================================================================
