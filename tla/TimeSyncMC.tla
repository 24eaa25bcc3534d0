----------------------------- MODULE TimeSyncMC -----------------------------
(* Instances of TimeSync for TLC: the .cfg files bind the constants.         *)
EXTENDS TimeSync

\* The settings snapcast-server sends by default, and a local latency that makes
\* every chunk late.
Settings == {<<1000, 0>>, <<1000, 1000>>}
NoSettings == {}

\* A slow and uneven network, and one that always takes as long.
Slow == {500, 9000}
Even == {4000}
=============================================================================
