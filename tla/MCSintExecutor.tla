-------------------------- MODULE MCSintExecutor --------------------------
(* Event flags scaled to two words of two bits: channels 0 and 1 share a   *)
(* word of flags, and channels 0 and 3 a waker slot.  The stack of channel *)
(* 0 sends a frame.  Three frames and a completion behind them are enough  *)
(* for a receive to leave packets in the ring: its two pump_channel calls  *)
(* keep the first frame and drop the other two.                            *)
EXTENDS SintExecutor

Channels == {0, 1, 3}
SendingChannels == {0}
FrameBursts == {1, 3}
=============================================================================
