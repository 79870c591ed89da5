--------------------------- MODULE MCChatDelivery ---------------------------
(* ChatDelivery on small instances for TLC.                                *)
EXTENDS ChatDelivery
MCAllModes == NativeModes
MCRacing == {"racing"}
MCOrderly == {"orderly"}
=============================================================================
