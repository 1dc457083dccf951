--------------------------- MODULE MCChannelThreads ---------------------------
EXTENDS ChannelThreads

MCSays == <<1, 1>>
=============================================================================
