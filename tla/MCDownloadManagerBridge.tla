---------------------- MODULE MCDownloadManagerBridge ----------------------
EXTENDS DownloadManagerBridge

\* Four downloads and two usable addresses, so that at most two callbacks are
\* in flight and an address is freed and reused.
MCDownloads == {"d1", "d2", "d3", "d4"}
MCAddresses == {0, 1, 2}
=============================================================================
