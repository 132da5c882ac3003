--------------------- MODULE MCIncrementalLookupSession ---------------------
EXTENDS IncrementalLookupSession, DafsaFixture

MCCursors == {"saved", "probe"}
=============================================================================
