---------------------------- MODULE MCTraceNames ----------------------------
EXTENDS TraceNames
=============================================================================
