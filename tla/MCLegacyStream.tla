--------------------------- MODULE MCLegacyStream ---------------------------
EXTENDS LegacyStream

\* A line is relayed whole wherever the chunks end: sse.rs's test
\* handles_chunk_split_inside_json says that one split inside its JSON is
\* handled.
SplitLinesWhole == RelayFaithful
=============================================================================
