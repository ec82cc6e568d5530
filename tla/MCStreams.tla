------------------------------- MODULE MCStreams -------------------------------
EXTENDS Streams, TLC

Interchangeable == Permutations(Stream)
================================================================================
