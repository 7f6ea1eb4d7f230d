---- MODULE MCChunkPipeline ----
EXTENDS ChunkPipeline
\* The first and the third chunk are the same bytes; the last byte is one too many.
MCSource == <<1, 2, 3, 3, 1, 2, 4, 5, 6>>
====
