----------------------------- MODULE MCDataCache -----------------------------
(* DataCache on small sizes, and the file reader it implements.            *)
EXTENDS CachedReader
=============================================================================
