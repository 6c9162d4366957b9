------------------------------ MODULE MCMemPool ------------------------------
(* A pool of eight quanta of 16 bytes, taken three at a time.  The last size is
   the greatest that WordAssumption admits. *)
EXTENDS MemPool

MCBases == {-1, PoolSize + 1}
MCSizes == {0, 16, 17, 48, 864}

=============================================================================
