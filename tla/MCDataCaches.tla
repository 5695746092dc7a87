---------------------------- MODULE MCDataCaches ----------------------------
(* Cache geometries for DataCaches. *)
EXTENDS DataCaches

Cfg(nsets, assoc, policy, hsize, counting) ==
    [nsets |-> nsets, assoc |-> assoc, policy |-> policy, hsize |-> hsize, counting |-> counting]

\* Every policy, searched by list or by hash table, and a cache that counts.
L1 == {Cfg(1, 2, "LRU", 2, FALSE), Cfg(1, 2, "LRU", 0, FALSE), Cfg(1, 2, "Random", 2, FALSE),
       Cfg(1, 2, "FIFO", 0, TRUE)}
\* Without a second level, and with one.
L2 == {NoCache, Cfg(1, 2, "LRU", 2, FALSE)}
=============================================================================
