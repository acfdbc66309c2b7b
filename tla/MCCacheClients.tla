--------------------------- MODULE MCCacheClients ---------------------------
(* Sizes are in units of the 1 MiB every provider accounts for a download. *)
(* The walk may find a directory of one or of two units, so a scan alone   *)
(* can already exceed MaxSize.                                             *)
EXTENDS CacheClients

MCScanSizes == {1, 2}
=============================================================================
