-------------------------- MODULE MCKlineRetention --------------------------
(***************************************************************************)
(* One symbol and one query; the retention cutoff moves while the query's  *)
(* backfill is fetched.                                                    *)
(***************************************************************************)
EXTENDS KlineCache, TLC

CONSTANT b

MCQueries == {<<b, <<2, 4>>>>, <<b, <<3, 5>>>>}
=============================================================================
