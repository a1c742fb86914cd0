------------------------------ MODULE MCGoroutines ------------------------------
(* pool-map with two workers on three elements; two expressions of parfunc   *)
(* that take up to two of two mutexes, in either order, or one twice; and an *)
(* HTTP server with two goroutines, one upload and two browsers.             *)
EXTENDS Goroutines

NestingDef == {<<>>, <<"a">>, <<"a", "a">>, <<"a", "b">>, <<"b", "a">>}
==================================================================================
