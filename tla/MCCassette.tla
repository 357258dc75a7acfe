----------------------------- MODULE MCCassette -----------------------------
(* Two recorders and a replayer of one prompt, with a schema and without, and *)
(* responses of two lengths but one layout ({"n": 75}, {"n": 812}): one digit  *)
(* of the one before the rest of the other is JSON ({"n": 85}, {"n": 712}).   *)
EXTENDS Cassette

CONSTANTS short, long

MCSize == [r \in {short, long} |-> IF r = short THEN 2 ELSE 3]
MCReadable == {Text(short), Text(long), <<long, short>>, <<short, long, long>>}
=============================================================================
