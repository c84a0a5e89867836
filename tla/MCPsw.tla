------------------------------- MODULE MCPsw --------------------------------
(***************************************************************************)
(* Parallel sliding windows on small graphs.  All graphs of three to five  *)
(* edges among four vertices are sharded; Six and Eight are also computed  *)
(* on: every shard of Six has edges from other intervals, and blocks are   *)
(* shared by windows.  In two shards Eight has an interval of three        *)
(* windows, and the second is skipped when only 0 and 4 are asked for.     *)
(***************************************************************************)
EXTENDS Psw

Six == {<<0,1>>, <<1,0>>, <<3,1>>, <<3,0>>, <<0,3>>, <<2,3>>, <<4,3>>, <<1,5>>, <<3,5>>, <<4,5>>}
Eight == {<<1,0>>, <<0,1>>, <<3,2>>, <<7,4>>, <<4,5>>, <<0,6>>, <<2,6>>, <<3,7>>, <<4,7>>}
MCRunGraphs == {Six, Eight}
Pairs == {e \in (0..3) \X (0..3) : e[1] # e[2]}
MCGraphs == MCRunGraphs \cup UNION {kSubset(k, Pairs) : k \in 3..5}
MCAsks == {<<1, FALSE>>, <<4, TRUE>>}
MoveGraphs == {Eight}
MoveAsks == {<<0, FALSE>>, <<4, FALSE>>}
=============================================================================
