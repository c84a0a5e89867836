----------------------------- MODULE MCValidate -----------------------------
(* Two processes own {0, 2} and {1, 3}.  The connected graph is a path with *)
(* a chord for BFS and a weighted triangle for SSSP, the other one has two  *)
(* components.  Results are all predecessors of the vertices other than the *)
(* root (and all small distances), and a few that are wrong in other ways.  *)
(* With SSSP compiled in, main is run with SKIP_BFS.                        *)
EXTENDS Validate

Edge(v, x) == [to |-> v, w |-> x]
Rows(a, b, c, d) == (0 :> a) @@ (1 :> b) @@ (2 :> c) @@ (3 :> d)
Connected ==
  Rows(<<Edge(1, 1), Edge(2, 1)>>, <<Edge(0, 1), Edge(2, 1)>>,
       <<Edge(0, 1), Edge(1, 1), Edge(3, 1)>>, <<Edge(2, 1)>>)
Split == Rows(<<Edge(1, 1)>>, <<Edge(0, 1)>>, <<Edge(3, 1)>>, <<Edge(2, 1)>>)
Weighted ==
  Rows(<<Edge(1, 1), Edge(2, 3)>>, <<Edge(0, 1), Edge(2, 1)>>, <<Edge(0, 3), Edge(1, 1)>>, <<>>)

Preds == {<<0>> \o s : s \in [1..3 -> {-1, 0, 1, 2, 3}]}
AsArray(s) == [v \in Vertex |-> s[v+1]]
NoDist == [v \in Vertex |-> -1]

bfs(s, n) == [isbfs |-> TRUE, root |-> 0, pred |-> AsArray(s), dist |-> NoDist, nedges |-> n]
sssp(s, d, n) == [isbfs |-> FALSE, root |-> 0, pred |-> AsArray(s), dist |-> AsArray(d), nedges |-> n]

Program(b, c, r) == [sssp |-> b, column |-> c, results |-> r]

BfsPrograms ==
  {Program(FALSE, Connected, <<bfs(s, -1)>>) : s \in Preds}
  \cup {Program(FALSE, Split, <<bfs(s, -1)>>) : s \in Preds}
  \cup {Program(FALSE, Connected, <<bfs(s, -1), bfs(<<0, 0, 0, 2>>, n)>>) :
          s \in {<<0, 0, 0, 2>>, <<1, 0, 0, 2>>, <<0, 0, 0, 4>>}, n \in {3, 4}}
SsspPrograms ==
  {Program(TRUE, Weighted, <<sssp(<<0, a, b, -1>>, <<0, x, y, -1>>, 3)>>) :
     a, b \in {-1, 0, 1, 2}, x, y \in {-1, 1, 2, 3}}
MCPrograms == BfsPrograms \cup SsspPrograms

MCMessages ==
  [src: Proc, dst: Proc, e: 0..30, n: 0..9, kind: {"frompredhndl", "edgepreddisthndl"}]
=============================================================================
