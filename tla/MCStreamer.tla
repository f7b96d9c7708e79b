------------------------------ MODULE MCStreamer ------------------------------
(* Instances of Streamer for TLC. *)
EXTENDS Streamer

MCWidth == [r \in Registers |-> IF r = "b" THEN 2 ELSE 1]
MCKind  == [s \in Streamers |-> IF s = "z" THEN "Transparent" ELSE "Trivium"]

\* Registers before, in and after a streamer; two streamers in a row; one in
\* another; the only register of a streamer off the path.
MCPaths ==
  { << Scan("a"), Enter("x"), Scan("b"), Leave("x"), Scan("c") >>,
    << Enter("x"), Scan("b"), Leave("x"), Enter("y"), Scan("c"), Leave("y") >>,
    << Scan("a"), Enter("y"), Enter("x"), Scan("b"), Leave("x"), Scan("c"), Leave("y") >>,
    << Enter("z"), Scan("a"), Enter("x"), Scan("c"), Leave("x"), Leave("z") >>,
    << Enter("x"), Scan("c"), Leave("x") >>,
    << Scan("a"), Enter("x"), Leave("x") >> }

MCKeyStreams ==
  { [i \in 1..14 |-> ((i * i) \div 3) % 2], [i \in 1..14 |-> IF i % 7 \in {1, 2, 4} THEN 1 ELSE 0] }
===============================================================================
