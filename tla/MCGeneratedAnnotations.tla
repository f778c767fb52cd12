----------------------- MODULE MCGeneratedAnnotations -----------------------
(* A class with a method, which has self and a **k, a class that is never  *)
(* used, a global function, and a function that is not in the API.  Files  *)
(* hold up to two calls, one of which lacks an argument, or one call many  *)
(* times.                                                                  *)
EXTENDS GeneratedAnnotations

CONSTANTS A, B, m, g, h, ms, mp, mq, mk, gr, hu, one, two, object, bad

MCFunctionOf == [x \in Parameter |-> CASE x \in {ms, mp, mq, mk} -> m [] x = gr -> g [] x = hu -> h]
MCClassOf == [x \in Function |-> IF x = m THEN A ELSE NoClass]
MCDefault == [x \in ApiParameter |-> IF x \in {ms, mq, mk} THEN NoDefault ELSE one]

Calls(f, as) == [function |-> f, arguments |-> as]
CallsOfM ==
  {Calls(m, as) : as \in {<< <<mp, two>> >>, << <<mq, two>> >>, << <<mp, one>>, <<mq, two>> >>,
                          << <<mp, two>>, <<mq, object>> >>, << <<mk, two>>, <<mq, one>> >>,
                          << <<mq, bad>>, <<mp, two>> >>, << <<mp, two>>, <<mq, bad>> >>}}
CallsOfG == {Calls(g, <<>>), Calls(g, << <<gr, two>> >>), Calls(g, << <<gr, object>> >>)}
Single == CallsOfM \cup CallsOfG \cup {Calls(h, << <<hu, two>> >>), Broken}
Many(c, n) == [i \in 1..n |-> c]

MCFiles ==
  {<<>>} \cup {<<c>> : c \in Single}
  \cup {<<c, d>> : c \in {Broken, Calls(m, << <<mq, bad>>, <<mp, two>> >>)}, d \in CallsOfG}
  \cup {Many(Calls(g, << <<gr, two>> >>), n) : n \in {7, 8}}

MCInputs ==
  {[files |-> fs, processes |-> n, batchSize |-> b] :
     fs \in UNION {[1..l -> MCFiles] : l \in 0..3}, n \in 1..2, b \in 1..2}
=============================================================================
