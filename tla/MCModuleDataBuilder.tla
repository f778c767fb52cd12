------------------------ MODULE MCModuleDataBuilder ------------------------
(* All programs of a few nodes, and larger ones of some kinds of nodes.    *)
EXTENDS ModuleDataBuilder

Of(kinds, size) == [kinds |-> kinds, size |-> size]

MCPrograms ==
  {Of(Kind, 5),
   Of({"function", "call", "assigned lambda", "called lambda"}, 7),
   Of({"function", "class", "try", "target", "assigned lambda", "called lambda"}, 6),
   Of({"function", "comprehension", "finally", "global", "global target", "attribute"}, 6)}
=============================================================================
