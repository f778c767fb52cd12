-------------------------- MODULE MCAPIExtraction --------------------------
(***************************************************************************)
(* A package with a package in it, and a private module in that: both      *)
(* __init__ files may re-export what the private module declares.          *)
(***************************************************************************)
EXTENDS APIExtraction

File(qname, init, test) == [qname |-> qname, init |-> init, test |-> test]

root == File(<<"pkg">>, TRUE, FALSE)
inner == File(<<"pkg", "sub">>, TRUE, FALSE)
private == File(<<"pkg", "sub", "_x">>, FALSE, FALSE)
unit == File(<<"pkg", "tests", "t">>, FALSE, TRUE)

MCFiles == {root, inner, private, unit}

(* Directories come before what is in them, the rest in any order.         *)
MCOrders == {<<root, inner, private, unit>>, <<root, unit, private, inner>>}

MCExportable == {Append(private.qname, n) : n \in {"A", "f"}} \cup {Append(inner.qname, "A")}

(* The condition of the theorem that what is said is true.                 *)
ASSUME InstanceExportsComeFirst == ExportsComeFirst

MCBegins == {<<s, s>> : s \in {"pkg", "sub", "_x", "tests", "t"}}
=============================================================================
