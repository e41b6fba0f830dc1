--------------------------- MODULE MCConnections ---------------------------
(* Instances of Connections for TLC: a workspace with one environment, or  *)
(* with two environments and two catalogs that share an object store. One  *)
(* of the two was synced by syncs that overlapped its move, so that one of *)
(* its tables is in the environment it came from; a secret has the name of *)
(* the first inline one.                                                   *)
EXTENDS Connections, TLC

CONSTANTS e1, e2, c1, c2, s1, b1, b2, x1, x2, n1, n2, tb1, tb2, t1, t2

MCEnvironment == {e1, e2}
MCCatalog == {c1, c2}
MCStore == {s1}
MCBackend == {b1, b2}
MCSecret == {x1, x2}

NoTables == [c \in MCCatalog |-> [tb \in {tb1, tb2} |-> None]]
NoRows == [i \in MCEnvironment \cup MCCatalog \cup MCStore \cup MCBackend
                   \cup MCSecret |-> None]

Plain(n, e, l) == Settings(n, e, l, None)
Jdbc(n, e, l) == Settings(n, e, l, "jdbc")

Empty == [row |-> NoRows, index |-> NoTables, spaces |-> {}, runs |-> {}]

SharedWith(x) ==
  [Empty EXCEPT
     !.row = [i \in DOMAIN NoRows |->
                CASE i = e1 -> Plain(n1, None, None)
                  [] i = e2 -> Plain(n2, None, None)
                  [] i = c1 -> Jdbc(n1, e1, s1)
                  [] i = c2 -> Jdbc(n2, e1, s1)
                  [] i \in {s1, b1} -> Plain(n1, e1, None)
                  [] i = b2 -> Plain(n2, e1, None)
                  [] i = x -> Plain(<<n1, "catalog", 1>>, None, None)
                  [] OTHER -> None],
     !.index = [NoTables EXCEPT ![c2][tb1] = e2, ![c2][tb2] = e1],
     !.spaces = {c2},
     !.runs = {c2}]

Fresh ==
  [Empty EXCEPT
     !.row = [NoRows EXCEPT ![e1] = Plain(n1, None, None)]]

MCFresh == {Fresh}
MCShared == {SharedWith(x) : x \in MCSecret}
MCStart == {Fresh} \cup MCShared
MCSymmetry == Permutations({t1, t2}) \cup Permutations({x1, x2})
=============================================================================
