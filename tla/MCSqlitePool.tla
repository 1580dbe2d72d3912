---- MODULE MCSqlitePool ----
(* Two tasks and one connection. *)
EXTENDS SqlitePool

CONSTANTS a, b, c1, c2
MCPair == {a, b}
MCConns == {c1, c2}
MCAlone == {c1}
MCNone == {}
====
