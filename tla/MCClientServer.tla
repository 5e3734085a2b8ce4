--------------------------- MODULE MCClientServer ---------------------------
(***************************************************************************)
(* A small instance of ClientServer: two clients, one of which creates,    *)
(* fills, locks and reads files while the other fills and removes them,    *)
(* and two paths.  Both can be stored, with one byte in all, so that a     *)
(* WRITE evicts; and since REMOVE does not count down, so does an OPEN.    *)
(***************************************************************************)
EXTENDS ClientServer

CONSTANTS p1, p2

MCClients == {7, 8}
MCPaths == {p1, p2}
MCOptionsOf == [c \in MCClients |->
    CASE c = 7 -> {"W", "r", "l", "u"}
      [] c = 8 -> {"w", "c"}]
MCMaxFiles == 2
MCMaxSize == 1
MCSizes == 0 .. 2
MCCounts == {0}
MCMaxOpens == 2

MCView == <<store, conn, writing, status, job, careless>>
MCSymmetry == Permutations(Paths)
=============================================================================
