----------------------------- MODULE MCDashboard -----------------------------
(* A two-section catalog of at most three watched rows and a growing history: *)
(* changes small enough for a delta, one of which removes a row, one too large *)
(* that a small one may follow, and one whose history starts again.           *)
EXTENDS DashboardStore

Row(id, version) == [id |-> id, version |-> version]

Before == [nodes |-> <<Row("a", 0), Row("b", 0), Row("e", 0)>>, history |-> <<Row("h1", 0)>>]

Catalogs ==
  {Before,
   [nodes |-> <<Row("a", 0), Row("b", 1), Row("e", 0)>>, history |-> <<Row("h1", 0), Row("h2", 0)>>],
   [nodes |-> <<Row("b", 1), Row("c", 0), Row("e", 0)>>, history |-> <<Row("h1", 0), Row("h2", 0)>>]}

Rows == [quiet |-> {}, problem |-> {"a", "c"}]
=============================================================================
