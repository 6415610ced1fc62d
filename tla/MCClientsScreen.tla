--------------------------- MODULE MCClientsScreen ---------------------------
(* Small instances of the clients page.                                    *)
EXTENDS ClientsScreen, TLC

CONSTANTS c1, c2

TwoClients == {c1, c2}
TwoRank == c1 :> 1 @@ c2 :> 2
(* An empty search, and one that finds the second client only.             *)
TwoFilters == {{c1, c2}, {c2}}
=============================================================================
