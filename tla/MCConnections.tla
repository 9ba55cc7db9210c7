--------------------------- MODULE MCConnections ---------------------------
(***************************************************************************)
(* An instance of Connections for TLC. The scenarios: three connections    *)
(* that come and go while time passes, requests on two or three            *)
(* connections, and requests on one while time passes.                     *)
(* Accounts, connections and clients are interchangeable.                  *)
(***************************************************************************)
EXTENDS Connections, TLC

MCCapacity ==
    [kind \in Limiters |-> IF kind \in {"Address", "FetchBundle"} THEN 2 ELSE 1]

Scenario(links, requests, periods, published, kinds) ==
    [links |-> links, requests |-> requests, periods |-> periods,
     published |-> published, kinds |-> kinds]

Among == {"AuthResponse", "FetchBundle", "PresenceSubscribe", "Rendezvous"}

MCScenarios ==
    {Scenario(3, 0, 2, {}, {}),
     Scenario(3, 3, 0, {}, {"AuthResponse", "PresenceAnnounce"}),
     Scenario(2, 4, 0, Accounts, Among),
     Scenario(2, 4, 0, {}, {"AuthResponse", "FetchBundle", "PublishBundle"}),
     Scenario(1, 5, 1, {}, Kinds)}

Interchangeable ==
    Permutations(Accounts) \union Permutations(Links) \union Permutations(Clients)
=============================================================================
