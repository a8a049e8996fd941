--------------------------- MODULE MCUserRequests ---------------------------
(* Small instances of the monitor and the user requests for TLC.           *)
EXTENDS UserRequests, TLC

(* Of the first season, which is known from the start, no episode counts.  *)
MCEpisodes == {<<2, 1>>, <<2, 2>>}
MCAirDay   == [e \in Episodes |-> e[2] - 1]
(* Three installations: accounts and Catbox; Seerr and a namesake; imports *)
(* and one user.                                                           *)
Accounts == [catbox |-> TRUE, seerr |-> {}, imports |-> FALSE, long |-> {2},
             first |-> FALSE, namesake |-> {}, users |-> "accounts",
             faults |-> 0, removals |-> 0]
Seerr    == [catbox |-> FALSE, seerr |-> {1}, imports |-> FALSE, long |-> {2},
             first |-> FALSE, namesake |-> {<<2, 1>>}, users |-> "none",
             faults |-> 1, removals |-> 0]
Imports  == [catbox |-> TRUE, seerr |-> {}, imports |-> TRUE, long |-> {},
             first |-> FALSE, namesake |-> {}, users |-> "single",
             faults |-> 1, removals |-> 1]
MCSetups == {Accounts, Seerr, Imports}
MCSymmetry == Permutations(Requests) \cup Permutations(Checkers)
=============================================================================
