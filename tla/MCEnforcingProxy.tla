-------------------------- MODULE MCEnforcingProxy --------------------------
(* Small instances of EnforcingProxy for TLC.  A behaviour is one of three *)
(* kinds, each with more of one thing and less of the others: two calls in *)
(* flight, whoever ends the budget; more clients than connections; more    *)
(* processes behind the socket than one.                                   *)
EXTENDS EnforcingProxy

VARIABLE part

OneClient == \A c \in Clients \ {1} : conn'[c] = "away"
OneRequest == \A r \in Requests \ {1} : pc'[r] = "unsent"
OneServer == listening' = 1 /\ expected' \in {None, 1}
NobodyElse == outside' = "none"

Within ==
  \/ part = "calls" /\ OneClient /\ OneServer /\ server' # "failed"
  \/ part = "clients" /\ OneRequest /\ OneServer /\ NobodyElse
  \/ part = "peers" /\ OneClient /\ NobodyElse /\ owner' = "running"

PartInit == Init /\ part \in {"calls", "clients", "peers"}

PartNext == Next /\ Within /\ UNCHANGED part

PartSpec == PartInit /\ [][PartNext]_<<vars, part>> /\ Fairness
=============================================================================
