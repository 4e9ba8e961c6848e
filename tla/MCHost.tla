------------------------------- MODULE MCHost -------------------------------
(* Two parts of one process that share nothing, each on a small instance:  *)
(* a behaviour is one of executions under interrupts, or one of a reader   *)
(* of pages.                                                               *)
EXTENDS InterruptedCommands, GraphPages

VARIABLE part

MCLinks == {<<1, 2>>, <<2, 1>>, <<2, 3>>, <<1, 3>>, <<2, 2>>, <<3, 0>>}
MCContexts == {{1, 3}, {2}, {2, 3}}
MCRequests == [roots : {{1}, {3}, {1, 2}}, depth : 0..2, size : 1..2,
               direction : {"outgoing", "incoming", "both"}]

NoPages ==
  /\ graph = {} /\ inquiry = NoInquiry /\ reading = "asking" /\ cursor = NoCursor
  /\ pages = <<>> /\ changes = 0 /\ origin = NoOrigin

HostInit ==
  /\ Init
  /\ \/ part = "executions" /\ NoPages
     \/ part = "pages" /\ PagesInit

HostNext ==
  /\ \/ part = "executions" /\ Next /\ UNCHANGED pageVars
     \/ part = "pages" /\ PagesNext /\ UNCHANGED hostVars
  /\ UNCHANGED part

HostSpec ==
  /\ HostInit /\ [][HostNext]_<<hostVars, pageVars, part>>
  /\ Fairness
=============================================================================
