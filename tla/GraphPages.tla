----------------------------- MODULE GraphPages -----------------------------
(***************************************************************************)
(* A slice of a graph read page by page                                    *)
(* (src/src/inspection/projection.rs, and what                             *)
(* src/src/context_slice/slice.rs puts on a page).  Each page is a command *)
(* of its own that builds the graph anew and knows of the pages before it  *)
(* only what the continuation cursor says: a digest of the graph, a digest *)
(* of the request, and an offset.  Between two pages the source, or the    *)
(* request, may change.  Digests are taken to be injective.                *)
(***************************************************************************)
EXTENDS Integers, Sequences, FiniteSets, Functions

CONSTANTS
  Nodes,       (* the nodes of the graph, numbers in the order of their ids *)
  Links,       (* the edges it may have: from a node, to a node or Outside *)
  Outside,     (* a target that is not a node of the graph                 *)
  Contexts,    (* the root sets of its contexts                            *)
  AllRequests, (* the requests made: [roots, depth, size, direction]       *)
  MaxChanges   (* a bound of the model: changes of source or request       *)

(* What validate_request and the validation of the graph require.          *)
ASSUME GraphParameters ==
  /\ Nodes \subseteq Nat /\ IsFiniteSet(Nodes) /\ Outside \notin Nodes
  /\ Links \subseteq Nodes \X (Nodes \cup {Outside})
  /\ Contexts \subseteq SUBSET Nodes /\ MaxChanges \in Nat
  /\ \A q \in AllRequests :
       /\ q.roots \subseteq Nodes /\ q.depth \in 0..16 /\ q.size \in 1..4096
       /\ q.direction \in {"outgoing", "incoming", "both"}

VARIABLES
  graph,      (* the edges of the source as it is now                      *)
  inquiry,    (* the request as it is now                                  *)
  reading,    (* where the reader stands                                   *)
  cursor,     (* the continuation of the last page: [graph, inquiry, at]   *)
  pages,      (* the pages it was given: [nodes, edges, contexts]          *)
  changes,    (* counts towards MaxChanges                                 *)
  origin      (* history: the graph and the request of the first page      *)

pageVars == <<graph, inquiry, reading, cursor, pages, changes, origin>>

NoInquiry == [roots |-> {}, depth |-> 0, size |-> 0, direction |-> "both"]
NoCursor == [graph |-> {}, inquiry |-> NoInquiry, at |-> 0]
NoOrigin == [graph |-> {}, inquiry |-> NoInquiry]

PagesInit ==
  /\ graph \in SUBSET Links /\ inquiry \in AllRequests
  /\ reading = "asking" /\ cursor = NoCursor
  /\ pages = <<>> /\ changes = 0 /\ origin = NoOrigin

-----------------------------------------------------------------------------
(* create_page                                                             *)

Neighbours(g, some, direction) ==
  {n \in Nodes : \E m \in some \ {n} :
     \/ direction # "incoming" /\ <<m, n>> \in g
     \/ direction # "outgoing" /\ <<n, m>> \in g}

(* A set of nodes in the order of a BTreeSet.                              *)
Ascending(S) ==
  CHOOSE s \in [1..Cardinality(S) -> S] :
    \A i, j \in 1..Cardinality(S) : i < j => s[i] < s[j]

(* expand before its loop, and one round of it: of the neighbours of the   *)
(* frontier, those not yet included are the next frontier.  The code       *)
(* leaves the loop when there are none; the rounds left change nothing.    *)
Roots(q) == [included |-> q.roots, frontier |-> q.roots, ordered |-> Ascending(q.roots)]

Round(g, q, was) ==
  LET candidates == Neighbours(g, was.frontier, q.direction) \ was.included
  IN [included |-> was.included \cup candidates, frontier |-> candidates,
      ordered |-> was.ordered \o Ascending(candidates)]

Rounds(g, q) ==
  LET round[k \in 0..q.depth] == IF k = 0 THEN Roots(q) ELSE Round(g, q, round[k - 1])
  IN round

Expand(g, q) == Rounds(g, q)[q.depth].ordered

Lowest(a, b) == IF a <= b THEN a ELSE b

(* owns_any: of several nodes, the first in the order of the whole slice   *)
(* decides.                                                                *)
OwnsAny(ordered, owned, some) ==
  \E i \in DOMAIN ordered :
    /\ ordered[i] \in some \cap owned
    /\ \A j \in 1..(i - 1) : ordered[j] \notin some

(* What a page owns: its nodes, the edges that leave them within the slice *)
(* or to no node at all, and the contexts whose first root is among them.  *)
PageOf(g, q, at) ==
  LET ordered == Expand(g, q)
      included == Range(ordered)
      end == Lowest(at + q.size, Len(ordered))
      owned == {ordered[i] : i \in (at + 1)..end}
  IN [nodes |-> SubSeq(ordered, at + 1, end),
      edges |-> {e \in g : /\ e[1] \in owned /\ e[2] \in included \cup {Outside}
                           /\ e[1] # e[2]},
      contexts |-> {c \in Contexts : OwnsAny(ordered, owned, c)},
      end |-> end, more |-> end < Len(ordered)]

-----------------------------------------------------------------------------
Deliver(at) ==
  LET page == PageOf(graph, inquiry, at)
  IN /\ pages' = Append(pages, page)
     /\ reading' = IF page.more THEN "reading" ELSE "done"
     /\ cursor' = IF page.more
                  THEN [graph |-> graph, inquiry |-> inquiry, at |-> page.end]
                  ELSE NoCursor

FirstPage ==
  /\ reading = "asking"
  /\ Deliver(0)
  /\ origin' = [graph |-> graph, inquiry |-> inquiry]
  /\ UNCHANGED <<graph, inquiry, changes>>

(* Mutant: the graph behind the cursor is not compared.                    *)
FreshByRequest == cursor.inquiry = inquiry

(* decode_cursor: the digests of the graph and of the request.             *)
Fresh == cursor.graph = graph /\ cursor.inquiry = inquiry

NextPage ==
  /\ reading = "reading" /\ Fresh
  /\ Deliver(cursor.at)
  /\ UNCHANGED <<graph, inquiry, changes, origin>>

RefusePage ==
  /\ reading = "reading" /\ ~Fresh
  /\ reading' = "refused"
  /\ UNCHANGED <<graph, inquiry, cursor, pages, changes, origin>>

StartOver ==
  /\ reading = "refused"
  /\ reading' = "asking" /\ pages' = <<>> /\ cursor' = NoCursor /\ origin' = NoOrigin
  /\ UNCHANGED <<graph, inquiry, changes>>

(* An edit of the source adds or removes an edge.                          *)
ChangeSource ==
  /\ changes < MaxChanges
  /\ changes' = changes + 1
  /\ \E e \in Links : graph' = IF e \in graph THEN graph \ {e} ELSE graph \cup {e}
  /\ UNCHANGED <<inquiry, reading, cursor, pages, origin>>

ChangeRequest ==
  /\ changes < MaxChanges
  /\ changes' = changes + 1
  /\ \E q \in AllRequests \ {inquiry} : inquiry' = q
  /\ UNCHANGED <<graph, reading, cursor, pages, origin>>

PagesNext ==
  \/ FirstPage \/ NextPage \/ RefusePage \/ StartOver \/ ChangeSource \/ ChangeRequest

PagesSpec == PagesInit /\ [][PagesNext]_pageVars

-----------------------------------------------------------------------------
(* Properties                                                              *)

(* The nodes at the end of a walk of at most depth steps from a root.      *)
WithinDepth(g, q) ==
  {n \in Nodes : \E k \in 0..q.depth : \E walk \in [0..k -> Nodes] :
     /\ walk[0] \in q.roots /\ walk[k] = n
     /\ \A i \in 1..k : walk[i] \in Neighbours(g, {walk[i - 1]}, q.direction)}

Disjoint(part) == \A i, j \in DOMAIN pages : i # j => part[i] \cap part[j] = {}

(* Whoever reads to the last page has read one graph: every node that the  *)
(* request reaches, every edge and every context of theirs, each on        *)
(* exactly one page, whatever changed in between and whichever pages the   *)
(* two ends of an edge or the roots of a context are on; and no page is    *)
(* larger than was asked.                                                  *)
PagesMakeOneGraph ==
  LET g == origin.graph
      q == origin.inquiry
      slice == WithinDepth(g, q)
      nodesOf == [i \in DOMAIN pages |-> Range(pages[i].nodes)]
      edgesOf == [i \in DOMAIN pages |-> pages[i].edges]
      contextsOf == [i \in DOMAIN pages |-> pages[i].contexts]
  IN reading \in {"reading", "done"} =>
       /\ Disjoint(nodesOf) /\ Disjoint(edgesOf) /\ Disjoint(contextsOf)
       /\ \A i \in DOMAIN pages : /\ Len(pages[i].nodes) <= q.size
                                  /\ Len(pages[i].nodes) = Cardinality(nodesOf[i])
       /\ reading = "done" =>
            /\ UNION Range(nodesOf) = slice
            /\ UNION Range(edgesOf) = {e \in g : /\ e[1] # e[2] /\ e[1] \in slice
                                                 /\ e[2] \in slice \cup {Outside}}
            /\ UNION Range(contextsOf) = {c \in Contexts : c \cap slice # {}}
=============================================================================
