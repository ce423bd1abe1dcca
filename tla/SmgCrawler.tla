----------------------------- MODULE SmgCrawler -----------------------------
(***************************************************************************)
(* Plotting of the memory graph: the instruction                           *)
(* __ANGIE_DIAGNOSTICS_PLOT_MEMORY hands the graph, abstracted or not, to  *)
(* SmgCrawler, which visits what can be reached from the handles and lets  *)
(* SmgPrinter draw every object with its edges.                            *)
(*                                                                         *)
(* The visitors call each other recursively.  The calls that are yet to be *)
(* made, all of them on pointer edges, are the sequence `todo`; the visits *)
(* of plain values have no effect.  PrintDot and ShowSmg can also start    *)
(* from the handles object itself, which no caller asks for.               *)
(***************************************************************************)
EXTENDS Abstraction

VARIABLES
    plotting,        \* the instruction is being executed
    todo,            \* the pointer edges still to be visited, innermost first
    alreadyVisited,  \* the objects that were visited
    picture          \* what was drawn: objects, and edges that leave them

crawlVars == <<plotting, todo, alreadyVisited, picture>>
allVars == <<vars, segments, crawlVars>>

\* PrintDot, with a new crawler: SmgCrawler::Visit(Graph)
Plot ==
    /\ Running
    /\ ~plotting
    /\ plotting' = TRUE
    /\ todo' = handles
    /\ alreadyVisited' = {}
    /\ picture' = {}
    /\ UNCHANGED <<vars, segments>>

\* SmgCrawler::Visit(Region), and the same for the other kinds of objects: the
\* object is drawn, and its edges are visited.
VisitObject(o) == objects[o].pt

\* SmgPrinter::Visit(Region), and the same for segments: a box for the object,
\* and for each of its edges a field, which for a pointer has an arrow to the
\* box of the target.
Drawing(o) ==
    {<<"box", o>>} \cup {<<"field", o, objects[o].hv[i]>> : i \in DOMAIN objects[o].hv}
                   \cup {<<"arrow", o, objects[o].pt[i]>> : i \in DOMAIN objects[o].pt}

\* Mutant: the object is drawn but not remembered.
VisitPtEdgeUnmarked ==
    /\ plotting
    /\ todo # <<>>
    /\ LET o == Head(todo).obj
       IN  IF o \in alreadyVisited
           THEN todo' = Tail(todo)
           ELSE todo' = VisitObject(o) \o Tail(todo)
    /\ picture' = picture \cup Drawing(Head(todo).obj)
    /\ UNCHANGED <<vars, segments, plotting, alreadyVisited>>

\* Mutant: an edge to a visited object ends the crawl.
VisitPtEdgeStops ==
    /\ plotting
    /\ todo # <<>>
    /\ LET o == Head(todo).obj
       IN  IF o \in alreadyVisited
           THEN todo' = <<>> /\ UNCHANGED <<alreadyVisited, picture>>
           ELSE /\ alreadyVisited' = alreadyVisited \cup {o}
                /\ picture' = picture \cup Drawing(o)
                /\ todo' = VisitObject(o) \o Tail(todo)
    /\ UNCHANGED <<vars, segments, plotting>>

\* SmgCrawler::Visit(PtEdge): the target is visited unless it was before.
VisitPtEdge ==
    /\ plotting
    /\ todo # <<>>
    /\ LET o == Head(todo).obj
       IN  IF o \in alreadyVisited
           THEN todo' = Tail(todo) /\ UNCHANGED <<alreadyVisited, picture>>
           ELSE /\ alreadyVisited' = alreadyVisited \cup {o}
                /\ picture' = picture \cup Drawing(o)
                /\ todo' = VisitObject(o) \o Tail(todo)
    /\ UNCHANGED <<vars, segments, plotting>>

\* What was drawn is written to a file, and the program goes on.
WritePlot ==
    /\ plotting
    /\ todo = <<>>
    /\ plotting' = FALSE
    /\ alreadyVisited' = {}
    /\ picture' = {}
    /\ UNCHANGED <<vars, segments, todo>>

CInit == AInit /\ plotting = FALSE /\ todo = <<>> /\ alreadyVisited = {} /\ picture = {}
CNext ==
    \/ ~plotting /\ ANext /\ UNCHANGED crawlVars
    \/ Plot
    \/ VisitPtEdge
    \/ WritePlot

\* The crawler runs to its end before the next instruction.
CSpec == CInit /\ [][CNext]_allVars /\ WF_allVars(VisitPtEdge \/ WritePlot)

-----------------------------------------------------------------------------
(* Properties.                                                             *)

Targets(edges) == {edges[i].obj : i \in DOMAIN edges}
Closed(S) == \A o \in S : Targets(objects[o].pt) \subseteq S
Reachable ==
    {o \in DOMAIN objects :
        \A S \in SUBSET DOMAIN objects : Targets(handles) \subseteq S /\ Closed(S) => o \in S}

\* The picture shows every object that can be reached and every edge that
\* leaves it, so that no arrow leads to a box that was not drawn; and since
\* handles are never given up, that is every object the program allocated and
\* did not free, whatever was freed, overwritten or joined to a segment.
PlotShowsAll ==
    plotting /\ todo = <<>> =>
        /\ picture = UNION {Drawing(o) : o \in Reachable}
        /\ \A item \in picture : item[1] = "arrow" => <<"box", item[3].obj>> \in picture
        /\ \A o \in DOMAIN objects \ {UnknownObj, FreedObj} : <<"box", o>> \in picture

\* The crawler comes to an end on every graph, cyclic lists and segments that
\* are their own neighbours included.
PlotEnds == plotting ~> ~plotting
=============================================================================
