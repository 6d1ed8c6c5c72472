------------------------------ MODULE MCGraph ------------------------------
(* The graph at its real size, on a grid of a thousandth of the canvas, with *)
(* the fixed places of constants/topology.ts, while internal services are    *)
(* seen one after the other.                                                 *)
EXTENDS TopoGraph, TLC

At(x, y) == [x |-> x, y |-> y]

MCPlaces ==
    "api-gateway" :> At(500, 80) @@ "auth-svc" :> At(180, 350) @@ "order-svc" :> At(780, 350)
    @@ "redis" :> At(50, 660) @@ "payment-svc" :> At(500, 640)
    @@ "inventory-svc" :> At(950, 660) @@ "notif-svc" :> At(780, 930)
    @@ "postgres" :> At(280, 930) @@ "kafka" :> At(960, 960) @@ "stripe-api" :> At(520, 930)

\* Boxes of internal services in thousandths of W = 1000 and H = 700.
NODE_W == 156
NODE_H == 80

Overlap(a, b) ==
    /\ a.x < b.x + NODE_W /\ b.x < a.x + NODE_W
    /\ a.y < b.y + NODE_H /\ b.y < a.y + NODE_H

\* They come in this order; any other differs by their names only.
Arrivals == <<"s1", "s2", "s3", "s4", "s5", "s6", "s7", "s8", "s9">>

NextArrival == ServiceAppears /\ allServices' = SubSeq(Arrivals, 1, Len(allServices) + 1)

Spec == GraphInit /\ [][NextArrival]_graphVars

\* TopoGraph.tsx:75: "a new service that is not in NODE_POS is given a place that
\* does not overlap", so that the boxes of two services that nobody has dragged
\* are apart.
NoOverlap ==
    \A m, n \in Names(allServices) :
        m # n => ~Overlap(positions[m], positions[n])
=============================================================================
