-------------------------------- MODULE MCTab --------------------------------
(* A tab that shows any one of the queries, or the windows of two apps: the  *)
(* queue is short enough to overflow, and a connection, stream or request is *)
(* lost once.                                                                *)
EXTENDS Browser

\* A window that has no saved geometry spawns on the desktop, at no less than
\* its smallest size.  (geometry.ts:54-57)
ASSUME SpawnsOnScreen ==
  \A kind \in DOMAIN MIN_SIZE, index \in 0..15,
     width \in {641, 800, 1024, 1920}, height \in {360, 500, 1080} :
    LET g == defaultGeometry(kind, index, [width |-> width, height |-> height])
    IN  ~IsSmallScreen(width) =>
          /\ g.x >= 0 /\ g.x + g.width <= width
          /\ g.y >= 0 /\ g.y + g.height <= height
          /\ g.width >= MIN_SIZE[kind].width /\ g.height >= MIN_SIZE[kind].height
=============================================================================
