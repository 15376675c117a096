------------------------------- MODULE Scenarios -------------------------------
(***************************************************************************)
(* The set-ups of src/scenarios that carry data, as records: which nodes   *)
(* hear which, over faces of their own or a broadcast face they share, who *)
(* routes, how Interests are forwarded, who serves which prefix and who    *)
(* asks for it.  The command line's parameters are the operators'.         *)
(* Prefixes are the numbers that the scenarios append to a common name.    *)
(***************************************************************************)
EXTENDS Naturals, FiniteSets

\* GridPositionAllocator, row first: the column and the row of node i.
Column(i, width) == i % width
Row(i, width) == i \div width

Apart(x, y) == IF x > y THEN x - y ELSE y - x

\* RangePropagationLossModel: who is within range hears, others do not.
GridPositions(num, width, distance, range) ==
  {l \in (0..(num - 1)) \X (0..(num - 1)) :
     /\ l[1] # l[2]
     /\ LET dx == distance * Apart(Column(l[1], width), Column(l[2], width))
            dy == distance * Apart(Row(l[1], width), Row(l[2], width))
        IN dx * dx + dy * dy <= range * range}

\* The allocator's width when the scenario sets none.
DefaultWidth == 10
CeilSqrt(num) == CHOOSE w \in 1..num : w * w >= num /\ (w - 1) * (w - 1) < num

\* PointToPointGridHelper(num, num): node <<i, j>> is number i * num + j.
PointToPointGrid(num) == GridPositions(num * num, num, 1, 1)

\* RangeConsumerApp on every node, for the prefixes of all nodes, and a
\* producer on each for its own.
ProducersAndConsumers(num) ==
  [serves |-> [i \in 0..(num - 1) |-> {i}], consumers |-> 0..(num - 1)]

\* A producer on the last node and a ConsumerCbr on the first.
LastToFirst(num) ==
  [serves |-> [i \in 0..(num - 1) |-> IF i = num - 1 THEN {0} ELSE {}],
   consumers |-> {0}]

SetUp(links, shared, routing, strategy, apps, frequency) ==
  [links |-> links, shared |-> shared, routing |-> routing, strategy |-> strategy,
   serves |-> apps.serves, consumers |-> apps.consumers, frequency |-> frequency]

-----------------------------------------------------------------------------
(* NDVR on an ad hoc radio channel.                                        *)

\* EnableUnicastFace: a face for each neighbour.
prodcons_ndvr_ucast_best(num, distance, range) ==
  SetUp(GridPositions(num, CeilSqrt(num), distance, range), FALSE, "ndvr",
        "best-route", ProducersAndConsumers(num), 10)

prodcons_ndvr_dynface_mcast(num, distance, range) ==
  SetUp(GridPositions(num, DefaultWidth, distance, range), FALSE, "ndvr",
        "multicast", ProducersAndConsumers(num), 1)

prodcons_ndvr_mcast(num, distance, range) ==
  SetUp(GridPositions(num, CeilSqrt(num), distance, range), TRUE, "ndvr",
        "multicast", ProducersAndConsumers(num), 10)

prodcons_ndvr_masf(num, distance, range) ==
  SetUp(GridPositions(num, DefaultWidth, distance, range), TRUE, "ndvr",
        "m-asf", ProducersAndConsumers(num), 10)

(* The same without NDVR: default routes through the broadcast face.       *)

prodcons_flood(num, distance, range) ==
  SetUp(GridPositions(num, DefaultWidth, distance, range), TRUE, "default",
        "multicast", ProducersAndConsumers(num), 10)

prodcons_asf(num, distance, range) ==
  SetUp(GridPositions(num, DefaultWidth, distance, range), TRUE, "default",
        "m-asf", ProducersAndConsumers(num), 10)

(* Point-to-point grids.                                                   *)

ndn_grid_ndvr(num) ==
  SetUp(PointToPointGrid(num), FALSE, "ndvr", "multicast", LastToFirst(num * num), 10)

ndn_grid_default_multicast(num) ==
  SetUp(PointToPointGrid(num), FALSE, "default", "multicast",
        LastToFirst(num * num), 10)

ndn_grid_global_best(num) ==
  SetUp(PointToPointGrid(num), FALSE, "global", "best-route",
        LastToFirst(num * num), 10)
=============================================================================
