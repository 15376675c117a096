# A TLA+ development of NDVR

NDVR is a distance-vector routing protocol for Named Data Networking, written
as applications of ndnSIM / ns-3.  This directory holds TLA+ modules of the
protocol, the TLC runs that check them on small networks, and theorems that
TLAPS proves for every network.  All paths below are relative to the root of
the repository; `ndvr.cpp` is `src/extensions/ndvr.cpp`, and so on.

## Inventory

| part | state | operations | interaction |
|---|---|---|---|
| routing table (`routing-table.*`) | map from name to sequence number, cost, face; digest; version | `LookupRoute`, `isDirectRoute`, `AddRoute`, `UpdateRoute`, `DeleteRoute`, `insert`, `UpdateDigest` | writes the FIB through `FibHelper` |
| daemon (`ndvr.*`) | neighbours, table, scheduled events, requests | hello, DV-Info Interest and Data handlers, neighbour removal, `AdvNamePrefix` | hellos, Interests and Data; the scheduler; the validator calls back |
| neighbour timer (`ndvr.cpp:270-284`) | time last seen, time-out | restarted by hellos and by validated vectors | fires `RemoveNeighbor` |
| token (`ndvr.cpp:201-230`) | an iterator into the map of neighbours | next two neighbours of a circle | carried by hellos, chooses the delay of a request |
| signing keys (`ndvr.cpp:137-199`) | data key, bytes signed, time of creation | `ManageSigningInfo` once a minute, `createDSK`, `OnKeyInterest` | signs every reply |
| certificates and rules (`ndvr-security-helper.hpp`, `config/validation.conf`) | a key chain for each router, a root certificate | `setupRootCert`, `setupSigningInfo`; the validator of ndn-cxx | decides whether a reply is merged |
| localhop strategy (`localhop-strategy.cpp`) | the forwarder's PIT | `afterReceiveInterest` | used for `/localhop` names |
| admission policy (`admit-localhop-*.cpp`) | none | caches unsolicited `/localhop` Data | lets a reply serve routers that did not ask |
| unicast faces (`unicast-net-device-transport.*`) | MAC address of the neighbour | `doSend`, `receiveFromNetDevice` | one face for each neighbour on a broadcast device |
| publish-subscribe application (`simplepubsub.*`) | pending and satisfied names | notify, request each second, receive | an application over the routes |
| range consumer (`rangeconsumer.*`) | next sequence number of each name | request periodically | an application over the routes |
| management commands (`ndvr-api-commands.*`) | none | declarations only | not used by the daemon |
| scenarios (`src/scenarios`) | | who hears whom and how, who routes, who serves and asks | put all of the above together |
| graphs, traces, `disabled/` | | plots, movements, code that is not built | |

What is hard here: handlers of several routers interleave; a version is
recorded before the vector it stands for arrives; Data is named after a version
and filled with the table of a later moment; replies are grouped and Interests
dropped; neighbours are removed while requests, replies and validations are
under way; digests stand for tables and are not always brought up to date;
sequence numbers of withdrawn routes are moved by routers that are not their
origin; costs wrap at 2^32.  `PROJECT.json` lists each hazard at its line with
the properties that would show it.

What makes the parts correct:

- the table: a merge takes a distance only when it is fresher (newer number, or
  same number and cheaper), FIB and table stay in step, the own prefixes are
  never overridden, infinity is never mistaken for a cost;
- the network: no forwarding loop at any moment; usable numbers are the
  origin's; giving one neighbour up costs no other neighbour's routes;
- the daemon: nothing but merges of published vectors changes a table; versions
  and digests never run ahead of the tables they stand for; on links that lose
  nothing everyone ends up with a route and keeps it;
- the keys: limits are kept, and a vector of an honest router is believed whichever
  of its keys signed it;
- what it is all for: a consumer that has a route hears of its producer, while
  routes change and after they have settled.

## Modules

| module | models |
|---|---|
| `RoutingTable` | one table: queries, digest, encoding, the merge of one entry and of a vector with its FIB changes, the withdrawal loop. Operators only |
| `DistanceVector` | the promise: routers publish vectors, merge any published vector of a neighbour, discover, give up, announce late |
| `Ndvr` | the daemon: hellos, requests, grouped replies, Data, validation, removal. Implements `DistanceVector` |
| `Forwarding` | the promise in turn to those who forward: next hops change at one router at a time, are not taken away, lead on, close no circle. Implemented by `DistanceVector`, and so by `Ndvr`, where neighbours have faces of their own |
| `Scenarios` | the set-ups of `src/scenarios` that carry data, as records. Operators only |
| `Delivery`, `MCDelivery` | extends `Forwarding` and `Scenarios`: consumers ask producers over routes that change; the range consumer |
| `MCDistanceVector`, `MCNdvr` | small networks for TLC |
| `NeighborTimer` | when one neighbour is given up: time-outs, the removal event, time in ticks |
| `UnicastFaces` | which face a neighbour gets and keeps: where the constant `FaceTo` comes from |
| `NeighborToken` | extends `UnicastFaces`, whose map of neighbours it walks: the iterator that picks the two neighbours named by a hello |
| `SigningKey` | the data signing key: the amount it signs, its age, the check once a minute |
| `RouterTrust` | extends `SigningKey`: which key signs and certifies which, the rules of `config/validation.conf`, a neighbour that validates vectors while keys are replaced |
| `LocalhopStrategy`, `MCLocalhop` | the forwarding strategy and the admission policy, for one name on a radio channel |
| `SimplePubSub`, `MCSimplePubSub` | the publish-subscribe application |
| `RoutingTableProofs` | types of the operators; `InfinityNeverDeletes`, `NewerNumberAtSameCostIsLost` |
| `DistanceVectorProofs` | type correctness, freshness, FIB, loop freedom, sequence numbers; routes end at producers; `DistanceVector` implements `Forwarding` |
| `NdvrProofs` | type correctness; `Ndvr` implements `DistanceVector`; digests and versions; on trees nobody is left behind; and what is proved of `DistanceVector`, of the daemon: no loops, routes end at producers, `Ndvr` implements `Forwarding` |
| `NeighborTimerProofs` | one removal for each neighbour, and only the silent are removed |
| `NeighborTokenProofs` | `UnicastFaces` and `NeighborToken`: faces are not shared, the iterator is never left on an erased entry |
| `RouterTrustProofs` | `SigningKey` and `RouterTrust`: limits of keys, the rules, the chains of certificates |
| `LocalhopStrategyProofs` | Interests go one hop, nobody serves for the producer, overhearing costs nobody its request |
| `ApplicationProofs` | those who use the routes: `Forwarding`, `Delivery` with `Scenarios`, `SimplePubSub` |

`Ndvr` and `DistanceVector` use the operators of `RoutingTable`; `Ndvr` instantiates
`DistanceVector` with its neighbours and its published Data, and names that
instance's specification `Implements`.  `NeighborTimer`, `NeighborToken` and `UnicastFaces` each look
closely at one thing that `Ndvr` abstracts: when `RemoveNeighbor` happens,
which delay `SchedDvInfoInterest` picks, and what `FaceTo` is.  `RouterTrust` looks at
what `Ndvr` leaves to a choice between `OnValidatedDvInfo` and
`OnDvInfoValidationFailed`.  `Delivery` takes from routing only what `Forwarding`
says of it.  The other modules are parts of their own.

    Scenarios   Forwarding <- - DistanceVector <- - Ndvr
            \   /                        \         /        - -  implements
           Delivery                     RoutingTable        ---  uses

### State and code

The map `m_rt` is a total function over the finite set `Prefix` with `NoRoute`
where the map has no key; a FIB is a set of name/face pairs, which is what
`AddRoute` and `RemoveRoute` of `FibHelper` make of it.  `neighVer[n][m]` is
the version stored in the `NeighborEntry` of m in `m_neighMap` of n, 0 when
there is none.  `dvSched` is `dvinfointerest_event`, `replyEv` the Interest that
the closure of `replydvinfo_event` captured, `pend` the requests for which
`expressInterest` still holds callbacks, `validating` the Data handed to the
validator.  `hello[n][m]` is the last hello of m not handled by n: a hello that
is overtaken by the next one is lost.  `data` only grows: Data may be cached
(the admission policy caches `/localhop` Data that was not asked for) and come
late or twice.

An action is a whole handler: `OnHelloInterest` for instance contains the
emplacement of a new neighbour, `registerNeighborPrefix`, the version check and
`SchedDvInfoInterest`.  `OnValidatedDvInfo` contains
`processDvInfoFromNeighbor` with all its calls of `AddRoute` and `UpdateRoute`.

The dead branch of `processDvInfoFromNeighbor` (749-760) is modelled as it
stands, behind the check at 734 that makes it dead, and the module
`RoutingTableProofs` proves that it is.

`hops[n][p]` of `Forwarding` is the next hop of the routers' entries, read
through faces (`Routes` in `DistanceVector`): the neighbours that hear the face of the entry of p, of
any cost, since the FIB keeps the next hop of a withdrawn route.  `serves` are the entries on the
router's own face.

In `RouterTrust` the router's side is `SigningKey` with the certificates that `createDSK`
makes; `flight` is the vector that is on its way, `chain` what the validator holds of it: the
packet itself, then the certificates that it asked for.  `OnKeyInterest` adds
the next one.  `Rules` are the three rules of the file in its order, `RuleFor` the
validator's choice of the first that matches.

In `Delivery` the operators named like a file of `src/scenarios` are its set-ups.
`RequestSyncData` is the range consumer's; `OnSyncDataContent` is called when its own node's `OnData`
finds the consumer's face in the PIT, `OnSyncDataTimedOut` when the entry goes with
no Data.  None of the callbacks does more than log.

### Abstractions

- Delays.  Every scheduled event may fire at any time after it was scheduled.
  The token, which chooses between a short and a long delay, and the random
  parts of delays choose nothing.
- The removal timer.  With `Lossy`, a neighbour may be given up at any time.
- Names, TLV and protobuf: a message is the record of its fields.  SHA-1, and
  the text it is computed from, are an injective function of names and numbers.
- Faces.  `FaceTo` gives the face through which n reaches m; it is injective
  for each n when neighbours have faces of their own (`UnicastFaces`), and
  constant when they share a broadcast face.
- `InfCost` stands for the largest `uint32_t`; the addition wraps after it.
- `NeighborTimer` has one neighbour, since every entry has its own event.
  `NeighborToken` keeps the iterator as the key it points to; the random start
  of a round is a choice.  `UnicastFaces` takes the device a hello came in on,
  and the face id a new face gets, as choices.
- `SigningKey` counts time in seconds, at which the code compares it too.
- `RouterTrust`: a name in `DSK` that no packet under way speaks of is used again for the
  next key, so that the router makes any number of keys; `DSK` must have one name more than
  packets can speak of.  A signature is the key that made it, and the regular
  expressions of the rules are the set of keys whose names fit.  The validator of ndn-cxx
  is external: it takes the first rule that matches, asks for the
  certificate of the signer, and keeps verified certificates for some time.  No packet comes
  from anybody but the router.
- `Delivery`: the forwarder of NFD is external, with its PIT and three strategies;
  `best-route` and `asf` take some next hop, `multicast` takes them all, and on a broadcast face
  there is no difference.  Content stores, which only answer sooner, are
  left out.  Links lose nothing, so that what goes wrong is the routes' doing.
  One prefix is looked at: a consumer keeps a number for each, and they share nothing.
- `Scenarios`: distance, range and number of nodes are parameters; nodes stand where the grid
  allocator puts them, movement from trace files is left out.
- `LocalhopStrategy` takes the PIT, the content store and the suppression of
  retransmissions of NFD as external: `inRecords` and `recent` are what the
  strategy sees of them.
- `SimplePubSub` keeps one element of `requested` for all pending Interests of
  a name, as Data answers them all at once.

## Runs

Passing runs:

| run | instance | shows |
|---|---|---|
| `dv_line` | 3 routers in a line, a prefix at one end, late at the other as well | no forwarding loop at any moment; next hops know the prefix; FIB and table in step; numbers are the origin's; routes only get fresher; only the routes of the neighbour given up are withdrawn |
| `ndvr_pair` | 2 routers with loss, expiry, failed validation, removal, a late prefix | the daemon implements `DistanceVector`, and `Forwarding`; digests and versions never run ahead of tables |
| `ndvr_line` | 3 routers in a line, one prefix, nothing lost | the prefix travels two hops and the route stays; a quiet router misses nothing |
| `neighbor_timer` | ticks of half a second, vectors under way | one removal for each known neighbour; nobody who was heard in time is removed; the silent are |
| `neighbor_token` | 3 routers that come and go, 2 devices, one router without MAC address | own faces are not shared and survive removal; the iterator is never left on an erased entry; everyone who stays is named again and again |
| `signing_key` | `RouterTrust` with combinations of limits, 0 included; certificates get lost or not | limits are exceeded by what one interval allows; a full key is replaced; nothing but a lost certificate makes validation fail; chains stay short; a vector signed with a key that was replaced meanwhile is accepted all the same |
| `delivery` | the scenarios in small: 2 to 4 nodes, fourteen set-ups | whoever has a route hears of the producer again and again; once everyone has one and routes have settled no request fails |
| `localhop` | 4 nodes, not all in range of each other | Interests go one hop; only the producer is left with records of others; an overheard Interest does not cost the own application its request while suppression lasts |
| `simple_pubsub` | nodes with 2, 1 and 0 rounds | every subscriber gets every name, and asks for none twice once it has it |

Runs that show a disagreement between the code and what a comment or a log line of it says; each
is a finding in `PROJECT.json` with the line quoted:

| run | property | the code |
|---|---|---|
| `shared_face` | `OthersKeepTheirRoutes` | with neighbours on one broadcast face, giving one up withdraws the routes of all |
| `digest_stale` | `SameDigestMeansNoChange` | withdrawals leave the digest behind; after both ends met again the withdrawn routes stay withdrawn |
| `grouped_reply` | `Converges` | prefixes at both ends of a line: an Interest for a later version is dropped while the reply to an earlier one is scheduled, nobody repeats it, and its sender never learns the route, though nothing is lost |

The counterexample of `grouped_reply`, with the middle router b between a and c: a asks b for version 2
and b schedules its reply; b then merges the vector of the other end and reaches version 3; c
hears the hello, records version 3 and asks for it; b drops the Interest, as a reply is
scheduled (`ndvr.cpp:544`), and answers version 2; the Interest of c expires, `OnDvInfoTimedOut`
returns at once, and later hellos carry no newer version.  `ndvr_line` is
the same network with one prefix: there the versions asked for at one time never differ, and
`Converges` holds.

Three more disagreements need no run.  A comment (`ndvr.cpp:749`) says that an infinite cost removes the
route: `InfinityNeverDeletes` proves that nothing does.  A newer number at the same cost
(`ndvr.cpp:769-775`) is written to a copy of the entry and lost: `NewerNumberAtSameCostIsLost`
proves it for every table.  And digests leave costs out, so that a router whose neighbour has the same prefixes and numbers at lower costs does not ask for them.

### Bounds

- `MaxSeq` bounds sequence numbers, which grow by withdrawals only: with 3 the
  origin withdraws once (by two), a copy twice (by one each), with the old
  number heard again in between, and the numbers of the two can drift apart and meet.
- `MaxVersion` bounds table versions in `Ndvr`; a merge that would pass it is
  not taken.  In the runs with liveness it is never reached: without withdrawals
  a table of one or two prefixes changes fewer times.
- `InfCost` is 4, so that costs of all paths of the networks fit below it and
  the addition still wraps.
- Three routers in a line are the fewest with a route through a middle router, and
  let two routers learn from each other what they told each other; loops of more routers
  and other networks are covered by the theorems.
- `delivery`: `MaxNumber` is 2, so that the consumers' numbers wrap all the
  time.  `MaxChanges` is 5, the fewest changes after which an Interest can meet its own trace: three
  give the routers of a triangle their routes, two more turn the triangle
  against the Interest under way.  Such an Interest is waited for in vain and expires.
- `signing_key`: with limits of two and three seconds and a check every two, keys are replaced in time and
  late.  Four names of data keys: the current key, one of a vector that is on its way, one of a vector that
  is being validated, and the next.
- The time bounds (`MaxTimeout`, `MaxDue`, `MaxAge`, `MaxAmount`) are larger
  than any limit of their run plus an interval, so that a limit that is not
  kept would show.  `MaxFace` is the number
  of devices and of neighbours together.
- Runs of `DistanceVector`, `Ndvr` and `LocalhopStrategy` do not check for deadlock: bounded
  numbers end behaviours, and an Interest that was answered leaves nothing to
  do.  All others do.

### Fairness

- `Ndvr`: weak fairness of hellos, of the delivery of the last hello, of scheduled requests
  and replies, of delivery and of validation.  `SendHelloInterest`
  reschedules itself each time (`ndvr.cpp:265-267`), the ndn-cxx scheduler runs
  what is due, and with `Lossy = FALSE` the link delivers.  The removal of
  neighbours and the loss of messages are never fair, and the liveness runs do without them.
- `NeighborTimer`, `SigningKey`: time passes, and an event that is due takes place
  before time goes on.
- `NeighborToken`: weak fairness of hellos, which still lets neighbours come and go between any
  two of them, and strong fairness of starting a round at each neighbour: a round starts
  at a uniformly random place (`ndvr.cpp:211-216`), and a choice made for ever takes each of its values.
- `RouterTrust`: the same as `SigningKey`, and the validator goes on with what it has;
  an Interest for a certificate is answered or expires.  Vectors are not signed fairly.
- `Delivery`: the consumer's timer fires (`rangeconsumer.cpp:60-63`), each node handles what
  it has received, entries expire.  Nothing makes routes change, or come into being:
  `EveryoneHears` speaks of consumers that have one.
- `SimplePubSub`: timers fire; of the notifications and requests repeated for ever
  some get through.  The fairness is of *some* notification and *some* Data of
  a node, not of each name.
- `DistanceVector`, `UnicastFaces` and `LocalhopStrategy` are checked for safety only.

## Proofs

TLAPS proves, for every value of the constants that the named assumptions
(`RoutingTableAssumption`, `DistanceVectorAssumption`, `NdvrAssumption`, ...) allow:

- `RoutingTableProofs`: the operators return what their types say;
  `InfinityNeverDeletes`, that the branch for infinite costs is dead; and
  `NewerNumberAtSameCostIsLost`.
- `DistanceVectorProofs`:
  - `TypeCorrect`, `FreshnessIsMonotone`, `FibFollowsTable`.  The last needs that an entry's FIB
    pair is the only one of its name, also through a merge that moves the next hop.
  - `SequenceNumbersAreIssued`.  The inductive invariant says it of the distances in
    published vectors as well as of tables: a usable number in either was
    published at cost 0 by someone.
  - `LoopFreedom`, from the assumption `UnicastFaces` on the network, that a router has a
    face of its own for each neighbour.  `NoForwardingLoop` is not inductive: a
    withdrawn route keeps its next hop, whose own table may have moved on, so that costs and
    numbers of two tables cannot be compared.  The invariant `RankInv` says that there is a
    rank, a number and a cost for each router and prefix, such that usable routes and
    published distances are no fresher than the ranks allow (`RanksRoutes`, `RanksAdverts`) and
    the rank of a next hop is always fresher, unless it serves the prefix itself (`RanksNextHops`).
    A withdrawal leaves the rank alone, a merge sets it.  In a loop every router
    would be strictly less fresh than the next.
  - `NextHopsKnowThePrefix`, also from `UnicastFaces`.  The invariant `LeadInv` says of every published
    distance that its publisher still has an entry for the prefix: no action takes one away, and
    `InfinityNeverDeletes` is why.
  - `RemovalSparesOthers` (`OthersKeepTheirRoutes`), again from `UnicastFaces`, and false without (run `shared_face`).  The
    removal goes by the face alone; the invariant `RoutesWereHeard` says that a usable entry at the face
    of a neighbour is a distance this neighbour published, one hop on.
  - `RoutesAreForwarding`: `DistanceVector` implements `Forwarding` (`ImplementsForwarding`).
    `ForwardInv` collects the invariants above; `ForwardStep` takes the actions
    one by one, and finds a router changing its own routes, serving a prefix, or a stutter.
- `NdvrProofs`: `NdvrTypeCorrect`, and `NdvrImplementsDistanceVector`.  The invariant `NInv`
  adds to the types that hellos, requests, Data and validations only concern
  links, and that numbers stay below their bound.  Initial states map to
  initial states, and each action to one of `DistanceVector` or to a stutter:
  `OnHelloInterest` of an unknown router to `Discover`, `ReplyDvInfoInterest`
  to `Advertise`, `OnValidatedDvInfo` of a known neighbour to `Merge`.
  `DigestsAreNeverAhead`: `DigestLagsTable` is inductive with `NInv`; it says of itself that numbers start at 1.
  `VersionsAreNeverAhead`: `VersionInv` adds to `VersionsWereReached` the hellos and Interests
  under way, and versions only grow (`VersionsGrow`).
  `NdvrNeverLoops`, `NdvrRoutesEndAtProducers` and `NdvrForwards`: a second instance, of
  `DistanceVectorProofs` with the daemon's neighbours and published Data, gives the theorems on `DistanceVector`;
  `NdvrImplementsDistanceVector` brings every behaviour of the daemon under them.

  `QuietMeansSyncedInTrees` (`QuietMeansSynced`) is proved where `QuietTree` holds: the network is a tree of
  any size and depth, its root has all the prefixes, any number of them and all from the start, and nothing is lost.  Each
  of the three is needed.  With two origins a router's table changes twice, Interests for its two versions
  meet, one of them is dropped (`grouped_reply`) and quiet routers differ; on a cycle a router hears of the same prefix
  twice, at two costs; and a lost Data is never asked for again.  The invariant `TreeInv` has four parts.
  `TablesInv`: a table is empty at version 1, or filled at version 2 (1 at the root) with all of the prefixes at one cost, one
  more than the parent's.  `MessagesInv`: what is said, asked, scheduled or on its way is about filled
  tables only, and all Data of a router carries the table it still has, however replies were grouped.
  `AnswersInv`: no request waits in vain.  `AskInv`: whoever has recorded the version of a filled table
  and has nothing of it yet has a scheduled request, a pending one, or a vector in validation.
- `NeighborTimerProofs`: `OneRemovalPerNeighbor` and `RegularNeighborIsKept`.  The invariant
  `TInv` adds that the time-out of an entry is at least the shortest one, and that
  a neighbour was last seen no longer ago than its time-out and no longer than it is silent.
- `NeighborTokenProofs`: `OwnFacesAreNotShared`, `NeighborHasOneNextHop`: the map of
  remembered faces is injective and outlives the entries.  This is the
  assumption of `LoopFreedom`, obtained from the code.  `NodeImplementsFaces` carries both over to the router that sends
  hellos (`NodeFacesAreNotShared`, `NodeNeighborHasOneNextHop`), since `NeighborToken` leaves faces as `UnicastFaces` has them.
  `PivotIsNeverErased` (`PivotInMap`), `TokenTypeCorrect` and `TokensAreOfNeighbors`, for any number of neighbours: each step of the
  circle lands on a key of the map (`CircularAfterInMap`, `PivotsInMap`), and a removal puts the iterator at the end.
- `RouterTrustProofs`: `KeyAmountIsLimited`, `KeyAgeIsLimited`: the age may still grow by the time
  to the next check, the amount by what was signed since the last one (`KeyInv`).  `TrustImplementsSigningKey` makes these
  statements about keys whose certificates are asked for meanwhile (`TrustedKeysAreLimited`), which is what the run checks.
  `TrustTypeCorrect`, `RulesRefuseNothing` (`OnlyLossRefuses`) and `NoLongChains` (`ChainsAreShort`),
  for any number of keys whose names are more than packets can speak of.  The invariant `TrustInv` says that every key that
  something was signed with has a certificate, by the KSK for a data key and by the network for the KSK (`CertInv`), and what a
  chain looks like at each length (`ChainInv`).  `RulesInOrder` settles which of the overlapping rules decides.

- `LocalhopStrategyProofs`: `InterestsTravelOneHop`, `NobodyElseServesNeighbors` and `RequestsSurviveOverhearing`, for every
  topology.  `HopInv` takes the safety properties together and adds that the application's record is only at nodes
  that asked (`OwnRequests`), and that others than the producer are suppressed on their radio only (`RadioIsSuppressed`).
- `ApplicationProofs`, on `SimplePubSub`: `SatisfiedIsNeverAskedAgain` (`NeverAskedAgain`) and `OnlyMissingIsAsked`.  The action
  property is not provable from the types: it needs `MissingAsked`, that what is requested is pending and
  what is pending is not satisfied.
- `ApplicationProofs`, on `Forwarding`: `PromiseReachesServers`.  The promise is about single next hops (`LeadsOn`) and about circles
  (`NoCircle`); the theorem puts the two together: a set of routers that no next hop leaves, one of which has a route,
  holds a server.
- `ApplicationProofs`, on `Delivery`, for any scenario, number of nodes and bound:
  - `DeliveryTypeCorrect`; `DeliveryImplementsForwarding`, for set-ups with NDVR over unicast faces.
  - `RoutesOfScenariosReachServers`, for all kinds of routes.  Each has an argument of its own (`RoutesInv`): unicast and global routes keep
    the promise of `Forwarding`; default routes need a network in which nobody is cut off (`Connected`); on a
    shared broadcast face routes do close circles, and reaching a server is itself inductive, as a
    route is only learned from a neighbour that serves or has one (`SharedRouteReaches`).
  - `AskersGetTheData`: Data takes the records' way back, over two-way links (`TwoWay`; `GridLinksAreTwoWay` shows that the
    scenarios' grids have them).  `RecordsInv` says whom a record may be of.
  - `NoRequestFails`, for global routes on two-way links, on networks of any size: no request of any consumer is dropped or expires,
    while requests of all of them meet and join on the way.  `WayInv` says that a record is that of a
    node which has this next hop, waits, and has neither an Interest to forward nor Data in hand; and that whoever waits
    has one of the two, or a record at its next hop.  If nothing moved, those who wait would be a circle (`SomethingMoves`), so
    entries never expire.  `GlobalGridsAreGlobalNets`: the grids of `ndn-grid-global-best.cpp` are such networks.

What the theorems assume beyond the assumptions on constants stands in their statements: `UnicastFaces` and `QuietTree` for the network of
routers, `Connected`, `TwoWay` and `GlobalNet` for set-ups.  The instances of the runs satisfy each of them somewhere: `UnicastFaces`
those of `dv_line` and `ndvr_pair`, `QuietTree` that of `ndvr_line`, the others the set-ups of `delivery`.

Only model-checked:

- liveness, since TLAPS has no rules for ENABLED here: `Converges`, `SilentIsGivenUp`, `EveryNeighborHasTurns`,
  `FullKeyIsReplaced`, `ReceivedIsAccepted`, `EveryoneHears`, `EveryNameArrives`, and `SettledAnswers`, of which
  `NoRequestFails` is the part without fairness;
- `QuietMeansSynced` beyond trees with one origin, where it does not hold in general;
- the findings, which are counterexamples.

## Not modelled

- The text a digest is computed from, `routing-table.cpp:84-85`: names and numbers are
  written one after the other with no separator.
- Stopping an application (`ndvr-app.hpp`, `rangeconsumer.cpp`): no scenario does.
- Scenarios without consumers (`ndn-ndvr-ring-3`, `ndn-ndvr-wifi-adhoc-grid`, `ndncomm2020-exp1`, `hybrid-wifi-p2p`,
  `test-wifi-mesh`): they run NDVR on networks that are values of the constant `Link`, and promise
  nothing of their own.  `test-wifi-3paths`, whose three paths of 30 nodes have more routes than TLC can
  enumerate.  `ndn-grid-default-random`, under whose strategy an Interest need not arrive, so
  that nothing can be promised.  Those of `LocalhopStrategy` and
  `SimplePubSub`, whose modules have networks of their own.  Movement, collisions, energy and
  what scenarios print are the simulator's.
- The consumer `ConsumerCbr` of ndnSIM, in the scenarios on point-to-point grids, is modelled as the
  range consumer with one prefix: it asks at a fixed pace.  Its retransmissions are ndnSIM's, and left out.
- Management commands (declarations only), plots, traces, build files, and what is under `disabled/`.

In `LocalhopStrategy` one behaviour is visible that no document speaks of: once
the interval of suppression has passed, an Interest overheard from a neighbour takes the
branch of `rejectPendingInterest`, which erases the whole entry and with it
the own application's request.

## Plan

1. Done: `RoutingTable`, `DistanceVector`, `Ndvr`, their runs and theorems; the modules
   around them; certificates and validation; the scenarios with their consumers over `Forwarding`.
2. Model further: `NeighborTimer` composed with `Ndvr` for two routers, so that
   removal follows silence and liveness can be checked with one lost hello;
   routers on several devices in `UnicastFaces` (a unicast face is always
   made on device 0).
3. Prove further: what `NoRequestFails` says, of routes that change until some moment, from the moment on at which the entries of
   earlier routes are gone; `QuietMeansSynced` on networks with cycles where all paths between two routers are equally long;
   that `NeighborTimer` and `RouterTrust` are what `Ndvr` leaves to choices, step by step.
