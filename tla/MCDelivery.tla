------------------------------ MODULE MCDelivery ------------------------------
(* The scenarios in small: three radios of which two do not hear each other,  *)
(* 1 - 0 - 2 in a grid of width two and 0 - 1 - 2 in a row; two radios; four  *)
(* that all hear each other; a grid of two by two.  Of the consumers of a     *)
(* scenario one or two are looked at.                                         *)
EXTENDS Delivery

Few(setUp, consumers) == [setUp EXCEPT !.consumers = consumers]

MCSetUps ==
  { Few(prodcons_ndvr_ucast_best(3, 50, 60), {0, 1}),
    Few(prodcons_ndvr_ucast_best(3, 50, 60), {1, 2}),
    Few(prodcons_ndvr_dynface_mcast(3, 50, 60), {0, 2}),
    Few(prodcons_ndvr_mcast(3, 50, 60), {0}),
    Few(prodcons_ndvr_mcast(3, 50, 60), {1}),
    Few(prodcons_ndvr_ucast_best(4, 50, 75), {0}),
    prodcons_ndvr_mcast(2, 50, 60),
    Few(prodcons_ndvr_masf(3, 50, 60), {0}),
    Few(prodcons_flood(3, 50, 60), {1}),
    prodcons_flood(2, 50, 60),
    Few(prodcons_asf(3, 50, 60), {0}),
    ndn_grid_ndvr(2),
    ndn_grid_default_multicast(2),
    ndn_grid_global_best(2) }
=============================================================================
