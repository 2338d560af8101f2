----------------------------- MODULE MCTransport ----------------------------
(* Small instances of Transport for TLC: the programs are the calls of      *)
(* moving.c and transport.c, one by one, and umain().                       *)
EXTENDS Transport

MCPrograms ==
  {<<rotate_by_gyro(Half)>>, <<rotate_by_gyro(-10)>>,
   rotate_by_gyro_to(15, 0), move_for_time(-1, 300), go_straight(500, 1),
   <<move_distance_by_encoders(4)>>, <<move_distance_by_encoders(-3)>>,
   <<rotate_by_encoders(5)>>, <<rotate_by_encoders(-5)>>,
   <<move_distance_by_encoders_gyro(0)>>,
   move_to_territory_dr(-10, 3) \o move_to_territory_dr(40, 2),
   move_to_next_territory_dr(5, 3), <<go_to_territory(5, TRUE)>>,
   mine_resources, umain}

\* The one that does not end.
MCSteered == {<<move_distance_by_encoders_gyro(3)>>}

MCPlaces == {<<6, 26>>, <<2, 20>>}
MCStarts == {-16}
MCHeadings == {49}
=============================================================================
