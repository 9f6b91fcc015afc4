---------------------------- MODULE MCEngineLink ----------------------------
(* Small instances of EngineLink: two getters that read the board and one  *)
(* persistent getter, a board mutator, a size setter and the mode setter.  *)
EXTENDS EngineLink

Queries == {"get_ratsnest", "get_route_sizes", "get_pads"}
FixedQueries == {"get_pads"}
Mutators == {"fix_route", "set_track_width", "release_checkpoint"}
Tuners == {"set_routing_mode"}
=============================================================================
