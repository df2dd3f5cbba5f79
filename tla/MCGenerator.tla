---------------------------- MODULE MCGenerator ----------------------------
(***************************************************************************)
(* Generator for TLC: two generators, a year that starts on a Sunday, a    *)
(* Thursday or a Saturday, and command lines on both sides of every        *)
(* comparison of should_generate_error and of iterations_count.            *)
(***************************************************************************)
EXTENDS Generator

MCConfigs ==
  {[days |-> 3, iterations |-> 8,  errors |-> 10],
   [days |-> 1, iterations |-> 20, errors |-> 10],
   [days |-> 1, iterations |-> 20, errors |-> 19],
   [days |-> 1, iterations |-> 9,  errors |-> 5],
   [days |-> 0, iterations |-> 7,  errors |-> 1]}
=============================================================================
