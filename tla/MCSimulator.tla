---------------------------- MODULE MCSimulator ----------------------------
(***************************************************************************)
(* AirfiSimulator with one other client, whose requests are the ones at    *)
(* the limits of build_response, and writes into two batches.              *)
(***************************************************************************)
EXTENDS AirfiSimulator

MCTasks == {Home} \cup Strangers

MCValues == {<<5, 220>>, <<21, 7>>}

MCForeign ==
  {Request(READ_HOLDING, 1, 21), Request(READ_INPUT, 0, 1), Request(READ_INPUT, 33, 20), Request(READ_INPUT, 52, 0),
   Request(WRITE_SINGLE, 5, 230), Request(WRITE_SINGLE, 22, 9), Request(WRITE_SINGLE, 69, 1), Request(16, 1, 1)}
=============================================================================
