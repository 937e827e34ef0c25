---------------------------- MODULE MCTestUtils ----------------------------
(***************************************************************************)
(* Two queues, a job of the second that enqueues one in the first, a job   *)
(* of the first and a scheduled one.                                       *)
(***************************************************************************)
EXTENDS TestUtils

CONSTANTS
  default, named,                    \* queues
  user, digest, welcome, hourly      \* jobs

MCOrder   == <<default, named>>
MCQueueOf == [j \in Jobs |-> IF j \in {user, welcome} THEN default ELSE named]
MCClassOf == [j \in Jobs |-> IF j = hourly THEN "scheduled" ELSE "service"]
MCSpawns  == [j \in Jobs |-> IF j = digest THEN {welcome} ELSE {}]
=============================================================================
