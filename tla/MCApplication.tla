--------------------------- MODULE MCApplication ----------------------------
(***************************************************************************)
(* Two configurations of an application, one with BullMQ Pro, for TLC, and *)
(* calls like those of the test application's services.                    *)
(***************************************************************************)
EXTENDS Application

Setting(option, value) == [option |-> option, value |-> value]

Background(providers, names) == Setting("background", [providers |-> providers, names |-> names])

MCConfs ==
  {<<Background(None, {"snazzy"}), Setting("testInvocation", "manual"),
     Setting("workers:shutdown", None)>>,
   <<Setting("bypassDeprecationChecks", TRUE), Background("pro", {"snazzy", "other"})>>,
   <<>>}

NoConfig == [priority |-> None, workstream |-> None, queue |-> None, groupId |-> None]

Urgent     == [NoConfig EXCEPT !.priority = "urgent"]
NotUrgent  == [NoConfig EXCEPT !.priority = "not_urgent"]
LastSnazzy == [NoConfig EXCEPT !.priority = "last", !.workstream = "snazzy"]
UserSnazzy == [NoConfig EXCEPT !.priority = "urgent", !.workstream = "snazzy"]
Grouped    == [NoConfig EXCEPT !.queue = "other", !.groupId = "group"]

Duration(days, hours, minutes, seconds) ==
  [days |-> days, hours |-> hours, minutes |-> minutes, seconds |-> seconds]

Request(entry, config, delay) ==
  [entry |-> entry, named |-> TRUE, dream |-> FALSE, config |-> config, delay |-> delay]

MCRequests ==
  {Request("service", Urgent, None),
   Request("service", NotUrgent, Duration(0, 1, 0, 1)),
   Request("service", LastSnazzy, None),
   Request("model", UserSnazzy, None),
   Request("model", NoConfig, Duration(0, 0, 1, 0)),
   Request("instance", UserSnazzy, Duration(0, 0, 1, 0)),
   [Request("instance", Grouped, None) EXCEPT !.dream = TRUE],
   [Request("service", NoConfig, None) EXCEPT !.named = FALSE],
   Request("instance", Grouped, None),
   Request("schedule", Urgent, None)}

Unpatched(mentions, imports) == [exists |-> TRUE, mentions |-> mentions, imports |-> imports]

MCInitialFiles ==
  {<<Unpatched(3, <<"psychic">>), Unpatched(2, <<"psychic", "psychic">>), f>>
     : f \in {Missing, Unpatched(2, <<"psychic">>)}}
=============================================================================
