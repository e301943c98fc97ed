---------------------------- MODULE MCEventGroups ----------------------------
(* Instances of EventGroups for TLC. *)
EXTENDS EventGroups

CONSTANTS idle, a, b, c, x, y, z

MCTask == {idle, a, b, c}
MCPriorities == (idle :> 0) @@ (a :> 1) @@ (b :> 1) @@ (c :> 2)
MCList == {xTasksWaitingForBits}

Simple(kind, bits) == [kind |-> kind, bits |-> bits]
Wait(for, clear, all, n) ==
  [kind |-> "wait", bits |-> {}, ticks |-> n,
   request |-> [for |-> for, clear |-> clear, all |-> all]]
\* The tasks that meet wait for all the bits of their rendezvous.
Sync(bits, all, n) ==
  [kind |-> "sync", bits |-> bits, ticks |-> n,
   request |-> [for |-> all, clear |-> TRUE, all |-> TRUE]]

\* Two tasks wait in every way, with and without a timeout; one sets, clears,
\* aborts and deletes.
MCWaiting ==
  (idle :> {}) @@
  (a :> {Wait({x, y}, TRUE, TRUE, 1), Simple("set", {y}), Sync({y}, {x, y}, 2)}) @@
  (b :> {Wait({x, y}, FALSE, FALSE, 0), Wait({x, y}, TRUE, FALSE, 2), Wait({x}, FALSE, TRUE, 1)}) @@
  (c :> {Simple("set", {x}), Simple("set", {x, y}), Simple("clear", {x}), Simple("abort", {}),
         Simple("delay", {})})
\* Three tasks meet, as in the example of event_groups.h.
Party(bits, n) == {Sync(bits, Bit, n), Simple("delay", {})}
MCMeeting == (idle :> {}) @@ (a :> Party({x}, portMAX_DELAY)) @@ (b :> Party({y}, portMAX_DELAY))
             @@ (c :> Party({z}, portMAX_DELAY))
MCLeaving == (idle :> {}) @@ (a :> Party({x}, 1)) @@ (b :> Party({y}, portMAX_DELAY))
             @@ (c :> Party({z}, portMAX_DELAY))
\* Every wait has an end or is answered when the group is deleted.
MCDeleting == (idle :> {}) @@ (a :> {Wait({x, y}, TRUE, TRUE, portMAX_DELAY), Simple("set", {y})})
              @@ (b :> {Wait({x}, FALSE, FALSE, 1), Sync({y}, {x, y}, 2)})
              @@ (c :> {Simple("delete", {}), Simple("set", {x}), Simple("delay", {})})
MCPrograms == {MCWaiting, MCMeeting, MCDeleting}
MCLeavers  == {MCLeaving}
=============================================================================
