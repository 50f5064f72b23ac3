---------------------------- MODULE DelayedQueue ----------------------------
(***************************************************************************)
(* The queues behind RabbitMQ's delayed message exchange, as a bag: a      *)
(* message is a record, and its "delay" the instants it has still to wait. *)
(* What is due waits for a consumer, in no particular order.               *)
(***************************************************************************)
EXTENDS Integers, Bags

With(queue, m) == queue (+) SetToBag({m})
Without(queue, m) == queue (-) SetToBag({m})
Copies(queue, m) == IF m \in BagToSet(queue) THEN queue[m] ELSE 0

Sooner(m) == [m EXCEPT !.delay = IF @ > 0 THEN @ - 1 ELSE 0]
Later(m) == [m EXCEPT !.delay = @ + 1]

(* An instant later: what comes due joins what is due already.             *)
Aged(queue) ==
    [m \in {Sooner(d) : d \in BagToSet(queue)} |->
        Copies(queue, Later(m)) + (IF m.delay = 0 THEN Copies(queue, m)
                                                  ELSE 0)]

=============================================================================
