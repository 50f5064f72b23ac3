------------------------- MODULE DelayedQueueProofs -------------------------
(***************************************************************************)
(* What the operators on delayed queues do to a bag of messages.           *)
(***************************************************************************)
EXTENDS DelayedQueue, TLAPS

(* A message that is published waits with the others.                      *)
LEMMA WithIsABag ==
    ASSUME NEW queue, NEW m, IsABag(queue)
    PROVE  /\ IsABag(With(queue, m))
           /\ BagToSet(With(queue, m)) = BagToSet(queue) \cup {m}
  BY DEF With, IsABag, BagToSet, SetToBag, (+)

(* A message that is delivered goes, or another copy of it stays.          *)
LEMMA WithoutIsABag ==
    ASSUME NEW queue, NEW m, IsABag(queue)
    PROVE  /\ IsABag(Without(queue, m))
           /\ BagToSet(Without(queue, m)) \subseteq BagToSet(queue)
           /\ BagToSet(queue) \ {m} \subseteq BagToSet(Without(queue, m))
<1>1. queue \in [DOMAIN queue -> Nat]
  BY DEF IsABag
<1>. QED  BY <1>1 DEF Without, IsABag, BagToSet, SetToBag, (-)

(* The queue of the morning is empty.                                      *)
LEMMA NoneIsABag == IsABag(EmptyBag) /\ BagToSet(EmptyBag) = {}
  BY DEF IsABag, BagToSet, SetToBag, EmptyBag

(* A queue of one message.                                                 *)
LEMMA OneIsABag ==
    ASSUME NEW m
    PROVE  IsABag(SetToBag({m})) /\ BagToSet(SetToBag({m})) = {m}
  BY DEF IsABag, BagToSet, SetToBag

(* Time passes for every message, and loses none: the hypotheses say that  *)
(* a message is a record with a delay.                                     *)
LEMMA AgedIsABag ==
    ASSUME NEW queue, IsABag(queue),
           \A m \in BagToSet(queue) :
              \/ m.delay = 0 /\ Sooner(m) = m
              \/ Later(Sooner(m)) = m
    PROVE  /\ IsABag(Aged(queue))
           /\ BagToSet(Aged(queue)) = {Sooner(m) : m \in BagToSet(queue)}
<1>1. BagToSet(Aged(queue)) = {Sooner(m) : m \in BagToSet(queue)}
  BY DEF Aged, BagToSet
<1>2. \A m : /\ Copies(queue, m) \in Nat
             /\ m \in BagToSet(queue) => Copies(queue, m) > 0
  BY DEF Copies, IsABag, BagToSet
<1>3. ASSUME NEW d \in BagToSet(queue)
      PROVE  Aged(queue)[Sooner(d)] \in {n \in Nat : n > 0}
  <2>1. Aged(queue)[Sooner(d)] =
           Copies(queue, Later(Sooner(d)))
             + (IF Sooner(d).delay = 0 THEN Copies(queue, Sooner(d)) ELSE 0)
    BY DEF Aged
  <2>. QED  BY <2>1, <1>2
<1>4. Aged(queue) \in [DOMAIN Aged(queue) -> {n \in Nat : n > 0}]
  <2>1. Aged(queue) = [m \in DOMAIN Aged(queue) |-> Aged(queue)[m]]
    BY DEF Aged
  <2>. QED  BY <2>1, <1>1, <1>3 DEF BagToSet
<1>. QED  BY <1>1, <1>4 DEF IsABag

=============================================================================
