----------------------------- MODULE OrderQueue -----------------------------
(***************************************************************************)
(* What the order feed promises: per pair one sequence of accepted orders, *)
(* of which every subscriber receives a run without gaps or repetitions,   *)
(* from the place at which it subscribed.  No lock, buffer or goroutine.   *)
(***************************************************************************)
EXTENDS Naturals, Sequences

CONSTANTS Pair, Order, Subscription, PairOf

VARIABLES
  accepted,    \* per pair, the orders accepted so far
  subscribed,  \* the subscriptions that are in place
  from,        \* how many accepted orders a subscription does not get
  received     \* the orders a subscription got

vars == <<accepted, subscribed, from, received>>

Init ==
  /\ accepted = [q \in Pair |-> <<>>]
  /\ subscribed = {}
  /\ from = [s \in Subscription |-> 0]
  /\ received = [s \in Subscription |-> <<>>]

Accept(o) ==
  /\ \A i \in 1..Len(accepted[PairOf[o]]) : accepted[PairOf[o]][i] # o
  /\ accepted' = [accepted EXCEPT ![PairOf[o]] = Append(@, o)]
  /\ UNCHANGED <<subscribed, from, received>>

Subscribe(s) ==
  /\ s \notin subscribed
  /\ subscribed' = subscribed \cup {s}
  /\ \E n \in 0..Len(accepted[PairOf[s]]) : from' = [from EXCEPT ![s] = n]
  /\ UNCHANGED <<accepted, received>>

Receive(s) ==
  LET q == PairOf[s]
      n == from[s] + Len(received[s]) + 1 IN
  /\ s \in subscribed
  /\ n <= Len(accepted[q])
  /\ received' = [received EXCEPT ![s] = Append(@, accepted[q][n])]
  /\ UNCHANGED <<accepted, subscribed, from>>

Next ==
  \/ \E o \in Order : Accept(o)
  \/ \E s \in Subscription : Subscribe(s) \/ Receive(s)

Spec == Init /\ [][Next]_vars
=============================================================================
