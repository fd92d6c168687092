------------------------------ MODULE EventBus ------------------------------
(***************************************************************************)
(* The in-memory EventBus (event_bus.py): callbacks subscribe to a topic   *)
(* within a scope, and dispatch calls the matching ones in the order of    *)
(* their subscription, from a copy of the list.                            *)
(*                                                                         *)
(* Callbacks are numbered in the order in which they subscribe.  What a    *)
(* callback does is left to the module that extends this one; an exception *)
(* it raises is swallowed, so that its call simply comes to an end.  One   *)
(* thread dispatches: that is how every program of the repository uses it. *)
(***************************************************************************)
EXTENDS Naturals

CONSTANTS
    Topics,       \* event types
    Scopes,       \* what an event, and a subscription, may be about
    Everywhere    \* the scope of a subscription to all events: None or "*"

VARIABLES
    listeners,    \* the subscriptions to each topic
    todo          \* callbacks dispatch has copied and not called yet

busvars == <<listeners, todo>>

-----------------------------------------------------------------------------

Subscription == [callback : Nat, scope : Scopes \cup {Everywhere}]

BusTypeOK ==
    /\ listeners \in [Topics -> SUBSET Subscription]
    /\ todo \subseteq Nat

(* subscribe(topic, callback, scope)                                       *)
Subscribe(topic, c, scope) ==
    listeners' = [listeners EXCEPT ![topic] = @ \cup {[callback |-> c, scope |-> scope]}]

(* unsubscribe(topic, callback): its subscriptions in every scope.         *)
Unsubscribe(topic, c) ==
    listeners' = [listeners EXCEPT ![topic] = {s \in @ : s.callback # c}]

(* An event reaches those subscribed everywhere and those subscribed to    *)
(* its scope; one without a scope, only the former.                        *)
Matching(topic, scope) ==
    {s.callback : s \in {l \in listeners[topic] : l.scope \in {Everywhere, scope}}}

Dispatch(topic, scope) ==
    /\ todo' = Matching(topic, scope)
    /\ UNCHANGED listeners

(* Mutant: the callbacks are called from the last to the first.            *)
LastFirst(c) == c \in todo /\ \A b \in todo : b <= c

(* The callback whose turn it is.                                          *)
Turn(c) == c \in todo /\ \A b \in todo : c <= b

Called(c) ==
    /\ todo' = todo \ {c}
    /\ UNCHANGED listeners
=============================================================================
