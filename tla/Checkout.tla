------------------------------ MODULE Checkout ------------------------------
(***************************************************************************)
(* The sale at the till (pos/page.tsx): one press of the checkout button   *)
(* creates an order and completes it, or puts the sale in the browser's    *)
(* offline queue; a sale may come from a reservation, which is marked as   *)
(* converted afterwards.                                                   *)
(*                                                                         *)
(* What is on the cart is the subject of Cart; here a cart is the sale it  *)
(* belongs to: a walk-in, or the reservation it was loaded from.  A press  *)
(* makes at most one order, so an order has the name of its press.  The    *)
(* page may be left and opened again while a press runs: its requests go   *)
(* on, with the callbacks of the page that is gone.                        *)
(***************************************************************************)
EXTENDS Naturals, FiniteSets

CONSTANTS WalkIns,      \* sales rung up product by product
          Reservations, \* sales that come from a reservation
          Presses,      \* bound: presses of the checkout button
          MaxLoads,     \* bound: times a reservation is loaded into the till
          None

ASSUME CheckoutAssumption ==
  /\ WalkIns \cap Reservations = {} /\ None \notin WalkIns \cup Reservations \cup Presses
  /\ IsFiniteSet(Presses) /\ MaxLoads \in Nat

VARIABLES open,        \* the till is on the screen
          cart,        \* the sale on the cart
          saved,       \* the sale under pos_cart in the browser's storage
          screen,      \* the order "Sale Complete!" is shown for
          linked,      \* reservationId: the reservation to convert
          filling,     \* the reservation whose product is being looked up
          press,       \* the checkout mutations
          recorded,    \* what is stored of the sale of a press, in order-service or the queue
          reservation, \* rows of order-service: status and converted order
          listed,      \* reservations the reservations page shows with its buttons
          sending,     \* conversions under way: <<reservation, press>>
          loads,       \* how often a reservation was loaded (not in the code)
          strayed,     \* reservations that were linked when a walk-in was rung up (not in the code)
          revived      \* sales whose cart changed after they were completed (not in the code)

pageVars == <<open, cart, saved, screen, linked, filling>>
rowVars == <<reservation, listed, sending>>
ghostVars == <<loads, strayed, revived>>
checkoutVars == <<pageVars, press, recorded, rowVars, ghostVars>>

Sales == WalkIns \cup Reservations
NoPress == [step |-> "unused", sale |-> None, left |-> FALSE, converts |-> None]
Press == [step : {"unused", "queue", "create", "complete", "done", "queued", "failed"},
          sale : Sales \cup {None},
          left : BOOLEAN,                         \* the page was left while it ran
          converts : Reservations \cup {None}]    \* reservationId in its callbacks

CheckoutTypeOK ==
  /\ open \in BOOLEAN
  /\ cart \in Sales \cup {None} /\ saved \in Sales \cup {None}
  /\ screen \in Presses \cup {None}
  /\ linked \in Reservations \cup {None} /\ filling \in Reservations \cup {None}
  /\ press \in [Presses -> Press]
  /\ recorded \in [Presses -> {"none", "PENDING", "COMPLETED", "QUEUED"}]
  /\ reservation \in [Reservations -> [status : {"ACTIVE", "EXPIRED", "CANCELLED", "CONVERTED"},
                                       order : Presses \cup {None}]]
  /\ listed \subseteq Reservations
  /\ sending \subseteq Reservations \X Presses
  /\ loads \in [Reservations -> 0..MaxLoads]
  /\ strayed \subseteq Reservations /\ revived \subseteq Sales

CheckoutInit ==
  /\ open = TRUE
  /\ cart = None /\ saved = None /\ screen = None /\ linked = None /\ filling = None
  /\ press = [p \in Presses |-> NoPress]
  /\ recorded = [p \in Presses |-> "none"]
  /\ reservation = [r \in Reservations |-> [status |-> "ACTIVE", order |-> None]]
  /\ listed = {} /\ sending = {}
  /\ loads = [r \in Reservations |-> 0] /\ strayed = {} /\ revived = {}

Running(p) == press[p].step \in {"queue", "create", "complete"}

------------------------------------------------------------------------------
(* The page.                                                               *)

\* The first product of a walk-in reaches an empty cart.
RingUp(s) ==
  /\ open /\ screen = None /\ cart = None
  /\ \A p \in Presses : press[p].sale # s
  /\ cart' = s /\ saved' = s
  /\ strayed' = IF linked = None THEN strayed ELSE strayed \cup {linked}
  /\ UNCHANGED <<open, screen, linked, filling, press, recorded, rowVars, loads, revived>>

\* Any change of a cart saves it: also that of a lookup that ends on the "Sale Complete!" screen.
EditCart ==
  /\ open /\ cart # None
  /\ saved' = cart
  /\ revived' = IF \E p \in Presses : press[p].sale = cart /\ press[p].step = "done"
                THEN revived \cup {cart} ELSE revived
  /\ UNCHANGED <<open, cart, screen, linked, filling, press, recorded, rowVars, loads, strayed>>

\* Escape, Cancel / New Sale: everything but reservationId is reset.
ClearSale ==
  /\ open
  /\ cart' = None /\ saved' = None /\ screen' = None
  /\ UNCHANGED <<open, linked, filling, press, recorded, rowVars, ghostVars>>

\* The cross on the banner of the reservation.
Unlink ==
  /\ open /\ screen = None /\ linked # None
  /\ linked' = None
  /\ UNCHANGED <<open, cart, saved, screen, filling, press, recorded, rowVars, ghostVars>>

\* The callbacks of a running press keep the reservation they last saw.
LeavePage ==
  /\ open
  /\ open' = FALSE
  /\ press' = [p \in Presses |->
                 IF Running(p) /\ ~press[p].left
                 THEN [press[p] EXCEPT !.left = TRUE, !.converts = linked] ELSE press[p]]
  /\ UNCHANGED <<cart, saved, screen, linked, filling, recorded, rowVars, ghostVars>>

OpenPage ==
  /\ ~open
  /\ open' = TRUE
  /\ cart' = saved
  /\ screen' = None /\ linked' = None /\ filling' = None
  /\ UNCHANGED <<saved, press, recorded, rowVars, ghostVars>>

\* Convert on the reservations page: the till opens with the reservation and an empty cart.
Prefill(r) ==
  /\ ~open /\ r \in listed /\ loads[r] < MaxLoads
  /\ open' = TRUE
  /\ cart' = None /\ saved' = None /\ screen' = None
  /\ linked' = r /\ filling' = r
  /\ loads' = [loads EXCEPT ![r] = @ + 1]
  /\ UNCHANGED <<press, recorded, rowVars, strayed, revived>>

\* The product of the reservation was found: it replaces what is on the cart.
PrefillLoads ==
  /\ open /\ filling # None
  /\ cart' = filling /\ saved' = filling
  /\ filling' = None
  /\ revived' = IF \E p \in Presses : press[p].sale = filling /\ press[p].step = "done"
                THEN revived \cup {filling} ELSE revived
  /\ UNCHANGED <<open, screen, linked, press, recorded, rowVars, loads, strayed>>

PrefillFails ==
  /\ open /\ filling # None
  /\ filling' = None
  /\ UNCHANGED <<open, cart, saved, screen, linked, press, recorded, rowVars, ghostVars>>

------------------------------------------------------------------------------
(* The checkout mutation.                                                  *)

\* Mutant of Checkout: the button does not wait for the mutation that runs.
CheckoutTwice(p, step) ==
  /\ open /\ screen = None /\ cart # None
  /\ press[p] = NoPress
  /\ press' = [press EXCEPT ![p].sale = cart, ![p].step = step]
  /\ UNCHANGED <<pageVars, recorded, rowVars, ghostVars>>

\* The button is disabled while the page's own mutation is pending.  What the mutation does
\* first depends on whether the browser is online.
Checkout(p, step) ==
  /\ open /\ screen = None /\ cart # None
  /\ press[p] = NoPress
  /\ \A q \in Presses : ~(Running(q) /\ ~press[q].left)
  /\ press' = [press EXCEPT ![p].sale = cart, ![p].step = step]
  /\ UNCHANGED <<pageVars, recorded, rowVars, ghostVars>>

\* enqueueOrder, and the clearCart of onError.
Enqueued(p) ==
  /\ press[p].step = "queue"
  /\ recorded' = [recorded EXCEPT ![p] = "QUEUED"]
  /\ press' = [press EXCEPT ![p].step = "queued"]
  /\ saved' = None
  /\ IF press[p].left THEN UNCHANGED <<cart, screen>> ELSE cart' = None /\ screen' = None
  /\ UNCHANGED <<open, linked, filling, rowVars, ghostVars>>

OrderCreated(p) ==
  /\ press[p].step = "create"
  /\ recorded' = [recorded EXCEPT ![p] = "PENDING"]
  /\ press' = [press EXCEPT ![p].step = "complete"]
  /\ UNCHANGED <<pageVars, rowVars, ghostVars>>

\* Mutant of Converts: the callbacks of a page that was left see the page of now.
ConvertsLinked(p) == linked

\* The reservation that a success of press p converts.
Converts(p) == IF press[p].left THEN press[p].converts ELSE linked

\* onSuccess: "Sale Complete!", and the conversion is sent without waiting for its answer.
Completed(p) ==
  /\ press[p].step = "complete"
  /\ recorded' = [recorded EXCEPT ![p] = "COMPLETED"]
  /\ press' = [press EXCEPT ![p].step = "done", ![p].converts = Converts(p)]
  /\ sending' = IF Converts(p) = None THEN sending ELSE sending \cup {<<Converts(p), p>>}
  /\ saved' = None
  /\ IF press[p].left THEN UNCHANGED <<screen, linked>> ELSE screen' = p /\ linked' = None
  /\ UNCHANGED <<open, cart, filling, reservation, listed, ghostVars>>

\* What the request that is under way stores.
Result(p) == CASE press[p].step = "queue" -> "QUEUED"
               [] press[p].step = "create" -> "PENDING"
               [] press[p].step = "complete" -> "COMPLETED"

\* onError: refused, or no answer in 15 s though order-service did what it was asked; the cart stays.
Failed(p) ==
  /\ press[p].step \in {"create", "complete"}
  /\ recorded' \in {recorded, [recorded EXCEPT ![p] = Result(p)]}
  /\ press' = [press EXCEPT ![p].step = "failed"]
  /\ UNCHANGED <<pageVars, rowVars, ghostVars>>

\* The browser reloads the page: nobody waits for the answers any more.
Reload ==
  /\ open
  /\ \E P \in SUBSET {p \in Presses : Running(p)} :
       recorded' = [p \in Presses |-> IF p \in P THEN Result(p) ELSE recorded[p]]
  /\ press' = [p \in Presses |->
                 IF Running(p) THEN [press[p] EXCEPT !.step = "failed", !.left = TRUE] ELSE press[p]]
  /\ cart' = saved
  /\ screen' = None /\ linked' = None /\ filling' = None
  /\ UNCHANGED <<open, saved, rowVars, ghostVars>>

------------------------------------------------------------------------------
(* Reservations in order-service.                                          *)

\* updateMany of the overdue ones, then the list; its buttons are those of the ACTIVE ones.
ListReservations ==
  \E overdue \in SUBSET {r \in Reservations : reservation[r].status = "ACTIVE"} :
     /\ reservation' = [r \in Reservations |->
                          IF r \in overdue THEN [reservation[r] EXCEPT !.status = "EXPIRED"]
                          ELSE reservation[r]]
     /\ listed' = {r \in Reservations : reservation'[r].status = "ACTIVE"}
     /\ UNCHANGED <<pageVars, press, recorded, sending, ghostVars>>

CancelReservation(r) ==
  /\ ~open /\ r \in listed
  /\ reservation' = [reservation EXCEPT ![r].status = "CANCELLED"]
  /\ UNCHANGED <<pageVars, press, recorded, listed, sending, ghostVars>>

ConvertReservationToOrder(r, p) ==
  /\ <<r, p>> \in sending
  /\ reservation' = [reservation EXCEPT ![r] = [status |-> "CONVERTED", order |-> p]]
  /\ sending' = sending \ {<<r, p>>}
  /\ UNCHANGED <<pageVars, press, recorded, listed, ghostVars>>

ConversionLost(r, p) ==
  /\ <<r, p>> \in sending
  /\ sending' = sending \ {<<r, p>>}
  /\ UNCHANGED <<pageVars, press, recorded, reservation, listed, ghostVars>>

CheckoutNext ==
  \/ \E s \in WalkIns : RingUp(s)
  \/ EditCart \/ ClearSale \/ Reload \/ Unlink \/ LeavePage \/ OpenPage
  \/ PrefillLoads \/ PrefillFails \/ ListReservations
  \/ \E p \in Presses : \/ \E step \in {"create", "queue"} : Checkout(p, step)
                        \/ Enqueued(p) \/ OrderCreated(p)
                        \/ Completed(p) \/ Failed(p)
  \/ \E r \in Reservations : \/ Prefill(r) \/ CancelReservation(r)
                             \/ \E p \in Presses : ConvertReservationToOrder(r, p) \/ ConversionLost(r, p)

CheckoutSpec == CheckoutInit /\ [][CheckoutNext]_checkoutVars

\* A request ends, with an answer or with the 15 s of the client.
RequestEnds(p) == Enqueued(p) \/ OrderCreated(p) \/ Completed(p) \/ Failed(p)

------------------------------------------------------------------------------
(* Properties.                                                             *)

SoldBy(s) == {p \in Presses : press[p].sale = s /\ recorded[p] \in {"COMPLETED", "QUEUED"}}
Mishaps(s) == {p \in Presses : press[p].sale = s /\ (press[p].step = "failed" \/ press[p].left)}
Loaded(s) == IF s \in Reservations THEN loads[s] ELSE 1

\* A sale is recorded once, in order-service or in the offline queue, unless a press of it
\* failed as far as the cashier could see, the page was left while it ran, the reservation was
\* loaded again, or a lookup put the cart of a completed sale back into the browser's storage.
SoldOnce ==
  \A s \in Sales \ revived : Cardinality(SoldBy(s)) <= Loaded(s) + Cardinality(Mishaps(s))

NamesItsSale ==
  \A r \in Reservations : LET p == reservation[r].order IN
    p # None => /\ recorded[p] = "COMPLETED"
                /\ press[p].sale = r \/ r \in strayed

ConvertedOncePerLoad ==
  \A r \in Reservations :
    Cardinality({p \in Presses : press[p].step = "done" /\ press[p].converts = r}) <= loads[r]

\* A converted reservation names a completed order, and that of its own sale: unless a walk-in
\* was rung up while the reservation was still linked, which clearCart does not undo.  And a
\* reservation is converted at most once each time it is loaded into the till.
ConversionIsOfItsSale == NamesItsSale /\ ConvertedOncePerLoad

\* "On reconnect, the queue drains automatically" (offline-queue.ts:7).
QueueDrains == \A p \in Presses : recorded[p] = "QUEUED" ~> recorded[p] # "QUEUED"
=============================================================================
