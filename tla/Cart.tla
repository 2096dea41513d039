-------------------------------- MODULE Cart --------------------------------
(***************************************************************************)
(* The cart of the till (pos/page.tsx) and its totals.                     *)
(*                                                                         *)
(* Adding a product is asynchronous: lookupSku asks three services before  *)
(* it changes the cart, and decides with the cart it was called with       *)
(* whether to add a line or to raise the quantity of one.  A pricing rule  *)
(* may put the change aside until a manager's PIN is confirmed, which is   *)
(* one more request.  Meanwhile the cashier edits the cart, or scans the   *)
(* product again.  A scan of the camera decides with an older cart yet,    *)
(* the one of the moment the camera was started; and a reservation to be   *)
(* converted replaces the cart when its product was found.                 *)
(*                                                                         *)
(* The names carry a prefix so that an instance can extend this module     *)
(* together with others of the admin app.                                  *)
(***************************************************************************)
EXTENDS Integers, Sequences, FiniteSets, Functions

CONSTANTS Skus,          \* products
          Price,         \* product -> unit price in cents
          Discounts,     \* discounts of a line: [type, value], in 1/100 % ("pct") or in cents ("flat")
          MaxUnits,      \* bound: units on a line
          Lookups,       \* calls of lookupSku that may be under way
          Approvals,     \* PIN validations that may be under way
          Redemptions,   \* what points may be redeemed, in cents (the field's min binds nobody)
          OrderDiscounts \* discounts on the order as a whole, in cents (likewise)

ASSUME CartAssumption ==
  /\ IsFiniteSet(Skus)
  /\ Redemptions \subseteq Int /\ OrderDiscounts \subseteq Int
  /\ Price \in [Skus -> Nat]
  /\ MaxUnits \in Nat \ {0}
  /\ "none" \notin Skus
  /\ Discounts \subseteq [type : {"pct", "flat"}, value : Int]

VARIABLES lines,    \* product -> its lines on the cart, in their order
          lookup,   \* what a call of lookupSku carries while it waits
          pending,  \* pendingCartAdd: the change that waits for a PIN
          approval, \* what a PIN validation will apply
          rung,     \* product -> units the cashier has rung up (not in the code)
          jostled,  \* products whose cart changed under a waiting change (not in the code)
          camera,   \* product -> its units on the cart when the camera was started, or Off
          prefill   \* the product and units of a reservation that is being loaded

cartVars == <<lines, lookup, pending, approval, rung, jostled, camera, prefill>>

Off == -1
NoCamera == [s \in Skus |-> Off]

NoDiscount == [type |-> "none", value |-> 0]
Line == [units : 1..MaxUnits, discount : Discounts \cup {NoDiscount}]

\* A change that waits: the product, the units its line had (0: no line), the discount.
Change == [sku : Skus, seen : 0..MaxUnits, discount : Discounts \cup {NoDiscount}]
NoChange == [sku |-> "none", seen |-> 0, discount |-> NoDiscount]
NoPrefill == [sku |-> "none", units |-> 0]

CartTypeOK == /\ lines \in [Skus -> Seq(Line)]
              /\ lookup \in [Lookups -> Change \cup {NoChange}]
              /\ pending \in Change \cup {NoChange}
              /\ approval \in [Approvals -> Change \cup {NoChange}]
              /\ rung \in [Skus -> 0..MaxUnits]
              /\ jostled \in SUBSET Skus
              /\ camera \in [Skus -> Off..MaxUnits]
              /\ prefill \in [sku : Skus, units : 1..MaxUnits] \cup {NoPrefill}

CartInit == /\ lines = [s \in Skus |-> <<>>]
            /\ lookup = [l \in Lookups |-> NoChange]
            /\ pending = NoChange
            /\ approval = [a \in Approvals |-> NoChange]
            /\ rung = [s \in Skus |-> 0]
            /\ jostled = {}
            /\ camera = NoCamera
            /\ prefill = NoPrefill

\* A change of product s waits for an answer or for a PIN.
Waiting(s) == \/ \E l \in Lookups : lookup[l].sku = s
              \/ pending.sku = s
              \/ \E a \in Approvals : approval[a].sku = s

\* cart.find(...)?.quantity
Seen(s) == IF lines[s] = <<>> THEN 0 ELSE lines[s][1].units

Discounted(line, d) == IF d = NoDiscount THEN line ELSE [line EXCEPT !.discount = d]

\* Mutant of Added: the product is not looked for on the cart.
AddedAsNewLine(c) == Append(lines[c.sku], [units |-> 1, discount |-> c.discount])

\* addToCart, with what the call saw when it began.
Added(c) ==
  IF c.seen > 0
  THEN [k \in DOMAIN lines[c.sku] |->
          Discounted([lines[c.sku][k] EXCEPT !.units = c.seen + 1], c.discount)]
  ELSE Append(lines[c.sku], [units |-> 1, discount |-> c.discount])

Add(c) == /\ lines' = [lines EXCEPT ![c.sku] = Added(c)]
          /\ rung' = [rung EXCEPT ![c.sku] = IF @ < MaxUnits THEN @ + 1 ELSE @]

------------------------------------------------------------------------------
(* lookupSku.                                                              *)

\* lookupSku as it was made in a render whose cart had seen units of product s.
Looked(l, s, seen) ==
  /\ lookup[l] = NoChange
  /\ seen < MaxUnits
  /\ lookup' = [lookup EXCEPT ![l] = [sku |-> s, seen |-> seen, discount |-> NoDiscount]]
  /\ jostled' = IF Waiting(s) \/ seen # Seen(s) THEN jostled \cup {s} ELSE jostled
  /\ UNCHANGED <<lines, pending, approval, rung, prefill>>

\* Typed, chosen, read by a hand scanner, or by the camera of a browser with a barcode
\* detector: the lookupSku of the render of now.  A code read in its panel closes the camera.
LookupSku(l, s) == Looked(l, s, Seen(s)) /\ camera' \in {camera, NoCamera}

\* In the other browsers the reader of the camera keeps the callback it was started with,
\* and so the lookupSku of that render.
StartCamera ==
  /\ camera = NoCamera
  /\ camera' = [s \in Skus |-> Seen(s)]
  /\ UNCHANGED <<lines, lookup, pending, approval, rung, jostled, prefill>>

StopCamera ==
  /\ camera # NoCamera
  /\ camera' = NoCamera
  /\ UNCHANGED <<lines, lookup, pending, approval, rung, jostled, prefill>>

\* The panel closes with the first code it reads.
CameraScan(l, s) ==
  /\ camera[s] # Off
  /\ Looked(l, s, camera[s])
  /\ camera' = NoCamera

\* Unknown product, nothing on the shelf, or no answer: a message, and no change.
LookupFails(l) ==
  /\ lookup[l] # NoChange
  /\ lookup' = [lookup EXCEPT ![l] = NoChange]
  /\ UNCHANGED <<lines, pending, approval, rung, jostled, camera, prefill>>

\* The rules for one unit more give discount d, or the pricing service is down.
LookupAdds(l, d) ==
  /\ lookup[l] # NoChange
  /\ Add([lookup[l] EXCEPT !.discount = d])
  /\ lookup' = [lookup EXCEPT ![l] = NoChange]
  /\ UNCHANGED <<pending, approval, jostled, camera, prefill>>

\* A rule that needs a manager: the change waits, and replaces one that waited.
LookupAsksManager(l, d) ==
  /\ lookup[l] # NoChange
  /\ pending' = [lookup[l] EXCEPT !.discount = d]
  /\ lookup' = [lookup EXCEPT ![l] = NoChange]
  /\ UNCHANGED <<lines, approval, rung, jostled, camera, prefill>>

\* Enter in the PIN field; unlike the button it does not ask whether a validation runs.
ValidatePin(a) ==
  /\ pending # NoChange /\ approval[a] = NoChange
  /\ approval' = [approval EXCEPT ![a] = pending]
  /\ jostled' = IF \E b \in Approvals : approval[b].sku = pending.sku
              THEN jostled \cup {pending.sku} ELSE jostled
  /\ UNCHANGED <<lines, lookup, pending, rung, camera, prefill>>

PinAccepted(a) ==
  /\ approval[a] # NoChange
  /\ Add(approval[a])
  /\ approval' = [approval EXCEPT ![a] = NoChange]
  /\ pending' = NoChange
  /\ UNCHANGED <<lookup, jostled, camera, prefill>>

PinRefused(a) ==
  /\ approval[a] # NoChange
  /\ approval' = [approval EXCEPT ![a] = NoChange]
  /\ UNCHANGED <<lines, lookup, pending, rung, jostled, camera, prefill>>

CancelPin ==
  /\ pending # NoChange
  /\ pending' = NoChange
  /\ UNCHANGED <<lines, lookup, approval, rung, jostled, camera, prefill>>

------------------------------------------------------------------------------
(* The cashier's edits.  Each finds the line by its product.               *)

Edited(s) == jostled' = IF Waiting(s) THEN jostled \cup {s} ELSE jostled

\* Mutant of UpdateQty: a quantity of zero keeps the line.
UpdateQtyKeepsLine(s, n) ==
  /\ lines[s] # <<>>
  /\ lines' = [lines EXCEPT ![s] = [k \in DOMAIN @ |-> [@[k] EXCEPT !.units = n]]]
  /\ rung' = [rung EXCEPT ![s] = n]
  /\ Edited(s)
  /\ UNCHANGED <<lookup, pending, approval, camera, prefill>>

\* updateQty; a quantity of zero is removeItem.
UpdateQty(s, n) ==
  /\ lines[s] # <<>>
  /\ lines' = [lines EXCEPT ![s] = IF n = 0 THEN <<>>
                                   ELSE [k \in DOMAIN @ |-> [@[k] EXCEPT !.units = n]]]
  /\ rung' = [rung EXCEPT ![s] = n]
  /\ Edited(s)
  /\ UNCHANGED <<lookup, pending, approval, camera, prefill>>

UpdateDiscount(s, d) ==
  /\ lines[s] # <<>>
  /\ lines' = [lines EXCEPT ![s] = [k \in DOMAIN @ |-> [@[k] EXCEPT !.discount = d]]]
  /\ UNCHANGED <<lookup, pending, approval, rung, jostled, camera, prefill>>

\* Clear all, Escape, Cancel / New Sale.
ClearCart ==
  /\ \E s \in Skus : lines[s] # <<>>
  /\ lines' = [s \in Skus |-> <<>>]
  /\ rung' = [s \in Skus |-> 0]
  /\ jostled' = jostled \cup {s \in Skus : Waiting(s)}
  /\ UNCHANGED <<lookup, pending, approval, camera, prefill>>

\* What waited belongs to the page that is gone.
PageLeft == /\ lookup' = [l \in Lookups |-> NoChange]
            /\ pending' = NoChange
            /\ approval' = [a \in Approvals |-> NoChange]
            /\ camera' = NoCamera

\* The page is loaded again: the cart comes back from the browser's storage.
ReloadCart ==
  /\ PageLeft
  /\ prefill' = NoPrefill
  /\ UNCHANGED <<lines, rung, jostled>>

------------------------------------------------------------------------------
(* A reservation of n units of s is converted: the page opens without the  *)
(* cart that was stored, looks for the customer and the product, and       *)
(* replaces the cart it has by then.                                       *)

LoadReservation(s, n) ==
  /\ PageLeft
  /\ prefill' = [sku |-> s, units |-> n]
  /\ lines' = [t \in Skus |-> <<>>]
  /\ rung' = [t \in Skus |-> 0]
  /\ UNCHANGED jostled

PrefillAdds ==
  /\ prefill # NoPrefill
  /\ lines' = [t \in Skus |-> IF t = prefill.sku
                               THEN <<[units |-> prefill.units, discount |-> NoDiscount]>> ELSE <<>>]
  /\ rung' = [t \in Skus |-> IF t = prefill.sku THEN prefill.units ELSE 0]
  /\ jostled' = jostled \cup {t \in Skus : Waiting(t) \/ lines[t] # <<>>}
  /\ prefill' = NoPrefill
  /\ UNCHANGED <<lookup, pending, approval, camera>>

\* The product is not found: a message.
PrefillLost ==
  /\ prefill # NoPrefill
  /\ prefill' = NoPrefill
  /\ UNCHANGED <<lines, lookup, pending, approval, rung, jostled, camera>>

CartNext ==
  \/ \E l \in Lookups : \/ \E s \in Skus : LookupSku(l, s) \/ CameraScan(l, s)
                        \/ LookupFails(l)
                        \/ \E d \in Discounts \cup {NoDiscount} : LookupAdds(l, d)
                        \/ \E d \in Discounts : LookupAsksManager(l, d)
  \/ \E a \in Approvals : ValidatePin(a) \/ PinAccepted(a) \/ PinRefused(a)
  \/ CancelPin \/ StartCamera \/ StopCamera
  \/ \E s \in Skus : \/ \E n \in 0..MaxUnits : UpdateQty(s, n)
                     \/ \E d \in Discounts \cup {NoDiscount} : UpdateDiscount(s, d)
  \/ ClearCart
  \/ ReloadCart
  \/ \E s \in Skus, n \in 1..MaxUnits : LoadReservation(s, n)
  \/ PrefillAdds \/ PrefillLost

CartSpec == CartInit /\ [][CartNext]_cartVars

------------------------------------------------------------------------------
(* Totals: calcTotals in the browser, createOrder in order-service.        *)

NonNegative(n) == IF n < 0 THEN 0 ELSE n
Least(m, n) == IF m < n THEN m ELSE n

\* A tax of 5 % rounded to a cent, of an amount in cents.  Both programs round a binary
\* fraction, each its own way (Math.round of a hundredfold, toFixed): what lies at half a
\* cent goes up or down.
Taxes(taxable) == {(5 * taxable + 49) \div 100, (5 * taxable + 50) \div 100}

\* itemDiscountAmt: the discount of a whole line, which both programs are given.
LineDiscount(s, line) ==
  CASE line.discount.type = "pct" -> (Price[s] * line.units * line.discount.value + 5000) \div 10000
    [] line.discount.type = "flat" -> Least(line.discount.value, Price[s] * line.units)
    [] OTHER -> 0

\* reduce over the lines of the cart.
OverLines(op(_, _)) ==
  LET OfSku(s) == SumFunctionOnSet([k \in DOMAIN lines[s] |-> op(s, lines[s][k])], DOMAIN lines[s])
  IN SumFunctionOnSet([s \in Skus |-> OfSku(s)], Skus)

Gross(s, line) == Price[s] * line.units

\* What the till may show on the button.
ScreenTaxable(redeemed, off) ==
  LET subtotal == OverLines(Gross)
  IN NonNegative(subtotal - OverLines(LineDiscount) - off - Least(redeemed, subtotal))

ScreenTotals(redeemed, off) ==
  LET taxable == ScreenTaxable(redeemed, off) IN {taxable + tax : tax \in Taxes(taxable)}

\* What createOrder may store: (unitPrice - discountAmount) * quantity, line by line.
Charged(s, line) == (Price[s] - LineDiscount(s, line)) * line.units

\* Mutant of OrderTotals: the discounts are taken off after the tax.
OrderTotalsTaxFirst(redeemed, off) ==
  LET gross == OverLines(Charged) IN {NonNegative(gross + tax - off - redeemed) : tax \in Taxes(gross)}

OrderTotals(redeemed, off) ==
  LET taxable == NonNegative(OverLines(Charged) - off - redeemed)
  IN {taxable + tax : tax \in Taxes(taxable)}

------------------------------------------------------------------------------
(* Properties.                                                             *)

\* A product has one line, with the units the cashier rung up, or none: unless its cart
\* changed while a lookup or an approval of it was waiting, between the start of the camera
\* and its scan, or while a reservation was being loaded.  lookupSku decides with the cart of
\* the render it was made in (page.tsx:497) and updates by product, so a line that is doubled,
\* lost or set back needs two changes of the product that overlap.
CartIsWhatWasRung ==
  \A s \in Skus \ jostled :
    IF rung[s] = 0 THEN lines[s] = <<>>
                   ELSE Len(lines[s]) = 1 /\ lines[s][1].units = rung[s]

AtHalfCent(taxable) == (5 * taxable) % 100 = 50

\* The total on the button is the total of the order, to the cent, and one cent apart only
\* where the tax lies at half a cent: whatever is redeemed or taken off the order, as long as
\* no discounted line has more than one unit (the till sends the discount of the line, and
\* order-service takes it off every unit).  The button caps the points at the subtotal and
\* the order does not, which shows only when a discount is negative.
TotalsAgree ==
  (\A s \in Skus : \A k \in DOMAIN lines[s] :
     lines[s][k].units = 1 \/ lines[s][k].discount = NoDiscount)
  => \A p \in Redemptions, off \in OrderDiscounts :
       p <= OverLines(Gross) \/ OverLines(LineDiscount) + off >= 0
       => \A shown \in ScreenTotals(p, off), charged \in OrderTotals(p, off) :
            shown = charged \/ (AtHalfCent(ScreenTaxable(p, off)) /\ shown - charged \in {-1, 1})

\* What the button says ("Complete Sale", page.tsx:1100): the total that will be charged.
ScreenTotalIsCharged ==
  \A shown \in ScreenTotals(0, 0), charged \in OrderTotals(0, 0) : shown = charged
=============================================================================
