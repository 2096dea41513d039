----------------------------- MODULE TillProofs -----------------------------
(***************************************************************************)
(* Proofs about what the browser of the admin app drives: the cart and the *)
(* checkout of the till, the stocktake page, the passkeys of its user.     *)
(* Each part says what holds unless its calls overlapped, and records the  *)
(* overlap; its invariant says that, where none was recorded, what a call  *)
(* under way once read is still so.  The last part is about all of them    *)
(* side by side.                                                           *)
(***************************************************************************)
EXTENDS MCTill, SumTheorems, SequenceTheorems

------------------------------------------------------------------------------
(* Cart.                                                                   *)

\* A change that waits was decided on a line with room for one unit more.
Roomy == {c \in Change : c.seen < MaxUnits}

Cameras == [Skus -> Off..MaxUnits]
Prefills == [sku : Skus, units : 1..MaxUnits] \cup {NoPrefill}

CartTyped ==
  /\ camera \in Cameras /\ prefill \in Prefills
  /\ lines \in [Skus -> Seq(Line)] /\ rung \in [Skus -> 0..MaxUnits] /\ jostled \subseteq Skus
  /\ lookup \in [Lookups -> Roomy \cup {NoChange}] /\ pending \in Roomy \cup {NoChange}
  /\ approval \in [Approvals -> Roomy \cup {NoChange}]

\* The lines of a product are what was rung up.
Matches(s) == IF rung[s] = 0 THEN lines[s] = <<>>
              ELSE Len(lines[s]) = 1 /\ lines[s][1].units = rung[s]

\* Every change of it that waits has seen the cart of now, and one lookup or approval waits.
Current(s) ==
  /\ \A l \in Lookups : lookup[l].sku = s => lookup[l].seen = rung[s]
  /\ pending.sku = s => pending.seen = rung[s]
  /\ \A a \in Approvals : approval[a].sku = s => approval[a].seen = rung[s]
Alone(s) ==
  /\ \A l, m \in Lookups : lookup[l].sku = s /\ lookup[m].sku = s => l = m
  /\ \A l \in Lookups : lookup[l].sku = s => pending.sku # s /\ \A a \in Approvals : approval[a].sku # s
  /\ \A a, b \in Approvals : approval[a].sku = s /\ approval[b].sku = s => a = b
Steady(s) == Matches(s) /\ Current(s) /\ Alone(s)

CartInv == CartTyped /\ \A s \in Skus \ jostled : Steady(s)

LEMMA RoomyChanges ==
  /\ \A c \in Roomy : /\ c.sku \in Skus /\ c.seen \in Nat /\ c.seen + 1 \in 1..MaxUnits
                      /\ c.discount \in Discounts \cup {NoDiscount} /\ c # NoChange
                      /\ \A d \in Discounts \cup {NoDiscount} :
                           /\ [c EXCEPT !.discount = d] \in Roomy
                           /\ [c EXCEPT !.discount = d].sku = c.sku
                           /\ [c EXCEPT !.discount = d].seen = c.seen
                           /\ [c EXCEPT !.discount = d].discount = d
  /\ NoChange.sku \notin Skus
<1>1. ASSUME NEW c \in Roomy
      PROVE  /\ c.sku \in Skus /\ c.seen \in Nat /\ c.seen + 1 \in 1..MaxUnits
             /\ c.discount \in Discounts \cup {NoDiscount} /\ c # NoChange
  BY CartAssumption DEF Roomy, Change, NoChange
<1>2. ASSUME NEW c \in Roomy, NEW d \in Discounts \cup {NoDiscount}
      PROVE  /\ [c EXCEPT !.discount = d] \in Roomy
             /\ [c EXCEPT !.discount = d].sku = c.sku
             /\ [c EXCEPT !.discount = d].seen = c.seen
             /\ [c EXCEPT !.discount = d].discount = d
  BY DEF Roomy, Change
<1>3. NoChange.sku \notin Skus
  BY CartAssumption DEF NoChange
<1>4. QED BY <1>1, <1>2, <1>3

LEMMA OneLine ==
  ASSUME NEW line \in Line
  PROVE  <<line>> \in Seq(Line) /\ Len(<<line>>) = 1 /\ <<line>>[1] = line
OBVIOUS

LEMMA SeenUnits == ASSUME CartTyped, NEW s \in Skus PROVE Seen(s) \in 0..MaxUnits
<1>1. lines[s] # <<>> => lines[s][1] \in Line
  BY DEF CartTyped
<1>2. QED BY <1>1, CartAssumption DEF Seen, Line

\* Whatever the camera was started with and a reservation brings is in range.
LEMMA CameraAndPrefill ==
  ASSUME CartTyped, [CartNext]_cartVars
  PROVE  camera' \in Cameras /\ prefill' \in Prefills
<1>1. camera \in Cameras /\ prefill \in Prefills /\ NoCamera \in Cameras /\ NoPrefill \in Prefills
  BY CartAssumption DEF CartTyped, Cameras, Prefills, NoCamera, Off
<1>2. \A s \in Skus : Seen(s) \in Off..MaxUnits
  BY SeenUnits, CartAssumption DEF Off
<1>3. ASSUME NEW l \in Lookups, NEW s \in Skus, LookupSku(l, s) \/ CameraScan(l, s)
      PROVE  camera' \in {camera, NoCamera} /\ prefill' = prefill
  BY <1>3 DEF LookupSku, CameraScan, Looked
<1>4. ASSUME NEW l \in Lookups, LookupFails(l) \/ \E d : LookupAdds(l, d) \/ LookupAsksManager(l, d)
      PROVE  UNCHANGED <<camera, prefill>>
  BY <1>4 DEF LookupFails, LookupAdds, LookupAsksManager
<1>5. ASSUME NEW a \in Approvals, ValidatePin(a) \/ PinAccepted(a) \/ PinRefused(a)
      PROVE  UNCHANGED <<camera, prefill>>
  BY <1>5 DEF ValidatePin, PinAccepted, PinRefused
<1>6. ASSUME CancelPin \/ ClearCart \/ UNCHANGED cartVars PROVE UNCHANGED <<camera, prefill>>
  BY <1>6 DEF CancelPin, ClearCart, cartVars
<1>7. ASSUME NEW s \in Skus, NEW n, NEW d, UpdateQty(s, n) \/ UpdateDiscount(s, d)
      PROVE  UNCHANGED <<camera, prefill>>
  BY <1>7 DEF UpdateQty, UpdateDiscount
<1>8. ASSUME StartCamera PROVE camera' \in Cameras /\ prefill' = prefill
  BY <1>2, <1>8 DEF StartCamera, Cameras
<1>9. ASSUME StopCamera \/ ReloadCart PROVE camera' = NoCamera /\ prefill' \in {prefill, NoPrefill}
  BY <1>9 DEF StopCamera, ReloadCart, PageLeft
<1>10. ASSUME NEW s \in Skus, NEW n \in 1..MaxUnits, LoadReservation(s, n)
       PROVE  camera' = NoCamera /\ prefill' \in Prefills
  BY <1>10 DEF LoadReservation, PageLeft, Prefills
<1>11. ASSUME PrefillAdds \/ PrefillLost PROVE camera' = camera /\ prefill' = NoPrefill
  BY <1>11 DEF PrefillAdds, PrefillLost
<1> HIDE DEF Cameras, Prefills
<1>12. QED
  BY <1>1, <1>3, <1>4, <1>5, <1>6, <1>7, <1>8, <1>9, <1>10, <1>11 DEF CartNext

\* A sequence of lines whose lines change.
LEMMA ChangedLines ==
  ASSUME NEW q \in Seq(Line), NEW r \in [DOMAIN q -> Line]
  PROVE  r \in Seq(Line) /\ Len(r) = Len(q)
<1>1. DOMAIN q = 1..Len(q) /\ Len(q) \in Nat
  OBVIOUS
<1>2. r \in [1..Len(q) -> Line]
  BY <1>1
<1>3. r \in Seq(Line)
  BY <1>1, <1>2, SeqDef
<1>4. Len(r) = Len(q)
  BY <1>1, <1>2, <1>3
<1>5. QED BY <1>3, <1>4

\* What a line becomes.
LEMMA LineUpdates ==
  ASSUME NEW line \in Line
  PROVE  /\ \A n \in 1..MaxUnits : /\ [line EXCEPT !.units = n] \in Line
                                   /\ [line EXCEPT !.units = n].units = n
         /\ \A d \in Discounts \cup {NoDiscount} :
              /\ [line EXCEPT !.discount = d] \in Line /\ Discounted(line, d) \in Line
              /\ [line EXCEPT !.discount = d].units = line.units
              /\ Discounted(line, d).units = line.units
BY DEF Line, Discounted

\* A unit more of a product that nothing disturbed.
LEMMA AddStep ==
  ASSUME CartTyped, NEW c \in Roomy, Add(c)
  PROVE  /\ lines' \in [Skus -> Seq(Line)] /\ rung' \in [Skus -> 0..MaxUnits]
         /\ \A s \in Skus \ {c.sku} : lines'[s] = lines[s] /\ rung'[s] = rung[s]
         /\ Matches(c.sku) /\ c.seen = rung[c.sku] => Matches(c.sku)'
<1> DEFINE s == c.sku
           q == lines[s]
<1>1. /\ s \in Skus /\ c.seen \in Nat /\ c.seen + 1 \in 1..MaxUnits
      /\ c.discount \in Discounts \cup {NoDiscount}
  BY RoomyChanges
<1>2. q \in Seq(Line) /\ rung[s] \in 0..MaxUnits
  BY <1>1 DEF CartTyped
<1>3. MaxUnits \in Nat /\ 1 \in 1..MaxUnits
  BY CartAssumption
<1>4. /\ rung' = [rung EXCEPT ![s] = IF @ < MaxUnits THEN @ + 1 ELSE @]
      /\ lines' = [lines EXCEPT ![s] = Added(c)]
  BY DEF Add
<1>5. rung' \in [Skus -> 0..MaxUnits] /\ rung'[s] = (IF rung[s] < MaxUnits THEN rung[s] + 1 ELSE rung[s])
  BY <1>1, <1>2, <1>3, <1>4 DEF CartTyped
<1>6. CASE c.seen > 0
  <2> DEFINE r == [k \in DOMAIN q |-> Discounted([q[k] EXCEPT !.units = c.seen + 1], c.discount)]
  <2>1. \A k \in DOMAIN q : /\ Discounted([q[k] EXCEPT !.units = c.seen + 1], c.discount) \in Line
                            /\ Discounted([q[k] EXCEPT !.units = c.seen + 1], c.discount).units = c.seen + 1
    <3> TAKE k \in DOMAIN q
    <3> DEFINE line == [q[k] EXCEPT !.units = c.seen + 1]
    <3>1. q[k] \in Line
      BY <1>2
    <3>2. line \in Line /\ line.units = c.seen + 1
      BY <1>1, <3>1, LineUpdates
    <3> HIDE DEF line
    <3>3. Discounted(line, c.discount) \in Line /\ Discounted(line, c.discount).units = c.seen + 1
      BY <1>1, <3>2, LineUpdates
    <3>4. QED BY <3>3 DEF line
  <2>2. r \in Seq(Line) /\ Len(r) = Len(q)
    BY <1>2, <2>1, ChangedLines
  <2>3. lines' \in [Skus -> Seq(Line)] /\ lines'[s] = r
    BY <1>1, <1>4, <1>6, <2>2 DEF CartTyped, Added
  <2>4. Matches(s) /\ c.seen = rung[s] => Matches(s)'
    <3> SUFFICES ASSUME Matches(s), c.seen = rung[s] PROVE Matches(s)'
      OBVIOUS
    <3>1. Len(q) = 1 /\ 1 \in DOMAIN q
      BY <1>2, <1>6 DEF Matches
    <3>2. r[1].units = c.seen + 1
      BY <2>1, <3>1
    <3>3. rung'[s] = c.seen + 1
      BY <1>1, <1>3, <1>5
    <3> HIDE DEF r
    <3>4. QED BY <1>1, <2>2, <2>3, <3>1, <3>2, <3>3 DEF Matches
  <2>5. QED BY <1>1, <1>4, <1>5, <2>3, <2>4 DEF CartTyped
<1>7. CASE c.seen = 0
  <2> DEFINE line == [units |-> 1, discount |-> c.discount]
  <2>1. line \in Line /\ line.units = 1
    BY <1>1, <1>3 DEF Line
  <2> HIDE DEF line
  <2>2. lines'[s] = Append(q, line)
    BY <1>1, <1>4, <1>7 DEF CartTyped, Added, line
  <2>3. Append(q, line) \in Seq(Line)
    BY <1>2, <2>1
  <2>4. lines' \in [Skus -> Seq(Line)]
    BY <1>1, <1>4, <2>2, <2>3 DEF CartTyped
  <2>5. Matches(s) /\ c.seen = rung[s] => Matches(s)'
    <3> SUFFICES ASSUME Matches(s), c.seen = rung[s] PROVE Matches(s)'
      OBVIOUS
    <3>1. q = <<>>
      BY <1>7 DEF Matches
    <3>2. Len(lines'[s]) = 1 /\ lines'[s][1] = line
      BY <2>1, <2>2, <3>1
    <3>3. rung'[s] = 1
      BY <1>3, <1>5, <1>7
    <3>4. QED BY <2>1, <3>2, <3>3 DEF Matches
  <2>6. QED BY <1>1, <1>4, <1>5, <2>4, <2>5 DEF CartTyped
<1>8. QED BY <1>1, <1>6, <1>7

LEMMA InitCart == CartInit => CartInv
<1> SUFFICES ASSUME CartInit PROVE CartInv
  OBVIOUS
<1>1. NoChange.sku \notin Skus /\ 0 \in 0..MaxUnits
  BY RoomyChanges, CartAssumption
<1>2. CartTyped
  BY <1>1, CartAssumption DEF CartInit, CartTyped, Cameras, Prefills, NoCamera, Off
<1>3. \A s \in Skus : Steady(s)
  BY <1>1 DEF CartInit, Steady, Matches, Current, Alone
<1>4. QED BY <1>2, <1>3 DEF CartInv

\* Every line of a product gets another discount, or another number of units.
LEMMA DiscountStep ==
  ASSUME CartTyped, NEW s \in Skus, NEW d \in Discounts \cup {NoDiscount}, UpdateDiscount(s, d)
  PROVE  lines' \in [Skus -> Seq(Line)] /\ \A t \in Skus : Matches(t) => Matches(t)'
<1> DEFINE q == lines[s]
           r == [k \in DOMAIN q |-> [q[k] EXCEPT !.discount = d]]
<1>1. q \in Seq(Line)
  BY DEF CartTyped
<1>2. \A k \in DOMAIN q : r[k] \in Line /\ r[k].units = q[k].units
  <2> TAKE k \in DOMAIN q
  <2>1. q[k] \in Line
    BY <1>1
  <2>2. [q[k] EXCEPT !.discount = d] \in Line /\ [q[k] EXCEPT !.discount = d].units = q[k].units
    BY <2>1, LineUpdates
  <2>3. QED BY <2>2
<1>3. r \in [DOMAIN q -> Line]
  BY <1>2
<1>4. r \in Seq(Line) /\ Len(r) = Len(q)
  BY <1>1, <1>3, ChangedLines
<1>5. /\ lines' \in [Skus -> Seq(Line)] /\ lines'[s] = r /\ rung' = rung
      /\ \A t \in Skus \ {s} : lines'[t] = lines[t]
  BY <1>4 DEF UpdateDiscount, CartTyped
<1>6. q # <<>>
  BY DEF UpdateDiscount
<1>7. Matches(s) => Matches(s)'
  <2> SUFFICES ASSUME Matches(s) PROVE Matches(s)'
    OBVIOUS
  <2>1. rung[s] # 0 /\ Len(q) = 1 /\ q[1].units = rung[s]
    BY <1>6 DEF Matches
  <2>2. 1 \in DOMAIN q
    BY <1>1, <2>1
  <2>3. r[1].units = rung[s]
    BY <1>2, <2>1, <2>2
  <2> HIDE DEF r
  <2>4. QED BY <1>4, <1>5, <2>1, <2>3 DEF Matches
<1> HIDE DEF r
<1>8. QED BY <1>5, <1>7 DEF Matches

LEMMA QtyStep ==
  ASSUME CartTyped, NEW s \in Skus, NEW n \in 0..MaxUnits, UpdateQty(s, n)
  PROVE  /\ lines' \in [Skus -> Seq(Line)] /\ rung' \in [Skus -> 0..MaxUnits]
         /\ \A t \in Skus \ {s} : lines'[t] = lines[t] /\ rung'[t] = rung[t]
         /\ Matches(s) => Matches(s)'
<1> DEFINE q == lines[s]
           r == [k \in DOMAIN q |-> [q[k] EXCEPT !.units = n]]
<1>1. q \in Seq(Line) /\ rung'[s] = n /\ rung' \in [Skus -> 0..MaxUnits]
      /\ \A t \in Skus \ {s} : rung'[t] = rung[t]
  BY DEF CartTyped, UpdateQty
<1>2. CASE n = 0
  <2>1. /\ lines' \in [Skus -> Seq(Line)] /\ lines'[s] = <<>>
        /\ \A t \in Skus \ {s} : lines'[t] = lines[t]
    BY <1>2 DEF CartTyped, UpdateQty
  <2>2. QED BY <1>1, <1>2, <2>1 DEF Matches
<1>3. CASE n # 0
  <2>1. n \in 1..MaxUnits
    BY <1>3, CartAssumption
  <2>2. \A k \in DOMAIN q : r[k] \in Line /\ r[k].units = n
    BY <1>1, <2>1, LineUpdates
  <2>3. r \in [DOMAIN q -> Line]
    BY <2>2
  <2>4. r \in Seq(Line) /\ Len(r) = Len(q)
    BY <1>1, <2>3, ChangedLines
  <2>5. /\ lines' \in [Skus -> Seq(Line)] /\ lines'[s] = r
        /\ \A t \in Skus \ {s} : lines'[t] = lines[t]
    BY <1>3, <2>4 DEF UpdateQty, CartTyped
  <2>6. q # <<>>
    BY DEF UpdateQty
  <2>7. Matches(s) => Matches(s)'
    <3> SUFFICES ASSUME Matches(s) PROVE Matches(s)'
      OBVIOUS
    <3>1. Len(q) = 1
      BY <2>6 DEF Matches
    <3>2. 1 \in DOMAIN q
      BY <1>1, <3>1
    <3>3. r[1].units = n
      BY <2>2, <3>2
    <3> HIDE DEF r
    <3>4. QED BY <1>1, <1>3, <2>4, <2>5, <3>1, <3>3 DEF Matches
  <2> HIDE DEF r
  <2>8. QED BY <1>1, <2>5, <2>7
<1>4. QED BY <1>2, <1>3

\* A step that ends some of the changes that wait for a product, and leaves the product alone.
LEMMA SomeEnd ==
  ASSUME NEW s \in Skus, Current(s), Alone(s), rung'[s] = rung[s],
         \A l \in Lookups : lookup'[l] \in {lookup[l], NoChange}, pending' \in {pending, NoChange},
         \A a \in Approvals : approval'[a] \in {approval[a], NoChange}
  PROVE  Current(s)' /\ Alone(s)'
<1>1. NoChange.sku # s
  BY RoomyChanges
<1>2. /\ \A l \in Lookups : lookup'[l].sku = s => lookup'[l] = lookup[l]
      /\ pending'.sku = s => pending' = pending
      /\ \A a \in Approvals : approval'[a].sku = s => approval'[a] = approval[a]
  BY <1>1
<1> HIDE DEF NoChange
<1>3. Current(s)'
  BY <1>2 DEF Current
<1>4. Alone(s)'
  BY <1>2 DEF Alone
<1>5. QED BY <1>3, <1>4

\* A product that nothing waits for.
Quiet(s) == /\ \A l \in Lookups : lookup[l].sku # s
            /\ pending.sku # s /\ \A a \in Approvals : approval[a].sku # s

LEMMA QuietIsSteady ==
  ASSUME NEW s
  PROVE  /\ Quiet(s) => Current(s) /\ Alone(s)
         /\ Quiet(s)' => Current(s)' /\ Alone(s)'
         /\ ~Waiting(s) <=> Quiet(s)
BY DEF Quiet, Current, Alone, Waiting

\* A change of product s that waited is applied: nothing waits for s any more.
LEMMA AppliedStep ==
  ASSUME CartTyped, NEW c \in Roomy, NEW d \in Discounts \cup {NoDiscount},
         Add([c EXCEPT !.discount = d]), jostled' = jostled,
         lookup' \in [Lookups -> Roomy \cup {NoChange}], pending' \in {pending, NoChange},
         approval' \in [Approvals -> Roomy \cup {NoChange}],
         \A l \in Lookups : lookup'[l] \in {lookup[l], NoChange},
         \A a \in Approvals : approval'[a] \in {approval[a], NoChange},
         c.sku \notin jostled => Matches(c.sku) /\ c.seen = rung[c.sku] /\ Quiet(c.sku)',
         \A s \in Skus \ jostled : Steady(s), camera' \in Cameras, prefill' \in Prefills
  PROVE  CartInv'
<1> DEFINE new == [c EXCEPT !.discount = d]
<1>1. new \in Roomy /\ new.sku = c.sku /\ new.seen = c.seen /\ c.sku \in Skus
  BY RoomyChanges
<1>2. Add(new)
  OBVIOUS
<1> HIDE DEF new
<1>3. /\ lines' \in [Skus -> Seq(Line)] /\ rung' \in [Skus -> 0..MaxUnits]
      /\ \A s \in Skus \ {new.sku} : lines'[s] = lines[s] /\ rung'[s] = rung[s]
      /\ (Matches(new.sku) /\ new.seen = rung[new.sku]) => Matches(new.sku)'
  BY <1>1, <1>2, AddStep
<1>4. CartTyped'
  BY <1>3 DEF CartTyped
<1>5. ASSUME NEW s \in Skus, s \notin jostled' PROVE Steady(s)'
  <2>1. CASE s = c.sku
    <3>1. Matches(s)'
      BY <1>1, <1>3, <1>5, <2>1
    <3>2. Quiet(s)'
      BY <1>5, <2>1
    <3>3. QED BY <3>1, <3>2, QuietIsSteady DEF Steady
  <2>2. CASE s # c.sku
    <3>1. lines'[s] = lines[s] /\ rung'[s] = rung[s]
      BY <1>1, <1>3, <2>2
    <3>2. Matches(s) /\ Current(s) /\ Alone(s)
      BY <1>5 DEF Steady
    <3>3. Matches(s)'
      BY <3>1, <3>2 DEF Matches
    <3>4. Current(s)' /\ Alone(s)'
      BY <3>1, <3>2, SomeEnd
    <3>5. QED BY <3>3, <3>4 DEF Steady
  <2>3. QED BY <2>1, <2>2
<1>6. QED BY <1>4, <1>5 DEF CartInv

LEMMA NextCart == CartInv /\ [CartNext]_cartVars => CartInv'
<1> SUFFICES ASSUME CartInv, [CartNext]_cartVars PROVE CartInv'
  OBVIOUS
<1>a. /\ CartTyped
      /\ lines \in [Skus -> Seq(Line)] /\ rung \in [Skus -> 0..MaxUnits]
  BY DEF CartInv, CartTyped
<1>b. /\ jostled \subseteq Skus
      /\ lookup \in [Lookups -> Roomy \cup {NoChange}] /\ pending \in Roomy \cup {NoChange}
      /\ approval \in [Approvals -> Roomy \cup {NoChange}]
  BY DEF CartInv, CartTyped
<1>c. \A s \in Skus \ jostled : Steady(s)
  BY DEF CartInv
<1>d. \A s \in Skus : s \notin jostled => Matches(s) /\ Current(s) /\ Alone(s)
  BY <1>c DEF Steady
<1>e. \A s \in Skus : NoChange.sku # s
  BY RoomyChanges
<1>f. camera' \in Cameras /\ prefill' \in Prefills
  BY <1>a, CameraAndPrefill
<1>q. ASSUME lines' \in [Skus -> Seq(Line)], rung' \in [Skus -> 0..MaxUnits], jostled' \subseteq Skus,
             lookup' \in [Lookups -> Roomy \cup {NoChange}], pending' \in Roomy \cup {NoChange},
             approval' \in [Approvals -> Roomy \cup {NoChange}],
             \A s \in Skus : s \notin jostled' => Matches(s)' /\ Current(s)' /\ Alone(s)'
      PROVE  CartInv'
  BY <1>f, <1>q DEF CartInv, CartTyped, Steady
\* What was seen is what is rung, as long as the lines are.
<1>n. \A s \in Skus : Matches(s) => Seen(s) = rung[s]
  BY DEF Matches, Seen
<1>m. UNCHANGED <<lines, rung>> => \A s \in Skus : Matches(s)' <=> Matches(s)
  BY DEF Matches
\* Steps that only end some of what waits.
<1>s. ASSUME UNCHANGED <<lines, rung, jostled>>,
             lookup' \in [Lookups -> Roomy \cup {NoChange}], approval' \in [Approvals -> Roomy \cup {NoChange}],
             \A l \in Lookups : lookup'[l] \in {lookup[l], NoChange}, pending' \in {pending, NoChange},
             \A a \in Approvals : approval'[a] \in {approval[a], NoChange}
      PROVE  CartInv'
  <2>1. \A s \in Skus : s \notin jostled' => Matches(s)' /\ Current(s)' /\ Alone(s)'
    BY <1>d, <1>m, <1>s, SomeEnd
  <2>2. QED BY <1>a, <1>b, <1>q, <1>s, <2>1
<1>1. ASSUME NEW l \in Lookups, NEW s \in Skus, NEW seen \in 0..MaxUnits, Looked(l, s, seen)
      PROVE  CartInv'
  <2> DEFINE new == [sku |-> s, seen |-> seen, discount |-> NoDiscount]
  <2>1. seen < MaxUnits
    BY <1>1 DEF Looked
  <2>2. new \in Roomy /\ new.sku = s /\ new.seen = seen
    BY <2>1 DEF Roomy, Change
  <2> HIDE DEF new
  <2>3. /\ UNCHANGED <<lines, pending, approval, rung>>
        /\ lookup' = [lookup EXCEPT ![l] = new]
        /\ jostled' = IF Waiting(s) \/ seen # Seen(s) THEN jostled \cup {s} ELSE jostled
    BY <1>1 DEF Looked, new
  <2>4. lookup'[l] = new /\ \A m \in Lookups \ {l} : lookup'[m] = lookup[m]
    BY <1>b, <2>3
  <2>5. jostled' \subseteq Skus /\ lookup' \in [Lookups -> Roomy \cup {NoChange}]
    BY <1>b, <2>2, <2>3
  <2>6. ASSUME NEW t \in Skus, t \notin jostled' PROVE Matches(t)' /\ Current(t)' /\ Alone(t)'
    <3>1. /\ t \notin jostled /\ Matches(t) /\ Current(t) /\ Alone(t)
          /\ t = s => Quiet(t) /\ seen = Seen(t)
      BY <1>d, <2>3, <2>6, QuietIsSteady
    <3>2. Matches(t)'
      BY <1>m, <2>3, <3>1
    <3>3. Current(t)'
      BY <1>n, <2>2, <2>3, <2>4, <3>1 DEF Current
    <3>4. Alone(t)'
      BY <2>2, <2>3, <2>4, <3>1 DEF Alone, Quiet
    <3>5. QED BY <3>2, <3>3, <3>4
  <2>7. QED BY <1>a, <1>b, <1>q, <2>3, <2>5, <2>6
<1>2. ASSUME NEW l \in Lookups, LookupFails(l) PROVE CartInv'
  <2>1. /\ UNCHANGED <<lines, pending, approval, rung, jostled>>
        /\ lookup' \in [Lookups -> Roomy \cup {NoChange}]
        /\ \A m \in Lookups : lookup'[m] \in {lookup[m], NoChange}
    BY <1>2, <1>b DEF LookupFails
  <2>2. QED BY <1>b, <1>s, <2>1
<1>3. ASSUME NEW l \in Lookups, NEW d \in Discounts \cup {NoDiscount}, LookupAdds(l, d) PROVE CartInv'
  <2>0. PICK c \in Roomy : c = lookup[l]
    BY <1>3, <1>b DEF LookupAdds
  <2>1. c.sku \in Skus
    BY RoomyChanges
  <2>2. /\ Add([c EXCEPT !.discount = d]) /\ UNCHANGED <<pending, approval, jostled>>
        /\ lookup' \in [Lookups -> Roomy \cup {NoChange}]
        /\ lookup'[l] = NoChange /\ \A m \in Lookups \ {l} : lookup'[m] = lookup[m]
    BY <1>3, <1>b, <2>0 DEF LookupAdds
  <2>3. ASSUME c.sku \notin jostled PROVE Matches(c.sku) /\ c.seen = rung[c.sku] /\ Quiet(c.sku)'
    <3>1. Matches(c.sku) /\ Current(c.sku) /\ Alone(c.sku)
      BY <1>d, <2>1, <2>3
    <3>2. Quiet(c.sku)'
      <4>1. c.sku # NoChange.sku
        BY <1>e, <2>1
      <4>2. QED BY <2>0, <2>2, <3>1, <4>1 DEF Alone, Quiet
    <3>3. QED BY <2>0, <3>1, <3>2 DEF Current
  <2>4. \A m \in Lookups : lookup'[m] \in {lookup[m], NoChange}
    BY <2>2
  <2>5. QED BY <1>a, <1>b, <1>c, <1>f, <2>1, <2>2, <2>3, <2>4, AppliedStep
<1>4. ASSUME NEW l \in Lookups, NEW d \in Discounts, LookupAsksManager(l, d) PROVE CartInv'
  <2>1. lookup[l] \in Roomy
    BY <1>4, <1>b DEF LookupAsksManager
  <2>2. /\ pending' = [lookup[l] EXCEPT !.discount = d]
        /\ UNCHANGED <<lines, approval, rung, jostled>>
        /\ lookup' \in [Lookups -> Roomy \cup {NoChange}]
        /\ lookup'[l] = NoChange /\ \A m \in Lookups \ {l} : lookup'[m] = lookup[m]
    BY <1>4, <1>b DEF LookupAsksManager
  <2>3. pending' \in Roomy /\ pending'.sku = lookup[l].sku /\ pending'.seen = lookup[l].seen
    BY <2>1, <2>2, RoomyChanges
  <2>4. ASSUME NEW t \in Skus, t \notin jostled' PROVE Matches(t)' /\ Current(t)' /\ Alone(t)'
    <3>1. Matches(t) /\ Current(t) /\ Alone(t) /\ NoChange.sku # t
      BY <1>d, <1>e, <2>2, <2>4
    <3>2. Matches(t)'
      BY <1>m, <2>2, <3>1
    <3>3. Current(t)'
      BY <2>2, <2>3, <3>1 DEF Current
    <3>4. Alone(t)'
      BY <2>2, <2>3, <3>1 DEF Alone
    <3>5. QED BY <3>2, <3>3, <3>4
  <2>5. QED BY <1>a, <1>b, <1>q, <2>2, <2>3, <2>4
<1>5. ASSUME NEW a \in Approvals, ValidatePin(a) PROVE CartInv'
  <2>1. /\ pending \in Roomy
        /\ UNCHANGED <<lines, lookup, pending, rung>>
        /\ approval' \in [Approvals -> Roomy \cup {NoChange}]
        /\ approval'[a] = pending /\ \A b \in Approvals \ {a} : approval'[b] = approval[b]
    BY <1>5, <1>b DEF ValidatePin
  <2>2. jostled' \subseteq Skus
    BY <1>5, <1>b, <2>1, RoomyChanges DEF ValidatePin
  <2>3. \A t : t \notin jostled' =>
          t \notin jostled /\ (t = pending.sku => \A b \in Approvals : approval[b].sku # pending.sku)
    BY <1>5 DEF ValidatePin
  <2>4. ASSUME NEW t \in Skus, t \notin jostled' PROVE Matches(t)' /\ Current(t)' /\ Alone(t)'
    <3>1. /\ Matches(t) /\ Current(t) /\ Alone(t)
          /\ t = pending.sku => \A b \in Approvals : approval[b].sku # t
      BY <1>d, <2>3, <2>4
    <3>2. Matches(t)'
      BY <1>m, <2>1, <3>1
    <3>3. Current(t)'
      BY <2>1, <3>1 DEF Current
    <3>4. Alone(t)'
      BY <2>1, <3>1 DEF Alone
    <3>5. QED BY <3>2, <3>3, <3>4
  <2>5. QED BY <1>a, <1>b, <1>q, <2>1, <2>2, <2>4
<1>6. ASSUME NEW a \in Approvals, PinAccepted(a) PROVE CartInv'
  <2>0. PICK c \in Roomy : c = approval[a]
    BY <1>6, <1>b DEF PinAccepted
  <2>1. c.sku \in Skus /\ c.discount \in Discounts \cup {NoDiscount}
    BY RoomyChanges
  <2>2. /\ Add(c) /\ UNCHANGED <<lookup, jostled>> /\ pending' = NoChange
        /\ approval' \in [Approvals -> Roomy \cup {NoChange}]
        /\ approval'[a] = NoChange /\ \A b \in Approvals \ {a} : approval'[b] = approval[b]
    BY <1>6, <1>b, <2>0 DEF PinAccepted
  <2>3. ASSUME c.sku \notin jostled PROVE Matches(c.sku) /\ c.seen = rung[c.sku] /\ Quiet(c.sku)'
    <3>1. Matches(c.sku) /\ Current(c.sku) /\ Alone(c.sku)
      BY <1>d, <2>1, <2>3
    <3>2. Quiet(c.sku)'
      <4>1. c.sku # NoChange.sku
        BY <1>e, <2>1
      <4>2. QED BY <2>0, <2>2, <3>1, <4>1 DEF Alone, Quiet
    <3>3. QED BY <2>0, <3>1, <3>2 DEF Current
  <2>4. \A b \in Approvals : approval'[b] \in {approval[b], NoChange}
    BY <2>2
  <2>5. [c EXCEPT !.discount = c.discount] = c
    BY DEF Roomy, Change
  <2>6. QED BY <1>a, <1>b, <1>c, <1>f, <2>1, <2>2, <2>3, <2>4, <2>5, AppliedStep
<1>7. ASSUME NEW a \in Approvals, PinRefused(a) PROVE CartInv'
  <2>1. /\ UNCHANGED <<lines, lookup, pending, rung, jostled>>
        /\ approval' \in [Approvals -> Roomy \cup {NoChange}]
        /\ \A b \in Approvals : approval'[b] \in {approval[b], NoChange}
    BY <1>7, <1>b DEF PinRefused
  <2>2. QED BY <1>b, <1>s, <2>1
<1>8. CASE CancelPin \/ ReloadCart
  <2>1. /\ UNCHANGED <<lines, rung, jostled>> /\ pending' = NoChange
        /\ lookup' \in [Lookups -> Roomy \cup {NoChange}]
        /\ \A l \in Lookups : lookup'[l] \in {lookup[l], NoChange}
        /\ approval' \in [Approvals -> Roomy \cup {NoChange}]
        /\ \A a \in Approvals : approval'[a] \in {approval[a], NoChange}
    BY <1>8, <1>b DEF CancelPin, ReloadCart, PageLeft
  <2>2. QED BY <1>s, <2>1
<1>9. ASSUME NEW s \in Skus, NEW n \in 0..MaxUnits, UpdateQty(s, n) PROVE CartInv'
  <2>1. /\ lines' \in [Skus -> Seq(Line)] /\ rung' \in [Skus -> 0..MaxUnits]
        /\ \A t \in Skus \ {s} : lines'[t] = lines[t] /\ rung'[t] = rung[t]
        /\ Matches(s) => Matches(s)'
    BY <1>9, <1>a, QtyStep
  <2>2. /\ UNCHANGED <<lookup, pending, approval>>
        /\ jostled' = IF Waiting(s) THEN jostled \cup {s} ELSE jostled
    BY <1>9 DEF UpdateQty, Edited
  <2>3. jostled' \subseteq Skus
    BY <1>b, <2>2
  <2>4. ASSUME NEW t \in Skus, t \notin jostled' PROVE Matches(t)' /\ Current(t)' /\ Alone(t)'
    <3>1. Matches(t) /\ Current(t) /\ Alone(t) /\ (t = s => Quiet(t))
      BY <1>d, <2>2, <2>4, QuietIsSteady
    <3>2. CASE t = s
      <4>1. Quiet(t)'
        BY <2>2, <3>1, <3>2 DEF Quiet
      <4>2. QED BY <2>1, <3>1, <3>2, <4>1, QuietIsSteady
    <3>3. CASE t # s
      <4>1. lines'[t] = lines[t] /\ rung'[t] = rung[t]
        BY <2>1, <3>3
      <4>2. Current(t)' /\ Alone(t)'
        BY <2>2, <3>1, <4>1, SomeEnd
      <4>3. QED BY <3>1, <4>1, <4>2 DEF Matches
    <3>4. QED BY <3>2, <3>3
  <2>5. QED BY <1>b, <1>q, <2>1, <2>2, <2>3, <2>4
<1>10. ASSUME NEW s \in Skus, NEW d \in Discounts \cup {NoDiscount}, UpdateDiscount(s, d) PROVE CartInv'
  <2>1. lines' \in [Skus -> Seq(Line)] /\ \A t \in Skus : Matches(t) => Matches(t)'
    BY <1>10, <1>a, DiscountStep
  <2>2. UNCHANGED <<lookup, pending, approval, rung, jostled>>
    BY <1>10 DEF UpdateDiscount
  <2>3. \A t \in Skus : t \notin jostled' => Matches(t)' /\ Current(t)' /\ Alone(t)'
    BY <1>d, <2>1, <2>2, SomeEnd
  <2>4. QED BY <1>a, <1>b, <1>q, <2>1, <2>2, <2>3
<1>11. CASE ClearCart
  <2>1. /\ lines' = [s \in Skus |-> <<>>] /\ rung' = [s \in Skus |-> 0]
        /\ jostled' = jostled \cup {s \in Skus : Waiting(s)}
        /\ UNCHANGED <<lookup, pending, approval>>
    BY <1>11 DEF ClearCart
  <2>2. lines' \in [Skus -> Seq(Line)] /\ rung' \in [Skus -> 0..MaxUnits] /\ jostled' \subseteq Skus
    BY <1>b, <2>1, CartAssumption
  <2>3. ASSUME NEW t \in Skus, t \notin jostled' PROVE Matches(t)' /\ Current(t)' /\ Alone(t)'
    <3>1. Quiet(t)
      BY <2>1, <2>3, QuietIsSteady
    <3>2. Quiet(t)'
      BY <2>1, <3>1 DEF Quiet
    <3>3. QED BY <2>1, <3>2, QuietIsSteady DEF Matches
  <2>4. QED BY <1>b, <1>q, <2>1, <2>2, <2>3
<1>12. CASE UNCHANGED cartVars
  BY <1>b, <1>s, <1>12 DEF cartVars
<1>13. ASSUME NEW l \in Lookups, NEW s \in Skus, LookupSku(l, s) \/ CameraScan(l, s) PROVE CartInv'
  <2>1. CASE LookupSku(l, s)
    BY <1>1, <1>a, <2>1, SeenUnits DEF LookupSku
  <2>2. CASE CameraScan(l, s)
    <3>1. camera[s] \in 0..MaxUnits
      BY <1>a, <2>2, CartAssumption DEF CameraScan, CartTyped, Cameras, Off
    <3>2. QED BY <1>1, <2>2, <3>1 DEF CameraScan
  <2>3. QED BY <1>13, <2>1, <2>2
<1>14. CASE StartCamera \/ StopCamera \/ PrefillLost
  BY <1>b, <1>s, <1>14 DEF StartCamera, StopCamera, PrefillLost
<1>15. ASSUME NEW s \in Skus, NEW n \in 1..MaxUnits, LoadReservation(s, n) PROVE CartInv'
  <2>1. /\ lines' = [t \in Skus |-> <<>>] /\ rung' = [t \in Skus |-> 0] /\ UNCHANGED jostled
        /\ lookup' = [l \in Lookups |-> NoChange] /\ pending' = NoChange
        /\ approval' = [a \in Approvals |-> NoChange]
    BY <1>15 DEF LoadReservation, PageLeft
  <2>2. lines' \in [Skus -> Seq(Line)] /\ rung' \in [Skus -> 0..MaxUnits]
    BY <2>1, CartAssumption
  <2>3. \A t \in Skus : Quiet(t)' /\ Matches(t)'
    BY <1>e, <2>1 DEF Quiet, Matches
  <2>4. QED BY <1>b, <1>q, <2>1, <2>2, <2>3, QuietIsSteady
<1>16. CASE PrefillAdds
  <2> DEFINE line == [units |-> prefill.units, discount |-> NoDiscount]
             sku == prefill.sku
  <2>1. prefill \in [sku : Skus, units : 1..MaxUnits]
    BY <1>a, <1>16 DEF CartTyped, Prefills, PrefillAdds
  <2>2. line \in Line /\ line.units = prefill.units /\ prefill.units \in 0..MaxUnits /\ prefill.units # 0
    BY <2>1, CartAssumption DEF Line
  <2>3. /\ lines' = [t \in Skus |-> IF t = sku THEN <<line>> ELSE <<>>]
        /\ rung' = [t \in Skus |-> IF t = sku THEN prefill.units ELSE 0]
        /\ jostled' = jostled \cup {t \in Skus : Waiting(t) \/ lines[t] # <<>>}
        /\ UNCHANGED <<lookup, pending, approval>>
    BY <1>16 DEF PrefillAdds
  <2> HIDE DEF line, sku
  <2>4. <<line>> \in Seq(Line) /\ Len(<<line>>) = 1 /\ <<line>>[1] = line
    BY <2>2, OneLine
  <2>5. lines' \in [Skus -> Seq(Line)] /\ rung' \in [Skus -> 0..MaxUnits] /\ jostled' \subseteq Skus
    BY <1>b, <2>2, <2>3, <2>4, CartAssumption
  <2>6. \A t \in Skus : Matches(t)'
    BY <2>2, <2>3, <2>4 DEF Matches
  <2>7. ASSUME NEW t \in Skus, t \notin jostled' PROVE Quiet(t)'
    <3>1. Quiet(t)
      BY <2>3, <2>7, QuietIsSteady
    <3>2. QED BY <2>3, <3>1 DEF Quiet
  <2>8. QED BY <1>b, <1>q, <2>3, <2>5, <2>6, <2>7, QuietIsSteady
<1>17. QED
  BY <1>2, <1>3, <1>4, <1>5, <1>6, <1>7, <1>8, <1>9, <1>10, <1>11, <1>12, <1>13, <1>14, <1>15, <1>16
     DEF CartNext

LEMMA CartIsTyped == CartInv => CartTypeOK
BY DEF CartInv, CartTyped, CartTypeOK, Roomy, Cameras, Prefills

\* CartIsWhatWasRung of Cart, for any products, prices, discounts and number of lookups: a product
\* has one line with the units rung up, unless its cart changed while a lookup of it or an
\* approval waited, or the camera was on, or a reservation was being loaded.
THEOREM CartStaysWhatWasRung == CartSpec => []CartIsWhatWasRung
<1>1. CartInv => CartIsWhatWasRung
  BY DEF CartInv, Steady, Matches, CartIsWhatWasRung
<1>2. QED BY <1>1, InitCart, NextCart, PTL DEF CartSpec

------------------------------------------------------------------------------
(* Totals: a sum of differences is the difference of the sums, on the      *)
(* lines of a product and then on the products.                            *)

\* d is what a is more than b.
Exceeds(d, a, b, S) ==
  IsFiniteSet(S) /\ \A x \in S : a[x] \in Int /\ b[x] \in Int /\ d[x] = a[x] - b[x]

LEMMA SumOfDifferences ==
  ASSUME NEW d, NEW a, NEW b, NEW S, Exceeds(d, a, b, S)
  PROVE  /\ SumFunctionOnSet(a, S) \in Int /\ SumFunctionOnSet(b, S) \in Int
         /\ SumFunctionOnSet(d, S) = SumFunctionOnSet(a, S) - SumFunctionOnSet(b, S)
<1>1. IsFiniteSet(S) /\ \A x \in S : a[x] \in Int /\ b[x] \in Int
  BY DEF Exceeds
<1>2. SumFunctionOnSet(a, S) \in Int /\ SumFunctionOnSet(b, S) \in Int
  BY <1>1, SumType
<1>3. \A x \in S : d[x] \in Int /\ b[x] \in Int /\ a[x] = d[x] + b[x]
  BY DEF Exceeds
<1>4. SumFunctionOnSet(a, S) = SumFunctionOnSet(d, S) + SumFunctionOnSet(b, S)
  BY <1>1, <1>3, SumOfSums
<1>5. SumFunctionOnSet(d, S) \in Int
  BY <1>1, <1>3, SumType
<1>6. QED BY <1>2, <1>4, <1>5

LEMMA Products == \A x, y \in Int : x * y \in Int
OBVIOUS

\* No discounted line has more than one unit.
Single == \A s \in Skus : \A k \in DOMAIN lines[s] :
            lines[s][k].units = 1 \/ lines[s][k].discount = NoDiscount

\* The parts of a line's total, in cents.
LEMMA LineTotals ==
  ASSUME CartTypeOK, NEW s \in Skus, NEW k \in DOMAIN lines[s]
  PROVE  /\ Gross(s, lines[s][k]) \in Int /\ LineDiscount(s, lines[s][k]) \in Int
         /\ Single => Charged(s, lines[s][k]) = Gross(s, lines[s][k]) - LineDiscount(s, lines[s][k])
<1> DEFINE line == lines[s][k]
           u == line.units
           price == Price[s]
<1>1. line \in Line
  <2>1. lines[s] \in Seq(Line)
    BY DEF CartTypeOK
  <2>2. QED BY <2>1, ElementOfSeq
<1>2. /\ u \in Int /\ price \in Int
      /\ line.discount \in [type : {"pct", "flat"}, value : Int] \cup {NoDiscount}
  BY <1>1, CartAssumption DEF Line
<1>3. line.discount.value \in Int
  BY <1>2 DEF NoDiscount
<1>4. Gross(s, line) = price * u /\ Gross(s, line) \in Int
  BY <1>2, Products DEF Gross
<1>5. LineDiscount(s, line) \in Int /\ (line.discount = NoDiscount => LineDiscount(s, line) = 0)
  <2>1. CASE line.discount = NoDiscount
    BY <2>1 DEF LineDiscount, NoDiscount
  <2>2. CASE line.discount # NoDiscount /\ line.discount.type = "pct"
    <3> DEFINE all == (price * u) * line.discount.value
    <3>1. LineDiscount(s, line) = (all + 5000) \div 10000
      BY <2>2 DEF LineDiscount
    <3>2. all \in Int
      BY <1>2, <1>3, Products
    <3> HIDE DEF all
    <3>3. (all + 5000) \div 10000 \in Int
      BY <3>2
    <3>4. QED BY <2>2, <3>1, <3>3
  <2>3. CASE line.discount # NoDiscount /\ line.discount.type = "flat"
    <3>1. LineDiscount(s, line) = Least(line.discount.value, price * u)
      BY <2>3 DEF LineDiscount
    <3>2. price * u \in Int
      BY <1>2, Products
    <3>3. QED BY <1>3, <2>3, <3>1, <3>2 DEF Least
  <2>4. line.discount = NoDiscount \/ line.discount.type \in {"pct", "flat"}
    BY <1>2
  <2>5. QED BY <2>1, <2>2, <2>3, <2>4
<1>6. ASSUME Single PROVE Charged(s, line) = Gross(s, line) - LineDiscount(s, line)
  <2>1. Charged(s, line) = (price - LineDiscount(s, line)) * u
    BY DEF Charged
  <2>2. u = 1 \/ LineDiscount(s, line) = 0
    BY <1>5, <1>6 DEF Single
  <2> HIDE DEF u, price, line
  <2>3. CASE u = 1
    BY <1>2, <1>4, <1>5, <2>1, <2>3
  <2>4. CASE LineDiscount(s, line) = 0
    BY <1>2, <1>4, <2>1, <2>4
  <2>5. QED BY <2>2, <2>3, <2>4
<1>7. QED BY <1>4, <1>5, <1>6

\* So is the total of the cart.
LEMMA CartTotals ==
  ASSUME CartTypeOK, Single
  PROVE  /\ OverLines(Gross) \in Int /\ OverLines(LineDiscount) \in Int
         /\ OverLines(Charged) = OverLines(Gross) - OverLines(LineDiscount)
<1> DEFINE gross(s) == [k \in DOMAIN lines[s] |-> Gross(s, lines[s][k])]
           less(s) == [k \in DOMAIN lines[s] |-> LineDiscount(s, lines[s][k])]
           due(s) == [k \in DOMAIN lines[s] |-> Charged(s, lines[s][k])]
           grosses == [s \in Skus |-> SumFunctionOnSet(gross(s), DOMAIN lines[s])]
           lesses == [s \in Skus |-> SumFunctionOnSet(less(s), DOMAIN lines[s])]
           dues == [s \in Skus |-> SumFunctionOnSet(due(s), DOMAIN lines[s])]
<1>1. ASSUME NEW s \in Skus
      PROVE  grosses[s] \in Int /\ lesses[s] \in Int /\ dues[s] = grosses[s] - lesses[s]
  <2> DEFINE a == gross(s)
             b == less(s)
             d == due(s)
             S == DOMAIN lines[s]
  <2>1. IsFiniteSet(S)
    <3>1. lines[s] \in Seq(Line)
      BY DEF CartTypeOK
    <3>2. S = 1..Len(lines[s]) /\ Len(lines[s]) \in Nat
      BY <3>1
    <3>3. QED BY <3>2, FS_Interval
  <2>2. Exceeds(d, a, b, S)
    BY <2>1, LineTotals DEF Exceeds
  <2> HIDE DEF a, b, d, S
  <2>3. /\ SumFunctionOnSet(a, S) \in Int /\ SumFunctionOnSet(b, S) \in Int
        /\ SumFunctionOnSet(d, S) = SumFunctionOnSet(a, S) - SumFunctionOnSet(b, S)
    BY <2>2, SumOfDifferences
  <2>4. QED BY <2>3 DEF a, b, d, S
<1>2. Exceeds(dues, grosses, lesses, Skus)
  BY <1>1, CartAssumption DEF Exceeds
<1>3. /\ OverLines(Gross) = SumFunctionOnSet(grosses, Skus)
      /\ OverLines(LineDiscount) = SumFunctionOnSet(lesses, Skus)
      /\ OverLines(Charged) = SumFunctionOnSet(dues, Skus)
  BY DEF OverLines
<1> HIDE DEF grosses, lesses, dues
<1>4. QED BY <1>2, <1>3, SumOfDifferences

\* Two roundings of one tax are equal, or a cent apart around half a cent.
LEMMA TwoRoundings ==
  ASSUME NEW t \in Int, NEW a \in Taxes(t), NEW b \in Taxes(t)
  PROVE  /\ a \in Int /\ b \in Int
         /\ a = b \/ (AtHalfCent(t) /\ a - b \in {-1, 1})
<1> DEFINE low == (5 * t + 49) \div 100
           high == (5 * t + 50) \div 100
<1>1. low \in Int /\ high \in Int
  OBVIOUS
<1>2. low = high \/ ((5 * t) % 100 = 50 /\ high = low + 1)
  OBVIOUS
<1>3. a \in {low, high} /\ b \in {low, high}
  BY DEF Taxes
<1> HIDE DEF low, high
<1>4. QED BY <1>1, <1>2, <1>3 DEF AtHalfCent

\* TotalsAgree of Cart, for any products, prices, discounts and redeemed points: the browser
\* caps the points at the subtotal and order-service does not, which the tax base, never
\* negative, cannot tell where no discount is; and each rounds the tax in its own way.
THEOREM TotalsStayAgreed == CartSpec => []TotalsAgree
<1>1. CartInv => CartTypeOK
  BY CartIsTyped
<1>2. CartTypeOK => TotalsAgree
  <2> SUFFICES ASSUME CartTypeOK, Single, NEW p \in Redemptions, NEW off \in OrderDiscounts,
                      p <= OverLines(Gross) \/ OverLines(LineDiscount) + off >= 0,
                      NEW shown \in ScreenTotals(p, off), NEW charged \in OrderTotals(p, off)
               PROVE  shown = charged \/ (AtHalfCent(ScreenTaxable(p, off)) /\ shown - charged \in {-1, 1})
    BY DEF TotalsAgree, Single
  <2> DEFINE g == OverLines(Gross)
             l == OverLines(LineDiscount)
             c == OverLines(Charged)
             stored == NonNegative(c - off - p)
             base == ScreenTaxable(p, off)
  <2>1. g \in Int /\ l \in Int /\ c = g - l
    BY CartTotals
  <2>2. p \in Int /\ off \in Int
    BY CartAssumption
  <2>3. base = NonNegative(g - l - off - Least(p, g))
    BY DEF ScreenTaxable
  <2>4. PICK a \in Taxes(base) : shown = base + a
    BY DEF ScreenTotals
  <2>5. PICK b \in Taxes(stored) : charged = stored + b
    BY DEF OrderTotals
  <2>6. p <= g \/ l + off >= 0
    OBVIOUS
  <2> HIDE DEF g, l, c, base
  <2>7. stored = base /\ base \in Int
    BY <2>1, <2>2, <2>3, <2>6 DEF NonNegative, Least
  <2> HIDE DEF stored
  <2>8. a \in Int /\ b \in Int /\ (a = b \/ (AtHalfCent(base) /\ a - b \in {-1, 1}))
    BY <2>5, <2>7, TwoRoundings
  <2>9. QED BY <2>4, <2>5, <2>7, <2>8 DEF base
<1>3. QED BY <1>1, <1>2, InitCart, NextCart, PTL DEF CartSpec

------------------------------------------------------------------------------
(* Checkout: types.                                                        *)

Steps == {"unused", "queue", "create", "complete", "done", "queued", "failed"}
Kinds == {"none", "PENDING", "COMPLETED", "QUEUED"}
Row == [status : {"ACTIVE", "EXPIRED", "CANCELLED", "CONVERTED"}, order : Presses \cup {None}]

LEMMA PressTypes ==
  ASSUME NEW x \in Press
  PROVE  /\ x.step \in Steps /\ x.sale \in Sales \cup {None} /\ x.left \in BOOLEAN
         /\ x.converts \in Reservations \cup {None}
         /\ \A step \in Steps : [x EXCEPT !.step = step] \in Press
         /\ \A step \in Steps, s \in Sales : [x EXCEPT !.sale = s, !.step = step] \in Press
         /\ \A step \in Steps, r \in Reservations \cup {None} : [x EXCEPT !.step = step, !.converts = r] \in Press
         /\ \A r \in Reservations \cup {None} : [x EXCEPT !.left = TRUE, !.converts = r] \in Press
         /\ \A step \in Steps : [x EXCEPT !.step = step, !.left = TRUE] \in Press
BY DEF Press, Steps

PageTyped ==
  /\ open \in BOOLEAN /\ cart \in Sales \cup {None} /\ saved \in Sales \cup {None}
  /\ screen \in Presses \cup {None}
  /\ linked \in Reservations \cup {None} /\ filling \in Reservations \cup {None}
PressTyped == press \in [Presses -> Press] /\ recorded \in [Presses -> Kinds]
RowTyped ==
  /\ reservation \in [Reservations -> Row] /\ listed \subseteq Reservations
  /\ sending \subseteq Reservations \X Presses
  /\ loads \in [Reservations -> 0..MaxLoads] /\ strayed \subseteq Reservations /\ revived \subseteq Sales

LEMMA CheckoutTypes == CheckoutTypeOK <=> PageTyped /\ PressTyped /\ RowTyped
BY DEF CheckoutTypeOK, PageTyped, PressTyped, RowTyped, Kinds, Row

------------------------------------------------------------------------------
(* What each kind of step does to the presses.                             *)

Clean(p) == Running(p) /\ ~press[p].left

\* The page that pressed is the page of now, and it waits for one press.
PageWaits == /\ \A p, q \in Presses : Clean(p) /\ Clean(q) => p = q
             /\ ~open => \A p \in Presses : ~Clean(p)

\* A press goes on to another step.
LEMMA StepPress ==
  ASSUME PressTyped, NEW p \in Presses, NEW step \in Steps, press' = [press EXCEPT ![p].step = step]
  PROVE  /\ press' \in [Presses -> Press]
         /\ press'[p].step = step /\ press'[p].sale = press[p].sale /\ press'[p].left = press[p].left
         /\ press'[p].converts = press[p].converts
         /\ \A q \in Presses \ {p} : press'[q] = press[q]
<1>1. press \in [Presses -> Press] /\ [press[p] EXCEPT !.step = step] \in Press
  BY PressTypes DEF PressTyped
<1>2. QED BY <1>1 DEF Press

LEMMA CheckoutStep ==
  ASSUME CheckoutTypeOK, NEW p \in Presses, NEW step \in {"create", "queue"}, Checkout(p, step)
  PROVE  /\ PressTyped' /\ cart \in Sales /\ open /\ screen = None
         /\ press'[p].step = step /\ press'[p].sale = cart /\ ~press'[p].left
         /\ press[p].step = "unused" /\ press'[p].converts = None
         /\ \A q \in Presses \ {p} : press'[q] = press[q]
         /\ \A q \in Presses : ~Clean(q)
<1>1. PageTyped /\ PressTyped
  BY CheckoutTypes
<1>2. press[p] = NoPress /\ cart \in Sales /\ NoPress \in Press
  BY <1>1 DEF Checkout, PageTyped, PressTyped
<1>3. [NoPress EXCEPT !.sale = cart, !.step = step] \in Press
  BY <1>2, PressTypes DEF Steps
<1>4. press' = [press EXCEPT ![p] = [NoPress EXCEPT !.sale = cart, !.step = step]] /\ recorded' = recorded
  BY <1>1, <1>2 DEF Checkout, PressTyped
<1>5. press'[p] = [NoPress EXCEPT !.sale = cart, !.step = step]
      /\ \A q \in Presses \ {p} : press'[q] = press[q]
  BY <1>1, <1>4 DEF PressTyped
<1>6. PressTyped'
  BY <1>1, <1>3, <1>4 DEF PressTyped
<1>7. /\ press'[p].step = step /\ press'[p].sale = cart /\ press'[p].left = FALSE
      /\ press'[p].converts = None
  BY <1>5 DEF NoPress
<1>8. press[p].step = "unused"
  BY <1>2 DEF NoPress
<1>9. open /\ screen = None /\ \A q \in Presses : ~Clean(q)
  BY DEF Checkout, Clean
<1>10. QED BY <1>2, <1>5, <1>6, <1>7, <1>8, <1>9

LEMMA EnqueuedStep ==
  ASSUME CheckoutTypeOK, NEW p \in Presses, Enqueued(p)
  PROVE  /\ PressTyped' /\ press[p].step = "queue" /\ press'[p].step = "queued"
         /\ press'[p].sale = press[p].sale /\ press'[p].left = press[p].left
         /\ press'[p].converts = press[p].converts
         /\ \A q \in Presses \ {p} : press'[q] = press[q] /\ recorded'[q] = recorded[q]
<1>1. PressTyped
  BY CheckoutTypes
<1>2. QED BY <1>1, StepPress DEF Enqueued, Steps, PressTyped, Kinds

LEMMA OrderCreatedStep ==
  ASSUME CheckoutTypeOK, NEW p \in Presses, OrderCreated(p)
  PROVE  /\ PressTyped' /\ press[p].step = "create" /\ press'[p].step = "complete"
         /\ press'[p].sale = press[p].sale /\ press'[p].left = press[p].left
         /\ press'[p].converts = press[p].converts /\ recorded'[p] = "PENDING"
         /\ \A q \in Presses \ {p} : press'[q] = press[q] /\ recorded'[q] = recorded[q]
<1>1. PressTyped
  BY CheckoutTypes
<1>2. QED BY <1>1, StepPress DEF OrderCreated, Steps, PressTyped, Kinds

LEMMA CompletedStep ==
  ASSUME CheckoutTypeOK, NEW p \in Presses, Completed(p)
  PROVE  /\ PressTyped' /\ press[p].step = "complete" /\ press'[p].step = "done"
         /\ press'[p].sale = press[p].sale /\ press'[p].left = press[p].left
         /\ press'[p].converts = Converts(p) /\ Converts(p) \in Reservations \cup {None}
         /\ recorded'[p] = "COMPLETED"
         /\ \A q \in Presses \ {p} : press'[q] = press[q] /\ recorded'[q] = recorded[q]
<1>1. PressTyped /\ PageTyped
  BY CheckoutTypes
<1>2. press[p] \in Press /\ Converts(p) \in Reservations \cup {None}
  BY <1>1, PressTypes DEF PressTyped, PageTyped, Converts
<1>3. [press[p] EXCEPT !.step = "done", !.converts = Converts(p)] \in Press
  BY <1>2, PressTypes DEF Steps
<1>4. press' = [press EXCEPT ![p] = [press[p] EXCEPT !.step = "done", !.converts = Converts(p)]]
  BY <1>1 DEF Completed, PressTyped
<1>5. PressTyped'
  BY <1>1, <1>3, <1>4 DEF PressTyped, Completed, Kinds
<1>6. press'[p] = [press[p] EXCEPT !.step = "done", !.converts = Converts(p)]
      /\ \A q \in Presses \ {p} : press'[q] = press[q]
  BY <1>1, <1>4 DEF PressTyped
<1>7. QED BY <1>1, <1>2, <1>5, <1>6 DEF Completed, PressTyped, Press

LEMMA ResultType == \A p \in Presses : Running(p) => Result(p) \in Kinds
BY DEF Running, Result, Kinds

LEMMA FailedStep ==
  ASSUME CheckoutTypeOK, NEW p \in Presses, Failed(p)
  PROVE  /\ PressTyped' /\ Running(p) /\ press'[p].step = "failed"
         /\ press'[p].sale = press[p].sale /\ press'[p].left = press[p].left
         /\ press'[p].converts = press[p].converts
         /\ \A q \in Presses \ {p} : press'[q] = press[q] /\ recorded'[q] = recorded[q]
<1>1. PressTyped /\ Running(p)
  BY CheckoutTypes DEF Failed, Running
<1>2. recorded' \in [Presses -> Kinds] /\ \A q \in Presses \ {p} : recorded'[q] = recorded[q]
  BY <1>1, ResultType DEF Failed, PressTyped
<1>3. QED BY <1>1, <1>2, StepPress DEF Failed, Steps, PressTyped

LEMMA ReloadStep ==
  ASSUME CheckoutTypeOK, Reload
  PROVE  /\ PressTyped'
         /\ \A q \in Presses : /\ Running(q) => press'[q].step = "failed" /\ press'[q].sale = press[q].sale
                               /\ ~Running(q) => press'[q] = press[q] /\ recorded'[q] = recorded[q]
<1>1. PressTyped
  BY CheckoutTypes
<1>2. \A q \in Presses : [press[q] EXCEPT !.step = "failed", !.left = TRUE] \in Press
  BY <1>1, PressTypes DEF PressTyped, Steps
<1>3. press' \in [Presses -> Press]
  BY <1>1, <1>2 DEF Reload, PressTyped
<1>4. /\ recorded' \in [Presses -> Kinds]
      /\ \A q \in Presses : ~Running(q) => recorded'[q] = recorded[q]
  <2>1. PICK P \in SUBSET {q \in Presses : Running(q)} :
          recorded' = [q \in Presses |-> IF q \in P THEN Result(q) ELSE recorded[q]]
    BY DEF Reload
  <2>2. QED BY <1>1, <2>1, ResultType DEF PressTyped
<1>5. \A q \in Presses : press'[q] = IF Running(q) THEN [press[q] EXCEPT !.step = "failed", !.left = TRUE]
                                     ELSE press[q]
  BY DEF Reload
<1>6. QED BY <1>1, <1>3, <1>4, <1>5 DEF PressTyped, Press

LEMMA LeaveStep ==
  ASSUME CheckoutTypeOK, LeavePage
  PROVE  /\ PressTyped'
         /\ \A q \in Presses : /\ press'[q].step = press[q].step /\ press'[q].sale = press[q].sale
                               /\ Clean(q) => press'[q].left /\ press'[q].converts = linked
                               /\ ~Clean(q) => press'[q] = press[q]
<1>1. PressTyped /\ PageTyped
  BY CheckoutTypes
<1>2. \A q \in Presses : [press[q] EXCEPT !.left = TRUE, !.converts = linked] \in Press
  BY <1>1, PressTypes DEF PressTyped, PageTyped
<1>3. \A q \in Presses : press'[q] = IF Clean(q) THEN [press[q] EXCEPT !.left = TRUE, !.converts = linked]
                                     ELSE press[q]
  BY DEF LeavePage, Clean
<1>4. press' \in [Presses -> Press]
  BY <1>1, <1>2 DEF LeavePage, PressTyped
<1>5. ASSUME NEW x \in Press
      PROVE  /\ [x EXCEPT !.left = TRUE, !.converts = linked].step = x.step
             /\ [x EXCEPT !.left = TRUE, !.converts = linked].sale = x.sale
             /\ [x EXCEPT !.left = TRUE, !.converts = linked].left = TRUE
             /\ [x EXCEPT !.left = TRUE, !.converts = linked].converts = linked
  BY DEF Press
<1>6. \A q \in Presses : press[q] \in Press
  BY <1>1 DEF PressTyped
<1>7. recorded' = recorded
  BY DEF LeavePage
<1>8. PressTyped'
  BY <1>1, <1>4, <1>7 DEF PressTyped
<1>9. ASSUME NEW q \in Presses
      PROVE  /\ press'[q].step = press[q].step /\ press'[q].sale = press[q].sale
             /\ Clean(q) => press'[q].left /\ press'[q].converts = linked
             /\ ~Clean(q) => press'[q] = press[q]
  BY <1>3, <1>5, <1>6
<1>10. QED BY <1>8, <1>9

\* The other steps leave the presses alone.
Elsewhere ==
  \/ \E s \in WalkIns : RingUp(s)
  \/ EditCart \/ ClearSale \/ Unlink \/ OpenPage \/ PrefillLoads \/ PrefillFails \/ ListReservations
  \/ \E r \in Reservations : \/ Prefill(r) \/ CancelReservation(r)
                             \/ \E p \in Presses : ConvertReservationToOrder(r, p) \/ ConversionLost(r, p)
  \/ UNCHANGED checkoutVars

LEMMA ElsewhereStep == Elsewhere => UNCHANGED <<press, recorded>>
BY DEF Elsewhere, RingUp, EditCart, ClearSale, Unlink, OpenPage, PrefillLoads, PrefillFails,
       ListReservations, Prefill, CancelReservation, ConvertReservationToOrder, ConversionLost,
       checkoutVars

LEMMA StepKinds ==
  [CheckoutNext]_checkoutVars <=>
    \/ Elsewhere \/ LeavePage \/ Reload
    \/ \E p \in Presses : \/ \E step \in {"create", "queue"} : Checkout(p, step)
                          \/ Enqueued(p) \/ OrderCreated(p) \/ Completed(p) \/ Failed(p)
BY DEF CheckoutNext, Elsewhere

LEMMA NextCheckoutType == CheckoutTypeOK /\ [CheckoutNext]_checkoutVars => CheckoutTypeOK'
<1> SUFFICES ASSUME CheckoutTypeOK, [CheckoutNext]_checkoutVars PROVE CheckoutTypeOK'
  OBVIOUS
<1>1. PageTyped /\ PressTyped /\ RowTyped
  BY CheckoutTypes
<1>2. PressTyped'
  <2>1. CASE Elsewhere
    BY <1>1, <2>1, ElsewhereStep DEF PressTyped
  <2>2. QED BY <2>1, StepKinds, LeaveStep, ReloadStep, CheckoutStep, EnqueuedStep, OrderCreatedStep,
               CompletedStep, FailedStep
<1>3. PageTyped'
  <2>1. CASE Elsewhere
    BY <1>1, <2>1 DEF PageTyped, Elsewhere, RingUp, EditCart, ClearSale, Unlink, OpenPage, PrefillLoads,
       PrefillFails, ListReservations, Prefill, CancelReservation, ConvertReservationToOrder, ConversionLost,
       checkoutVars, pageVars, Sales
  <2>2. CASE LeavePage \/ Reload
    BY <1>1, <2>2 DEF PageTyped, LeavePage, Reload
  <2>3. ASSUME NEW p \in Presses,
               \/ \E step \in {"create", "queue"} : Checkout(p, step)
               \/ Enqueued(p) \/ OrderCreated(p) \/ Completed(p) \/ Failed(p)
        PROVE  PageTyped'
    BY <1>1, <2>3 DEF PageTyped, Checkout, Enqueued, OrderCreated, Completed, Failed, pageVars
  <2>4. QED BY <2>1, <2>2, <2>3, StepKinds
<1>4. RowTyped'
  <2>1. CASE ListReservations
    <3>1. PICK overdue \in SUBSET {r \in Reservations : reservation[r].status = "ACTIVE"} :
            reservation' = [r \in Reservations |->
                              IF r \in overdue THEN [reservation[r] EXCEPT !.status = "EXPIRED"]
                              ELSE reservation[r]]
      BY <2>1 DEF ListReservations
    <3>2. reservation' \in [Reservations -> Row]
      BY <1>1, <3>1 DEF RowTyped, Row
    <3>3. QED BY <1>1, <2>1, <3>2 DEF RowTyped, ListReservations, ghostVars
  <2>2. ASSUME NEW r \in Reservations, NEW p \in Presses,
               ConvertReservationToOrder(r, p) \/ ConversionLost(r, p)
        PROVE  RowTyped'
    BY <1>1, <2>2 DEF RowTyped, ConvertReservationToOrder, ConversionLost, Row, ghostVars
  <2>a. ASSUME NEW r \in Reservations, CancelReservation(r) PROVE RowTyped'
    BY <1>1, <2>a DEF RowTyped, CancelReservation, Row, ghostVars
  <2>3. ASSUME NEW r \in Reservations, Prefill(r) PROVE RowTyped'
    BY <1>1, <2>3, CheckoutAssumption DEF RowTyped, Prefill, rowVars
  <2>4. CASE \/ \E s \in WalkIns : RingUp(s)
             \/ EditCart \/ PrefillLoads
    BY <1>1, <2>4 DEF RowTyped, PageTyped, RingUp, EditCart, PrefillLoads, rowVars, Sales
  <2>5. CASE \/ ClearSale \/ Unlink \/ OpenPage \/ PrefillFails \/ LeavePage \/ Reload \/ UNCHANGED checkoutVars
    BY <1>1, <2>5 DEF RowTyped, ClearSale, Unlink, OpenPage, PrefillFails, LeavePage, Reload,
                      checkoutVars, rowVars, ghostVars
  <2>6. ASSUME NEW p \in Presses,
               \/ \E step \in {"create", "queue"} : Checkout(p, step)
               \/ Enqueued(p) \/ OrderCreated(p) \/ Failed(p)
        PROVE  RowTyped'
    BY <1>1, <2>6 DEF RowTyped, Checkout, Enqueued, OrderCreated, Failed, rowVars, ghostVars
  <2>7. ASSUME NEW p \in Presses, Completed(p) PROVE RowTyped'
    <3>1. Converts(p) \in Reservations \cup {None}
      BY <2>7, CompletedStep
    <3>2. QED BY <1>1, <2>7, <3>1 DEF RowTyped, Completed, ghostVars
  <2>8. CASE Elsewhere
    BY <2>1, <2>2, <2>a, <2>3, <2>4, <2>5, <2>8 DEF Elsewhere
  <2>9. ASSUME NEW p \in Presses,
               \/ \E step \in {"create", "queue"} : Checkout(p, step)
               \/ Enqueued(p) \/ OrderCreated(p) \/ Completed(p) \/ Failed(p)
        PROVE  RowTyped'
    BY <2>6, <2>7, <2>9
  <2>10. LeavePage \/ Reload => RowTyped'
    BY <2>5
  <2>11. QED BY <2>8, <2>9, <2>10, StepKinds
<1>5. QED BY <1>2, <1>3, <1>4 DEF CheckoutTypeOK, PageTyped, PressTyped, RowTyped, Kinds, Row

------------------------------------------------------------------------------
(* Checkout: the page waits for one press, and what is recorded was sent.  *)

SentIsRecorded ==
  \A p \in Presses : press[p].step \in {"unused", "queue", "create", "complete"} =>
                       recorded[p] \notin {"COMPLETED", "QUEUED"}

PressInv == CheckoutTypeOK /\ PageWaits /\ SentIsRecorded

LEMMA NextPress == PressInv /\ [CheckoutNext]_checkoutVars => PressInv'
<1> SUFFICES ASSUME PressInv, [CheckoutNext]_checkoutVars PROVE PressInv'
  OBVIOUS
<1>0. CheckoutTypeOK /\ PageWaits /\ SentIsRecorded
  BY DEF PressInv
<1>t. CheckoutTypeOK'
  BY <1>0, NextCheckoutType
<1>q. ASSUME PageWaits', SentIsRecorded' PROVE PressInv'
  BY <1>q, <1>t DEF PressInv
<1>1. CASE Elsewhere
  <2>1. press' = press /\ recorded' = recorded
    BY <1>1, ElsewhereStep
  <2>2. ~open' => ~open
    BY <1>1 DEF Elsewhere, RingUp, EditCart, ClearSale, Unlink, OpenPage, PrefillLoads, PrefillFails,
       ListReservations, Prefill, CancelReservation, ConvertReservationToOrder, ConversionLost,
       checkoutVars, pageVars
  <2>3. PageWaits' /\ SentIsRecorded'
    BY <1>0, <2>1, <2>2 DEF PageWaits, Clean, Running, SentIsRecorded
  <2>4. QED BY <1>q, <2>3
<1>2. CASE LeavePage
  <2>1. \A p \in Presses : ~Clean(p)' /\ press'[p].step = press[p].step
    BY <1>0, <1>2, LeaveStep DEF Clean, Running
  <2>2. recorded' = recorded
    BY <1>2 DEF LeavePage
  <2>3. PageWaits' /\ SentIsRecorded'
    BY <1>0, <2>1, <2>2 DEF PageWaits, SentIsRecorded
  <2>4. QED BY <1>q, <2>3
<1>3. CASE Reload
  <2>1. \A p \in Presses : ~Running(p)'
    BY <1>0, <1>3, ReloadStep DEF Running
  <2>2. SentIsRecorded'
    BY <1>0, <1>3, ReloadStep DEF SentIsRecorded
  <2>3. PageWaits'
    BY <2>1 DEF PageWaits, Clean
  <2>4. QED BY <1>q, <2>2, <2>3
<1>4. ASSUME NEW p \in Presses, NEW step \in {"create", "queue"}, Checkout(p, step) PROVE PressInv'
  <2>1. /\ open' = open /\ open /\ recorded' = recorded
        /\ press'[p].step = step /\ press[p].step = "unused"
        /\ \A q \in Presses \ {p} : press'[q] = press[q]
        /\ \A q \in Presses : ~Clean(q)
    BY <1>0, <1>4, CheckoutStep DEF Checkout, pageVars
  <2>2. \A q \in Presses \ {p} : ~Clean(q)'
    BY <2>1 DEF Clean, Running
  <2>3. PageWaits' /\ SentIsRecorded'
    BY <1>0, <2>1, <2>2 DEF PageWaits, SentIsRecorded
  <2>4. QED BY <1>q, <2>3
<1>5. ASSUME NEW p \in Presses, Enqueued(p) \/ OrderCreated(p) \/ Completed(p) \/ Failed(p) PROVE PressInv'
  <2>1. /\ open' = open /\ Running(p) /\ press'[p].left = press[p].left
        /\ \A q \in Presses \ {p} : press'[q] = press[q] /\ recorded'[q] = recorded[q]
        /\ \/ press'[p].step \in {"queued", "done", "failed"}
           \/ press'[p].step = "complete" /\ recorded'[p] = "PENDING"
    BY <1>0, <1>5, EnqueuedStep, OrderCreatedStep, CompletedStep, FailedStep
       DEF Enqueued, OrderCreated, Completed, Failed, Running, pageVars
  <2>2. \A q \in Presses : Clean(q)' => Clean(q)
    BY <2>1 DEF Clean, Running
  <2>3. PageWaits'
    BY <1>0, <2>1, <2>2 DEF PageWaits
  <2>4. SentIsRecorded'
    BY <1>0, <2>1 DEF SentIsRecorded
  <2>5. QED BY <1>q, <2>3, <2>4
<1>6. QED BY <1>1, <1>2, <1>3, <1>4, <1>5, StepKinds

------------------------------------------------------------------------------
(* Checkout: what a conversion names.                                      *)

\* Press p is the completed sale of reservation r, or a walk-in was rung up while r was linked.
IsSaleOf(p, r) == press[p].sale = r \/ r \in strayed
Settles(p, r) == press[p].step = "done" /\ recorded[p] = "COMPLETED" /\ IsSaleOf(p, r)

FillsLinked == filling # None /\ linked # None => filling = linked
LinkedIsSale ==
  \A r \in Reservations \ strayed :
    linked = r => /\ cart \in {None, r}
                  /\ \A p \in Presses : Clean(p) => press[p].sale = r
LeftIsSale ==
  \A p \in Presses, r \in Reservations :
    Running(p) /\ press[p].left /\ press[p].converts = r => IsSaleOf(p, r)
SentIsSettled ==
  \A r \in Reservations, p \in Presses :
    <<r, p>> \in sending \/ reservation[r].order = p => Settles(p, r)

Linked == FillsLinked /\ LinkedIsSale /\ LeftIsSale /\ SentIsSettled

LEMMA NextLinked == PressInv /\ Linked /\ [CheckoutNext]_checkoutVars => Linked'
<1> SUFFICES ASSUME PressInv, Linked, [CheckoutNext]_checkoutVars PROVE Linked'
  OBVIOUS
<1>0. CheckoutTypeOK /\ PageWaits /\ PageTyped /\ PressTyped /\ RowTyped
  BY CheckoutTypes DEF PressInv
<1>n. \A r \in Reservations : r # None
  BY CheckoutAssumption
<1>1. CASE Elsewhere
  <2>1. press' = press /\ recorded' = recorded
    BY <1>1, ElsewhereStep
  <2>2. \A r : r \in strayed => r \in strayed'
    BY <1>1 DEF Elsewhere, RingUp, EditCart, ClearSale, Unlink, OpenPage, PrefillLoads, PrefillFails,
       ListReservations, Prefill, CancelReservation, ConvertReservationToOrder, ConversionLost,
       checkoutVars, ghostVars
  <2>3. \A p \in Presses : /\ (Clean(p)' <=> Clean(p)) /\ (Running(p)' <=> Running(p))
                           /\ \A r : /\ IsSaleOf(p, r) => IsSaleOf(p, r)'
                                     /\ Settles(p, r) => Settles(p, r)'
    BY <2>1, <2>2 DEF Clean, Running, IsSaleOf, Settles
  <2>4. LeftIsSale'
    BY <2>1, <2>3 DEF Linked, LeftIsSale
  <2>5. SentIsSettled'
    <3>1. ASSUME NEW r \in Reservations, NEW p \in Presses,
                 <<r, p>> \in sending' \/ reservation'[r].order = p
          PROVE  <<r, p>> \in sending \/ reservation[r].order = p
      <4>1. CASE ListReservations
        <5>1. PICK overdue \in SUBSET {x \in Reservations : reservation[x].status = "ACTIVE"} :
                reservation' = [x \in Reservations |->
                                  IF x \in overdue THEN [reservation[x] EXCEPT !.status = "EXPIRED"]
                                  ELSE reservation[x]]
          BY <4>1 DEF ListReservations
        <5>2. reservation'[r].order = reservation[r].order /\ sending' = sending
          BY <1>0, <4>1, <5>1 DEF ListReservations, RowTyped, Row
        <5>3. QED BY <3>1, <5>2
      <4>2. ASSUME NEW x \in Reservations, CancelReservation(x)
            PROVE  reservation'[r].order = reservation[r].order /\ sending' = sending
        BY <1>0, <4>2 DEF CancelReservation, RowTyped, Row
      <4>3. ASSUME NEW x \in Reservations, NEW o \in Presses, ConvertReservationToOrder(x, o)
            PROVE  <<r, p>> \in sending \/ reservation[r].order = p
        <5>1. <<x, o>> \in sending /\ sending' = sending \ {<<x, o>>}
              /\ reservation' = [reservation EXCEPT ![x] = [status |-> "CONVERTED", order |-> o]]
          BY <4>3 DEF ConvertReservationToOrder
        <5>2. CASE r = x
          <6>1. reservation'[r].order = o
            BY <1>0, <5>1, <5>2 DEF RowTyped
          <6>2. QED BY <3>1, <5>1, <5>2, <6>1
        <5>3. CASE r # x
          <6>1. reservation'[r] = reservation[r]
            BY <1>0, <5>1, <5>3 DEF RowTyped
          <6>2. QED BY <3>1, <5>1, <6>1
        <5>4. QED BY <5>2, <5>3
      <4>4. ASSUME NEW x \in Reservations, NEW o \in Presses, ConversionLost(x, o)
            PROVE  <<r, p>> \in sending \/ reservation[r].order = p
        BY <3>1, <4>4 DEF ConversionLost
      <4>5. CASE \/ \E s \in WalkIns : RingUp(s)
                 \/ EditCart \/ ClearSale \/ Unlink \/ OpenPage \/ PrefillLoads \/ PrefillFails
                 \/ \E x \in Reservations : Prefill(x)
                 \/ UNCHANGED checkoutVars
        <5>1. UNCHANGED <<reservation, sending>>
          BY <4>5 DEF RingUp, EditCart, ClearSale, Unlink, OpenPage, PrefillLoads, PrefillFails, Prefill,
                      rowVars, checkoutVars
        <5>2. QED BY <3>1, <5>1
      <4>6. QED BY <1>1, <3>1, <4>1, <4>2, <4>3, <4>4, <4>5 DEF Elsewhere
    <3>2. QED BY <2>3, <3>1 DEF Linked, SentIsSettled
  <2>6. ASSUME NEW r \in Reservations \ strayed', linked' = r
        PROVE  cart' \in {None, r} /\ \A p \in Presses : Clean(p)' => press'[p].sale = r
    <3>1. ASSUME NEW x \in Reservations, Prefill(x)
          PROVE  cart' = None /\ \A p \in Presses : ~Clean(p)
      BY <1>0, <3>1 DEF Prefill, PageWaits
    <3>2. ASSUME NEW s \in WalkIns, RingUp(s) PROVE FALSE
      <4>1. linked = r /\ r # None /\ r \in strayed'
        BY <1>n, <2>6, <3>2 DEF RingUp
      <4>2. QED BY <2>6, <4>1
    <3>3. CASE OpenPage \/ Unlink
      BY <1>n, <2>6, <3>3 DEF OpenPage, Unlink
    <3>4. CASE PrefillLoads
      <4>1. filling = r /\ cart' = r /\ linked = r
        BY <1>n, <2>6, <3>4 DEF PrefillLoads, Linked, FillsLinked
      <4>2. QED BY <2>1, <2>2, <2>3, <2>6, <4>1 DEF Linked, LinkedIsSale
    <3>5. CASE \/ EditCart \/ ClearSale \/ PrefillFails \/ ListReservations \/ UNCHANGED checkoutVars
               \/ \E x \in Reservations : \/ CancelReservation(x)
                      \/ \E p \in Presses : ConvertReservationToOrder(x, p) \/ ConversionLost(x, p)
      <4>1. linked' = linked /\ cart' \in {cart, None}
        BY <3>5 DEF EditCart, ClearSale, PrefillFails, ListReservations, checkoutVars, pageVars,
                    CancelReservation, ConvertReservationToOrder, ConversionLost
      <4>2. QED BY <2>1, <2>2, <2>3, <2>6, <4>1 DEF Linked, LinkedIsSale
    <3>6. QED BY <1>1, <2>1, <2>3, <3>1, <3>2, <3>3, <3>4, <3>5 DEF Elsewhere
  <2>7. FillsLinked'
    BY <1>1 DEF Linked, FillsLinked, Elsewhere, RingUp, EditCart, ClearSale, Unlink, OpenPage, PrefillLoads, PrefillFails,
       ListReservations, Prefill, CancelReservation, ConvertReservationToOrder, ConversionLost,
       checkoutVars, pageVars
  <2>8. QED BY <2>4, <2>5, <2>6, <2>7 DEF Linked, LinkedIsSale
<1>2. CASE LeavePage
  <2>1. /\ \A p \in Presses : ~Clean(p)' /\ press'[p].step = press[p].step /\ press'[p].sale = press[p].sale
        /\ \A p \in Presses : /\ Clean(p) => press'[p].converts = linked
                              /\ ~Clean(p) => press'[p] = press[p]
    BY <1>0, <1>2, LeaveStep DEF Clean, Running
  <2>2. UNCHANGED <<cart, linked, filling, recorded, reservation, sending, strayed>>
    BY <1>2 DEF LeavePage, rowVars, ghostVars
  <2>3. ASSUME NEW p \in Presses, NEW r \in Reservations,
               Running(p)', press'[p].left, press'[p].converts = r
        PROVE  IsSaleOf(p, r)'
    <3>1. CASE Clean(p)
      BY <2>1, <2>2, <2>3, <3>1 DEF Linked, LinkedIsSale, IsSaleOf
    <3>2. CASE ~Clean(p)
      BY <2>1, <2>2, <2>3, <3>2 DEF Linked, LeftIsSale, IsSaleOf, Running
    <3>3. QED BY <3>1, <3>2
  <2>4. \A r \in Reservations, p \in Presses : Settles(p, r) => Settles(p, r)'
    BY <2>1, <2>2 DEF Settles, IsSaleOf
  <2>5. FillsLinked' /\ LinkedIsSale'
    BY <2>1, <2>2 DEF Linked, FillsLinked, LinkedIsSale
  <2>6. LeftIsSale'
    BY <2>3 DEF LeftIsSale
  <2>7. SentIsSettled'
    BY <2>2, <2>4 DEF Linked, SentIsSettled
  <2>8. QED BY <2>5, <2>6, <2>7 DEF Linked
<1>3. CASE Reload
  <2>1. /\ linked' = None /\ filling' = None /\ UNCHANGED <<reservation, sending, strayed>>
        /\ \A p \in Presses : ~Running(p)'
        /\ \A p \in Presses : press[p].step = "done" => press'[p] = press[p] /\ recorded'[p] = recorded[p]
    BY <1>0, <1>3, ReloadStep DEF Reload, Running, rowVars, ghostVars
  <2>2. \A r \in Reservations, p \in Presses : Settles(p, r) => Settles(p, r)'
    BY <2>1 DEF Settles, IsSaleOf
  <2>3. FillsLinked' /\ LinkedIsSale' /\ LeftIsSale'
    BY <1>n, <2>1 DEF FillsLinked, LinkedIsSale, LeftIsSale
  <2>4. SentIsSettled'
    BY <2>1, <2>2 DEF Linked, SentIsSettled
  <2>5. QED BY <2>3, <2>4 DEF Linked
<1>4. ASSUME NEW p \in Presses, NEW step \in {"create", "queue"}, Checkout(p, step) PROVE Linked'
  <2>1. /\ press'[p].sale = cart /\ cart \in Sales /\ ~press'[p].left /\ press[p].step = "unused"
        /\ \A q \in Presses \ {p} : press'[q] = press[q]
        /\ \A q \in Presses : ~Clean(q)
    BY <1>0, <1>4, CheckoutStep
  <2>2. UNCHANGED <<cart, linked, filling, recorded, reservation, sending, strayed>> /\ cart # None
    BY <1>4 DEF Checkout, pageVars, rowVars, ghostVars
  <2>3. \A q \in Presses : Clean(q)' => q = p
    BY <2>1 DEF Clean, Running
  <2>4. \A r \in Reservations, q \in Presses : Settles(q, r) => Settles(q, r)'
    BY <2>1, <2>2 DEF Settles, IsSaleOf
  <2>5. LeftIsSale'
    BY <2>1, <2>2 DEF Linked, LeftIsSale, IsSaleOf, Running
  <2>6. LinkedIsSale'
    BY <2>1, <2>2, <2>3 DEF Linked, LinkedIsSale
  <2>7. FillsLinked'
    BY <2>2 DEF Linked, FillsLinked
  <2>8. SentIsSettled'
    BY <2>2, <2>4 DEF Linked, SentIsSettled
  <2>9. QED BY <2>5, <2>6, <2>7, <2>8 DEF Linked
<1>5. ASSUME NEW p \in Presses, Enqueued(p) \/ OrderCreated(p) \/ Failed(p) PROVE Linked'
  <2>1. /\ press'[p].left = press[p].left /\ press'[p].sale = press[p].sale /\ Running(p)
        /\ press'[p].converts = press[p].converts
        /\ \A q \in Presses \ {p} : press'[q] = press[q] /\ recorded'[q] = recorded[q]
    BY <1>0, <1>5, EnqueuedStep, OrderCreatedStep, FailedStep DEF Running
  <2>2. UNCHANGED <<linked, filling, reservation, sending, strayed>> /\ cart' \in {cart, None}
    BY <1>5 DEF Enqueued, OrderCreated, Failed, pageVars, rowVars, ghostVars
  <2>3. \A q \in Presses : (Clean(q)' => Clean(q)) /\ (Running(q)' => Running(q))
    BY <2>1 DEF Clean, Running
  <2>4. \A r \in Reservations, q \in Presses : /\ Settles(q, r) => Settles(q, r)'
                                               /\ IsSaleOf(q, r) => IsSaleOf(q, r)'
    BY <2>1, <2>2 DEF Settles, IsSaleOf, Running
  <2>5. LeftIsSale'
    BY <2>1, <2>3, <2>4 DEF Linked, LeftIsSale
  <2>6. LinkedIsSale'
    BY <2>1, <2>2, <2>3 DEF Linked, LinkedIsSale
  <2>7. FillsLinked'
    BY <2>2 DEF Linked, FillsLinked
  <2>8. SentIsSettled'
    BY <2>2, <2>4 DEF Linked, SentIsSettled
  <2>9. QED BY <2>5, <2>6, <2>7, <2>8 DEF Linked
<1>6. ASSUME NEW p \in Presses, Completed(p) PROVE Linked'
  <2>1. /\ press'[p].sale = press[p].sale /\ press'[p].left = press[p].left
        /\ press[p].step = "complete" /\ press'[p].step = "done" /\ recorded'[p] = "COMPLETED"
        /\ \A q \in Presses \ {p} : press'[q] = press[q] /\ recorded'[q] = recorded[q]
    BY <1>0, <1>6, CompletedStep
  <2>2. /\ UNCHANGED <<cart, filling, reservation, strayed>> /\ linked' \in {linked, None}
        /\ sending' = IF Converts(p) = None THEN sending ELSE sending \cup {<<Converts(p), p>>}
    BY <1>6 DEF Completed, ghostVars
  <2>3. \A q \in Presses : (Clean(q)' => Clean(q)) /\ (Running(q)' => Running(q) /\ q # p)
    BY <2>1 DEF Clean, Running
  <2>4. \A r \in Reservations, q \in Presses : /\ Settles(q, r) => Settles(q, r)'
                                               /\ IsSaleOf(q, r) => IsSaleOf(q, r)'
    BY <2>1, <2>2 DEF Settles, IsSaleOf
  <2>5. LeftIsSale'
    BY <2>1, <2>3, <2>4 DEF Linked, LeftIsSale
  <2>6. LinkedIsSale'
    BY <1>n, <2>1, <2>2, <2>3 DEF Linked, LinkedIsSale
  <2>7. ASSUME NEW r \in Reservations, r = Converts(p) PROVE Settles(p, r)'
    <3>1. CASE press[p].left
      BY <2>1, <2>4, <2>7, <3>1 DEF Linked, LeftIsSale, Converts, Running, Settles
    <3>2. CASE ~press[p].left
      BY <2>1, <2>2, <2>7, <3>2 DEF Linked, LinkedIsSale, Converts, Running, Clean, Settles, IsSaleOf
    <3>3. QED BY <3>1, <3>2
  <2>8. SentIsSettled'
    BY <2>2, <2>4, <2>7 DEF Linked, SentIsSettled
  <2>9. FillsLinked'
    BY <2>2 DEF Linked, FillsLinked
  <2>10. QED BY <2>5, <2>6, <2>8, <2>9 DEF Linked
<1>7. QED BY <1>1, <1>2, <1>3, <1>4, <1>5, <1>6, StepKinds

------------------------------------------------------------------------------
(* Checkout: how often a reservation is converted.                         *)

LEMMA SubsetsOfPresses ==
  ASSUME NEW S \in SUBSET Presses
  PROVE  /\ IsFiniteSet(S) /\ Cardinality(S) \in Nat
         /\ \A T \in SUBSET S : Cardinality(T) <= Cardinality(S)
         /\ \A p, T : T \subseteq S \cup {p} => Cardinality(T) <= Cardinality(S) + 1
<1>1. IsFiniteSet(S) /\ Cardinality(S) \in Nat
  BY CheckoutAssumption, FS_Subset, FS_CardinalityType
<1>2. \A T \in SUBSET S : Cardinality(T) <= Cardinality(S)
  BY <1>1, FS_Subset
<1>3. ASSUME NEW p, NEW T, T \subseteq S \cup {p} PROVE Cardinality(T) <= Cardinality(S) + 1
  <2>1. IsFiniteSet(S \cup {p}) /\ Cardinality(S \cup {p}) \in {Cardinality(S), Cardinality(S) + 1}
    BY <1>1, FS_AddElement
  <2>2. Cardinality(T) <= Cardinality(S \cup {p}) /\ Cardinality(T) \in Nat
    BY <1>3, <2>1, FS_Subset, FS_CardinalityType
  <2>3. QED BY <1>1, <2>1, <2>2
<1>4. QED BY <1>1, <1>2, <1>3

\* The presses that have converted r or will when they succeed, and whether the page of now may.
Converting(r) == {p \in Presses : /\ press[p].converts = r
                                  /\ press[p].step = "done" \/ (Running(p) /\ press[p].left)}
Here(r) == IF open /\ linked = r THEN 1 ELSE 0

LoadsCover == \A r \in Reservations : Cardinality(Converting(r)) + Here(r) <= loads[r]

LEMMA NextLoads == PressInv /\ LoadsCover /\ [CheckoutNext]_checkoutVars => LoadsCover'
<1> SUFFICES ASSUME PressInv, LoadsCover, [CheckoutNext]_checkoutVars PROVE LoadsCover'
  OBVIOUS
<1>0. CheckoutTypeOK /\ PageWaits /\ PageTyped /\ PressTyped /\ RowTyped
  BY CheckoutTypes DEF PressInv
<1>1. ASSUME NEW r \in Reservations
      PROVE  /\ Cardinality(Converting(r)) \in Nat /\ Here(r) \in {0, 1} /\ Here(r)' \in {0, 1}
             /\ Cardinality(Converting(r)) + Here(r) <= loads[r] /\ loads[r] \in Nat
             /\ Cardinality(Converting(r))' \in Nat
             /\ Converting(r)' \subseteq Converting(r) => Cardinality(Converting(r))' <= Cardinality(Converting(r))
             /\ \A p : Converting(r)' \subseteq Converting(r) \cup {p} =>
                         Cardinality(Converting(r))' <= Cardinality(Converting(r)) + 1
  <2>1. Converting(r) \subseteq Presses /\ Converting(r)' \subseteq Presses
    BY DEF Converting
  <2>2. Here(r) \in {0, 1} /\ Here(r)' \in {0, 1} /\ loads[r] \in Nat
    BY <1>0, CheckoutAssumption DEF Here, RowTyped
  <2>3. Cardinality(Converting(r)) \in Nat /\ Cardinality(Converting(r)') \in Nat
    BY <2>1, SubsetsOfPresses
  <2>4. \A p : Converting(r)' \subseteq Converting(r) \cup {p} =>
                 Cardinality(Converting(r)') <= Cardinality(Converting(r)) + 1
    BY <2>1, SubsetsOfPresses
  <2>5. Converting(r)' \subseteq Converting(r) => Cardinality(Converting(r)') <= Cardinality(Converting(r))
    BY <2>1, SubsetsOfPresses
  <2>6. QED BY <2>2, <2>3, <2>4, <2>5 DEF LoadsCover
\* No press more, and the page of now may convert it only if it might before.
<1>s. ASSUME NEW r \in Reservations, Converting(r)' \subseteq Converting(r), loads'[r] = loads[r],
             Here(r)' = 1 => Here(r) = 1
      PROVE  Cardinality(Converting(r))' + Here(r)' <= loads'[r]
  BY <1>1, <1>s
\* The page of now hands its reservation to a press.
<1>h. ASSUME NEW r \in Reservations, NEW p, Converting(r)' \subseteq Converting(r) \cup {p},
             loads'[r] = loads[r], Here(r)' = 0, Here(r) = 1
      PROVE  Cardinality(Converting(r))' + Here(r)' <= loads'[r]
  BY <1>1, <1>h
<1>2. CASE Elsewhere
  <2>1. press' = press
    BY <1>2, ElsewhereStep
  <2>2. \A r : Converting(r)' = Converting(r)
    BY <2>1 DEF Converting, Running
  <2>3. ASSUME NEW x \in Reservations, Prefill(x) PROVE LoadsCover'
    <3>1. /\ ~open /\ loads' = [loads EXCEPT ![x] = @ + 1] /\ linked' = x
      BY <2>3 DEF Prefill
    <3>2. ASSUME NEW r \in Reservations PROVE Cardinality(Converting(r))' + Here(r)' <= loads'[r]
      <4>1. CASE r = x
        <5>1. loads'[r] = loads[r] + 1
          BY <1>0, <3>1, <4>1 DEF RowTyped
        <5>2. Cardinality(Converting(r))' = Cardinality(Converting(r))
          BY <2>2
        <5>3. Here(r) = 0
          BY <3>1 DEF Here
        <5>4. QED BY <1>1, <5>1, <5>2, <5>3
      <4>2. CASE r # x
        <5>1. loads'[r] = loads[r]
          BY <1>0, <3>1, <4>2 DEF RowTyped
        <5>2. Here(r)' = 0
          BY <3>1, <4>2 DEF Here
        <5>3. QED BY <1>s, <2>2, <5>1, <5>2
      <4>3. QED BY <4>1, <4>2
    <3>3. QED BY <3>2 DEF LoadsCover
  <2>4. CASE OpenPage
    <3>1. linked' = None /\ loads' = loads
      BY <2>4 DEF OpenPage, ghostVars
    <3>2. \A r \in Reservations : Here(r)' = 0
      BY <3>1, CheckoutAssumption DEF Here
    <3>3. QED BY <1>s, <2>2, <3>1, <3>2 DEF LoadsCover
  <2>5. CASE \/ \E s \in WalkIns : RingUp(s)
             \/ EditCart \/ ClearSale \/ Unlink \/ PrefillLoads \/ PrefillFails \/ ListReservations
             \/ \E r \in Reservations : \/ CancelReservation(r)
                    \/ \E p \in Presses : ConvertReservationToOrder(r, p) \/ ConversionLost(r, p)
             \/ UNCHANGED checkoutVars
    <3>1. open' = open /\ linked' \in {linked, None} /\ loads' = loads
      BY <2>5 DEF RingUp, EditCart, ClearSale, Unlink, PrefillLoads, PrefillFails,
         ListReservations, CancelReservation, ConvertReservationToOrder, ConversionLost,
         checkoutVars, pageVars, ghostVars
    <3>2. \A r \in Reservations : Here(r)' = 1 => Here(r) = 1
      BY <3>1, CheckoutAssumption DEF Here
    <3>3. QED BY <1>s, <2>2, <3>1, <3>2 DEF LoadsCover
  <2>6. QED BY <1>2, <2>3, <2>4, <2>5 DEF Elsewhere
<1>3. CASE LeavePage
  <2>1. /\ open /\ ~open' /\ linked' = linked /\ loads' = loads
    BY <1>3 DEF LeavePage, ghostVars
  <2>2. \A p \in Presses : /\ press'[p].step = press[p].step
                           /\ Clean(p) => press'[p].converts = linked
                           /\ ~Clean(p) => press'[p] = press[p]
    BY <1>0, <1>3, LeaveStep
  <2>3. ASSUME NEW r \in Reservations, NEW p \in Presses, p \in Converting(r)', p \notin Converting(r)
        PROVE  Clean(p) /\ linked = r
    <3>1. Clean(p)
      BY <2>2, <2>3 DEF Converting, Running
    <3>2. QED BY <2>2, <2>3, <3>1 DEF Converting
  <2>4. ASSUME NEW r \in Reservations PROVE Cardinality(Converting(r))' + Here(r)' <= loads'[r]
    <3>1. Here(r)' = 0 /\ loads'[r] = loads[r]
      BY <2>1 DEF Here
    <3>2. CASE Converting(r)' \subseteq Converting(r)
      BY <1>s, <3>1, <3>2
    <3>3. CASE ~(Converting(r)' \subseteq Converting(r))
      <4>1. PICK p \in Presses : p \in Converting(r)' /\ p \notin Converting(r)
        BY <3>3 DEF Converting
      <4>2. Clean(p) /\ linked = r
        BY <2>3, <4>1
      <4>3. Converting(r)' \subseteq Presses
        BY DEF Converting
      <4>4. Converting(r)' \subseteq Converting(r) \cup {p}
        BY <1>0, <2>3, <4>2, <4>3 DEF PageWaits
      <4>5. Here(r) = 1
        BY <2>1, <4>2 DEF Here
      <4>6. QED BY <1>h, <3>1, <4>4, <4>5
    <3>4. QED BY <3>2, <3>3
  <2>5. QED BY <2>4 DEF LoadsCover
<1>4. CASE Reload
  <2>1. /\ linked' = None /\ loads' = loads
        /\ \A p \in Presses : /\ ~Running(p)'
                              /\ press'[p].step = "done" => press'[p] = press[p]
    BY <1>0, <1>4, ReloadStep DEF Reload, ghostVars, Running
  <2>2. \A r \in Reservations : Converting(r)' \subseteq Converting(r)
    BY <2>1 DEF Converting
  <2>3. \A r \in Reservations : Here(r)' = 0
    BY <2>1, CheckoutAssumption DEF Here
  <2>4. QED BY <1>s, <2>1, <2>2, <2>3 DEF LoadsCover
<1>5. ASSUME NEW p \in Presses,
             \/ \E step \in {"create", "queue"} : Checkout(p, step)
             \/ Enqueued(p) \/ OrderCreated(p) \/ Failed(p)
      PROVE  LoadsCover'
  <2>1. /\ \A q \in Presses \ {p} : press'[q] = press[q]
        /\ press'[p].step # "done"
        /\ Running(p)' /\ press'[p].left =>
             Running(p) /\ press[p].left /\ press'[p].converts = press[p].converts
    BY <1>0, <1>5, CheckoutStep, EnqueuedStep, OrderCreatedStep, FailedStep DEF Running
  <2>2. UNCHANGED <<open, linked, loads>>
    BY <1>5 DEF Checkout, Enqueued, OrderCreated, Failed, pageVars, ghostVars
  <2>3. \A r \in Reservations : Converting(r)' \subseteq Converting(r)
    BY <2>1 DEF Converting, Running
  <2>4. \A r \in Reservations : Here(r)' = Here(r)
    BY <2>2 DEF Here
  <2>5. QED BY <1>s, <2>2, <2>3, <2>4 DEF LoadsCover
<1>6. ASSUME NEW p \in Presses, Completed(p) PROVE LoadsCover'
  <2>1. /\ \A q \in Presses \ {p} : press'[q] = press[q]
        /\ Running(p) /\ press'[p].step = "done" /\ press'[p].converts = Converts(p)
    BY <1>0, <1>6, CompletedStep DEF Running
  <2>2. open' = open /\ loads' = loads
    BY <1>6 DEF Completed, ghostVars
  <2>3. ASSUME NEW r \in Reservations PROVE Cardinality(Converting(r))' + Here(r)' <= loads'[r]
    <3>1. Converting(r)' \subseteq Converting(r) \cup {p}
      BY <2>1 DEF Converting, Running
    <3>2. CASE press[p].left
      <4>1. linked' = linked /\ Converts(p) = press[p].converts
        BY <1>6, <3>2 DEF Completed, Converts
      <4>2. Converting(r)' \subseteq Converting(r)
        BY <2>1, <3>2, <4>1 DEF Converting, Running
      <4>3. Here(r)' = Here(r)
        BY <2>2, <4>1 DEF Here
      <4>4. QED BY <1>s, <2>2, <4>2, <4>3
    <3>3. CASE ~press[p].left
      <4>1. linked' = None /\ Converts(p) = linked /\ open
        BY <1>0, <1>6, <2>1, <3>3 DEF Completed, Converts, PageWaits, Clean
      <4>2. Here(r)' = 0
        BY <4>1, CheckoutAssumption DEF Here
      <4>3. CASE linked = r
        <5>1. Here(r) = 1
          BY <4>1, <4>3 DEF Here
        <5>2. QED BY <1>h, <2>2, <3>1, <4>2, <5>1
      <4>4. CASE linked # r
        <5>1. Converting(r)' \subseteq Converting(r)
          BY <2>1, <4>1, <4>4 DEF Converting, Running
        <5>2. QED BY <1>s, <2>2, <4>2, <5>1
      <4>5. QED BY <4>3, <4>4
    <3>4. QED BY <3>2, <3>3
  <2>4. QED BY <2>3 DEF LoadsCover
<1>7. QED BY <1>2, <1>3, <1>4, <1>5, <1>6, StepKinds

------------------------------------------------------------------------------
(* Checkout: how often a sale is recorded.                                 *)

\* The presses that recorded sale s for the page that pressed, and whether s may still be sold:
\* it is saved, on its way into the cart, in a press of the page of now, or on the screen as a
\* cart that is not completed.
Finished(s) == {p \in Presses : /\ press[p].sale = s /\ press[p].step \in {"done", "queued"}
                                /\ ~press[p].left}
Shown(s) == cart = s /\ (screen = None \/ \A p \in Presses : press[p].sale = s => press[p].step # "done")
Open(s) == \/ saved = s \/ filling = s \/ Shown(s)
           \/ \E p \in Presses : Clean(p) /\ press[p].sale = s
Due(s) == IF Open(s) THEN 1 ELSE 0

\* What is on its way into the cart is nowhere else, and each sale has its loads.
FillsAlone ==
  filling # None => /\ cart # filling /\ saved # filling
                    /\ \A p \in Presses : Clean(p) => press[p].sale # filling
SalesCover == \A s \in Sales \ revived : Cardinality(Finished(s)) + Due(s) <= Loaded(s)

LEMMA NextFills == PressInv /\ FillsAlone /\ [CheckoutNext]_checkoutVars => FillsAlone'
<1> SUFFICES ASSUME PressInv, FillsAlone, [CheckoutNext]_checkoutVars PROVE FillsAlone'
  OBVIOUS
<1>0. CheckoutTypeOK /\ PageWaits /\ PageTyped /\ PressTyped /\ RowTyped
  BY CheckoutTypes DEF PressInv
<1>1. CASE Elsewhere
  <2>1. press' = press
    BY <1>1, ElsewhereStep
  <2>2. \A p \in Presses : Clean(p)' <=> Clean(p)
    BY <2>1 DEF Clean, Running
  <2>3. ASSUME NEW x \in Reservations, Prefill(x) PROVE FillsAlone'
    <3>1. ~open /\ filling' = x /\ cart' = None /\ saved' = None /\ x # None
      BY <2>3, CheckoutAssumption DEF Prefill
    <3>2. QED BY <1>0, <2>2, <3>1 DEF FillsAlone, PageWaits
  <2>4. ASSUME NEW s \in WalkIns, RingUp(s) PROVE FillsAlone'
    <3>1. cart' = s /\ saved' = s /\ filling' = filling
      BY <2>4 DEF RingUp
    <3>2. filling # None => filling # s
      BY <1>0, CheckoutAssumption DEF PageTyped
    <3>3. QED BY <2>1, <2>2, <3>1, <3>2 DEF FillsAlone
  <2>5. CASE OpenPage \/ PrefillLoads \/ PrefillFails
    BY <2>5 DEF OpenPage, PrefillLoads, PrefillFails, FillsAlone
  <2>6. CASE \/ EditCart \/ ClearSale \/ Unlink \/ ListReservations
             \/ \E r \in Reservations : \/ CancelReservation(r)
                    \/ \E p \in Presses : ConvertReservationToOrder(r, p) \/ ConversionLost(r, p)
             \/ UNCHANGED checkoutVars
    <3>1. filling' = filling /\ cart' \in {cart, None} /\ saved' \in {saved, cart, None}
      BY <2>6 DEF EditCart, ClearSale, Unlink, ListReservations, CancelReservation,
         ConvertReservationToOrder, ConversionLost, checkoutVars, pageVars
    <3>2. QED BY <2>1, <2>2, <3>1 DEF FillsAlone
  <2>7. QED BY <1>1, <2>3, <2>4, <2>5, <2>6 DEF Elsewhere
<1>2. CASE LeavePage
  <2>1. \A p \in Presses : ~Clean(p)'
    BY <1>0, <1>2, LeaveStep DEF Clean, Running
  <2>2. QED BY <1>2, <2>1 DEF LeavePage, FillsAlone
<1>3. CASE Reload
  BY <1>3 DEF Reload, FillsAlone
<1>4. ASSUME NEW p \in Presses, NEW step \in {"create", "queue"}, Checkout(p, step) PROVE FillsAlone'
  <2>1. /\ press'[p].sale = cart
        /\ \A q \in Presses \ {p} : press'[q] = press[q]
        /\ UNCHANGED <<cart, saved, filling>>
    BY <1>0, <1>4, CheckoutStep DEF Checkout, pageVars
  <2>2. \A q \in Presses \ {p} : Clean(q)' <=> Clean(q)
    BY <2>1 DEF Clean, Running
  <2>3. QED BY <2>1, <2>2 DEF FillsAlone
<1>5. ASSUME NEW p \in Presses, Enqueued(p) \/ OrderCreated(p) \/ Completed(p) \/ Failed(p) PROVE FillsAlone'
  <2>1. /\ press'[p].sale = press[p].sale /\ press'[p].left = press[p].left /\ Running(p)
        /\ \A q \in Presses \ {p} : press'[q] = press[q]
    BY <1>0, <1>5, EnqueuedStep, OrderCreatedStep, CompletedStep, FailedStep DEF Running
  <2>2. filling' = filling /\ cart' \in {cart, None} /\ saved' \in {saved, None}
    BY <1>5 DEF Enqueued, OrderCreated, Completed, Failed, pageVars
  <2>3. \A q \in Presses : (Clean(q)' => Clean(q)) /\ press'[q].sale = press[q].sale
    BY <2>1 DEF Clean, Running
  <2>4. QED BY <2>2, <2>3 DEF FillsAlone
<1>6. QED BY <1>1, <1>2, <1>3, <1>4, <1>5, StepKinds

LEMMA NextSales == PressInv /\ FillsAlone /\ SalesCover /\ [CheckoutNext]_checkoutVars => SalesCover'
<1> SUFFICES ASSUME PressInv, FillsAlone, SalesCover, [CheckoutNext]_checkoutVars PROVE SalesCover'
  OBVIOUS
<1>0. CheckoutTypeOK /\ PageWaits /\ PageTyped /\ PressTyped /\ RowTyped
  BY CheckoutTypes DEF PressInv
<1>n. None \notin Sales /\ None \notin Presses
  BY CheckoutAssumption DEF Sales
<1>1. ASSUME NEW s \in Sales
      PROVE  /\ Cardinality(Finished(s)) \in Nat /\ Cardinality(Finished(s))' \in Nat
             /\ Loaded(s) \in Nat
             /\ Finished(s)' \subseteq Finished(s) => Cardinality(Finished(s))' <= Cardinality(Finished(s))
             /\ \A p : Finished(s)' \subseteq Finished(s) \cup {p} =>
                         Cardinality(Finished(s))' <= Cardinality(Finished(s)) + 1
  <2>1. Finished(s) \subseteq Presses /\ Finished(s)' \subseteq Presses
    BY DEF Finished
  <2>2. Loaded(s) \in Nat
    BY <1>0, CheckoutAssumption DEF Loaded, RowTyped
  <2>3. Cardinality(Finished(s)) \in Nat /\ Cardinality(Finished(s)') \in Nat
    BY <2>1, SubsetsOfPresses
  <2>4. \A p : Finished(s)' \subseteq Finished(s) \cup {p} =>
                 Cardinality(Finished(s)') <= Cardinality(Finished(s)) + 1
    BY <2>1, SubsetsOfPresses
  <2>5. Finished(s)' \subseteq Finished(s) => Cardinality(Finished(s)') <= Cardinality(Finished(s))
    BY <2>1, SubsetsOfPresses
  <2>6. QED BY <2>2, <2>3, <2>4, <2>5
\* No press more records the sale, and it may be sold only if it might before.
<1>s. ASSUME NEW s \in Sales, s \notin revived, Finished(s)' \subseteq Finished(s), Loaded(s)' = Loaded(s),
             Open(s)' => Open(s)
      PROVE  Cardinality(Finished(s))' + Due(s)' <= Loaded(s)'
  <2>1. Cardinality(Finished(s)) + Due(s) <= Loaded(s)
    BY <1>s DEF SalesCover
  <2>2. Due(s) \in {0, 1} /\ Due(s)' \in {0, 1} /\ Due(s)' <= Due(s)
    BY <1>s DEF Due
  <2>3. QED BY <1>1, <1>s, <2>1, <2>2
\* The sale that might be sold is recorded.
<1>h. ASSUME NEW s \in Sales, s \notin revived, NEW p, Finished(s)' \subseteq Finished(s) \cup {p},
             Loaded(s)' = Loaded(s), Open(s), ~Open(s)'
      PROVE  Cardinality(Finished(s))' + Due(s)' <= Loaded(s)'
  <2>1. Cardinality(Finished(s)) + Due(s) <= Loaded(s)
    BY <1>h DEF SalesCover
  <2>2. Due(s) = 1 /\ Due(s)' = 0
    BY <1>h DEF Due
  <2>3. QED BY <1>1, <1>h, <2>1, <2>2
<1>l. loads' = loads => \A s \in Sales : Loaded(s)' = Loaded(s)
  BY DEF Loaded
<1>2. CASE Elsewhere
  <2>1. press' = press
    BY <1>2, ElsewhereStep
  <2>2. /\ \A s : Finished(s)' = Finished(s)
        /\ \A p \in Presses : Clean(p)' <=> Clean(p)
    BY <2>1 DEF Finished, Clean, Running
  <2>3. ASSUME NEW x \in Reservations, Prefill(x) PROVE SalesCover'
    <3>1. /\ ~open /\ loads' = [loads EXCEPT ![x] = @ + 1] /\ revived' = revived
          /\ filling' = x /\ cart' = None /\ saved' = None
      BY <2>3 DEF Prefill
    <3>2. \A p \in Presses : ~Clean(p)'
      BY <1>0, <2>2, <3>1 DEF PageWaits
    <3>3. ASSUME NEW s \in Sales, s \notin revived'
          PROVE  Cardinality(Finished(s))' + Due(s)' <= Loaded(s)'
      <4>1. CASE s = x
        <5>1. Loaded(s)' = Loaded(s) + 1
          BY <1>0, <3>1, <4>1 DEF RowTyped, Loaded
        <5>2. Cardinality(Finished(s)) + Due(s) <= Loaded(s) /\ Due(s) \in {0, 1} /\ Due(s)' \in {0, 1}
          BY <3>1, <3>3 DEF SalesCover, Due
        <5>3. Cardinality(Finished(s))' = Cardinality(Finished(s))
          BY <2>2
        <5>4. QED BY <1>1, <5>1, <5>2, <5>3
      <4>2. CASE s # x
        <5>1. Loaded(s)' = Loaded(s)
          BY <1>0, <3>1, <4>2 DEF RowTyped, Loaded
        <5>2. ~Open(s)'
          BY <1>n, <3>1, <3>2, <4>2 DEF Open, Shown
        <5>3. QED BY <1>s, <2>2, <3>1, <3>3, <5>1, <5>2
      <4>3. QED BY <4>1, <4>2
    <3>4. QED BY <3>3 DEF SalesCover
  <2>4. ASSUME NEW w \in WalkIns, RingUp(w) PROVE SalesCover'
    <3>1. /\ cart = None /\ screen' = screen /\ cart' = w /\ saved' = w /\ filling' = filling
          /\ loads' = loads /\ revived' = revived
          /\ \A p \in Presses : press[p].sale # w
      BY <2>4 DEF RingUp, rowVars
    <3>2. ASSUME NEW s \in Sales, s \notin revived'
          PROVE  Cardinality(Finished(s))' + Due(s)' <= Loaded(s)'
      <4>1. CASE s = w
        <5>1. Finished(s)' = {} /\ Loaded(s)' = 1
          BY <2>2, <3>1, <4>1, CheckoutAssumption DEF Finished, Loaded
        <5>2. Cardinality(Finished(s))' = 0
          BY <5>1, FS_EmptySet
        <5>3. QED BY <5>1, <5>2 DEF Due
      <4>2. CASE s # w
        <5>1. Open(s)' => Open(s)
          BY <2>1, <2>2, <3>1, <4>2 DEF Open, Shown
        <5>2. QED BY <1>l, <1>s, <2>2, <3>1, <3>2, <5>1
      <4>3. QED BY <4>1, <4>2
    <3>3. QED BY <3>2 DEF SalesCover
  <2>5. ASSUME loads' = loads, revived \subseteq revived',
               \A s \in Sales : s \notin revived' /\ Open(s)' => Open(s)
        PROVE  SalesCover'
    <3>1. ASSUME NEW s \in Sales, s \notin revived'
          PROVE  Cardinality(Finished(s))' + Due(s)' <= Loaded(s)'
      BY <1>l, <1>s, <2>2, <2>5, <3>1
    <3>2. QED BY <3>1 DEF SalesCover
  <2>6. CASE EditCart
    <3>1. /\ saved' = cart /\ cart' = cart /\ screen' = screen /\ filling' = filling /\ loads' = loads
          /\ revived' = IF \E p \in Presses : press[p].sale = cart /\ press[p].step = "done"
                        THEN revived \cup {cart} ELSE revived
      BY <2>6 DEF EditCart
    <3>2. ASSUME NEW s \in Sales, s \notin revived', Open(s)' PROVE Open(s)
      BY <2>1, <2>2, <3>1, <3>2 DEF Open, Shown
    <3>3. QED BY <2>5, <3>1, <3>2
  <2>7. CASE PrefillLoads
    <3>1. /\ saved' = filling /\ cart' = filling /\ filling' = None /\ loads' = loads
          /\ revived \subseteq revived'
      BY <2>7 DEF PrefillLoads
    <3>2. ASSUME NEW s \in Sales, Open(s)' PROVE Open(s)
      BY <1>n, <2>1, <2>2, <3>1, <3>2 DEF Open, Shown
    <3>3. QED BY <2>5, <3>1, <3>2
  <2>8. CASE OpenPage \/ ClearSale
    <3>1. /\ saved' \in {saved, None} /\ cart' \in {saved, None} /\ filling' \in {filling, None}
          /\ loads' = loads /\ revived' = revived
      BY <2>8 DEF OpenPage, ClearSale, ghostVars
    <3>2. ASSUME NEW s \in Sales, Open(s)' PROVE Open(s)
      BY <1>n, <2>1, <2>2, <3>1, <3>2 DEF Open, Shown
    <3>3. QED BY <2>5, <3>1, <3>2
  <2>9. CASE \/ Unlink \/ PrefillFails \/ ListReservations
             \/ \E r \in Reservations : \/ CancelReservation(r)
                    \/ \E p \in Presses : ConvertReservationToOrder(r, p) \/ ConversionLost(r, p)
             \/ UNCHANGED checkoutVars
    <3>1. UNCHANGED <<saved, cart, screen, loads, revived>> /\ filling' \in {filling, None}
      BY <2>9 DEF Unlink, PrefillFails, ListReservations, CancelReservation,
         ConvertReservationToOrder, ConversionLost, checkoutVars, pageVars, ghostVars
    <3>2. ASSUME NEW s \in Sales, Open(s)' PROVE Open(s)
      BY <1>n, <2>1, <2>2, <3>1, <3>2 DEF Open, Shown
    <3>3. QED BY <2>5, <3>1, <3>2
  <2>10. QED BY <1>2, <2>3, <2>4, <2>6, <2>7, <2>8, <2>9 DEF Elsewhere
\* The steps of the presses: nothing is revived or loaded.
<1>a. ASSUME loads' = loads, revived' = revived,
             \A s \in Sales : Finished(s)' \subseteq Finished(s) /\ (Open(s)' => Open(s))
      PROVE  SalesCover'
  BY <1>a, <1>l, <1>s DEF SalesCover
<1>3. CASE LeavePage
  <2>1. UNCHANGED <<loads, revived, saved, cart, screen, filling>>
    BY <1>3 DEF LeavePage, ghostVars
  <2>2. \A p \in Presses : /\ press'[p].step = press[p].step /\ press'[p].sale = press[p].sale
                           /\ ~Clean(p)'
                           /\ press'[p].step \in {"done", "queued"} => press'[p] = press[p]
    BY <1>0, <1>3, LeaveStep DEF Clean, Running
  <2>3. ASSUME NEW s \in Sales PROVE Finished(s)' \subseteq Finished(s) /\ (Open(s)' => Open(s))
    BY <2>1, <2>2 DEF Finished, Open, Shown
  <2>4. QED BY <1>a, <2>1, <2>3
<1>4. CASE Reload
  <2>1. UNCHANGED <<loads, revived, saved>> /\ cart' = saved /\ filling' = None
    BY <1>4 DEF Reload, ghostVars
  <2>2. \A p \in Presses : /\ ~Clean(p)'
                           /\ press'[p].step \in {"done", "queued"} => press'[p] = press[p]
    BY <1>0, <1>4, ReloadStep DEF Clean, Running
  <2>3. ASSUME NEW s \in Sales PROVE Finished(s)' \subseteq Finished(s) /\ (Open(s)' => Open(s))
    BY <1>n, <2>1, <2>2 DEF Finished, Open, Shown
  <2>4. QED BY <1>a, <2>1, <2>3
<1>5. ASSUME NEW p \in Presses, NEW step \in {"create", "queue"}, Checkout(p, step) PROVE SalesCover'
  <2>1. /\ press'[p].sale = cart /\ press'[p].step \notin {"done", "queued"} /\ screen = None
        /\ \A q \in Presses \ {p} : press'[q] = press[q]
        /\ UNCHANGED <<loads, revived, cart, saved, screen, filling>>
    BY <1>0, <1>5, CheckoutStep DEF Checkout, pageVars, ghostVars
  <2>2. \A q \in Presses \ {p} : Clean(q)' <=> Clean(q)
    BY <2>1 DEF Clean, Running
  <2>3. ASSUME NEW s \in Sales PROVE Finished(s)' \subseteq Finished(s) /\ (Open(s)' => Open(s))
    <3>1. Finished(s)' \subseteq Finished(s)
      BY <2>1 DEF Finished
    <3>2. Open(s)' => Open(s)
      BY <2>1, <2>2 DEF Open, Shown
    <3>3. QED BY <3>1, <3>2
  <2>4. QED BY <1>a, <2>1, <2>3
<1>6. ASSUME NEW p \in Presses, OrderCreated(p) \/ Failed(p) PROVE SalesCover'
  <2>1. /\ press'[p].sale = press[p].sale /\ press'[p].left = press[p].left
        /\ press'[p].step \notin {"done", "queued"} /\ Running(p)
        /\ \A q \in Presses \ {p} : press'[q] = press[q]
    BY <1>0, <1>6, OrderCreatedStep, FailedStep DEF Running
  <2>2. UNCHANGED <<loads, revived, cart, saved, screen, filling>>
    BY <1>6 DEF OrderCreated, Failed, pageVars, ghostVars
  <2>3. \A q \in Presses : /\ (Clean(q)' => Clean(q)) /\ press'[q].sale = press[q].sale
                           /\ press[q].step = "done" => press'[q].step = "done"
    BY <2>1 DEF Clean, Running
  <2>4. ASSUME NEW s \in Sales PROVE Finished(s)' \subseteq Finished(s) /\ (Open(s)' => Open(s))
    <3>1. Finished(s)' \subseteq Finished(s)
      BY <2>1 DEF Finished
    <3>2. Open(s)' => Open(s)
      BY <2>2, <2>3 DEF Open, Shown
    <3>3. QED BY <3>1, <3>2
  <2>5. QED BY <1>a, <2>2, <2>4
<1>7. ASSUME NEW p \in Presses, Enqueued(p) \/ Completed(p) PROVE SalesCover'
  <2>1. /\ press'[p].sale = press[p].sale /\ press'[p].left = press[p].left
        /\ press'[p].step \in {"done", "queued"} /\ Running(p)
        /\ \A q \in Presses \ {p} : press'[q] = press[q]
    BY <1>0, <1>7, EnqueuedStep, CompletedStep DEF Running
  <2>2. UNCHANGED <<loads, revived, filling>> /\ saved' = None
    BY <1>7 DEF Enqueued, Completed, ghostVars
  <2>3. \A q \in Presses : /\ (Clean(q)' => Clean(q) /\ q # p) /\ press'[q].sale = press[q].sale
                           /\ press[q].step = "done" => press'[q].step = "done"
    BY <2>1 DEF Clean, Running
  <2>4. CASE press[p].left
    <3>1. cart' = cart /\ screen' = screen
      BY <1>7, <2>4 DEF Enqueued, Completed
    <3>2. ASSUME NEW s \in Sales PROVE Finished(s)' \subseteq Finished(s) /\ (Open(s)' => Open(s))
      <4>1. Finished(s)' \subseteq Finished(s)
        BY <2>1, <2>4 DEF Finished
      <4>2. Open(s)' => Open(s)
        BY <1>n, <2>2, <2>3, <3>1 DEF Open, Shown
      <4>3. QED BY <4>1, <4>2
    <3>3. QED BY <1>a, <2>2, <3>2
  <2>5. CASE ~press[p].left
    <3>1. \/ cart' = None
          \/ cart' = cart /\ screen' = p /\ press'[p].step = "done"
      BY <1>0, <1>7, <2>5, CompletedStep DEF Enqueued, Completed
    <3>2. Clean(p) /\ \A q \in Presses : ~Clean(q)'
      BY <1>0, <2>1, <2>3, <2>5 DEF Clean, PageWaits
    <3>3. ASSUME NEW s \in Sales, s \notin revived'
          PROVE  Cardinality(Finished(s))' + Due(s)' <= Loaded(s)'
      <4>1. CASE s = press[p].sale
        <5>1. Finished(s)' \subseteq Finished(s) \cup {p}
          BY <2>1 DEF Finished
        <5>2. Open(s)
          BY <3>2, <4>1 DEF Open
        <5>3. filling # s
          BY <1>n, <3>2, <4>1 DEF FillsAlone
        <5>4. ~Shown(s)'
          BY <1>n, <2>1, <3>1, <4>1 DEF Shown
        <5>5. ~Open(s)'
          BY <1>n, <2>2, <3>2, <5>3, <5>4 DEF Open
        <5>6. QED BY <1>h, <1>l, <2>2, <3>3, <5>1, <5>2, <5>5
      <4>2. CASE s # press[p].sale
        <5>1. Finished(s)' \subseteq Finished(s)
          BY <2>1, <4>2 DEF Finished
        <5>2. Shown(s)' => Shown(s)
          BY <1>n, <2>1, <2>3, <3>1, <4>2 DEF Shown
        <5>3. Open(s)' => Open(s)
          BY <1>n, <2>2, <3>2, <5>2 DEF Open
        <5>4. QED BY <1>l, <1>s, <2>2, <3>3, <5>1, <5>3
      <4>3. QED BY <4>1, <4>2
    <3>4. QED BY <3>3 DEF SalesCover
  <2>6. QED BY <2>4, <2>5
<1>8. QED BY <1>2, <1>3, <1>4, <1>5, <1>6, <1>7, StepKinds

------------------------------------------------------------------------------
(* Checkout: the theorems.                                                 *)

CheckoutInv == PressInv /\ Linked /\ LoadsCover /\ FillsAlone /\ SalesCover

LEMMA InitCheckout == CheckoutInit => CheckoutInv
<1> SUFFICES ASSUME CheckoutInit PROVE CheckoutInv
  OBVIOUS
<1>n. None \notin Sales /\ None \notin Presses /\ 0 \in 0..MaxLoads
  BY CheckoutAssumption DEF Sales
<1>0. NoPress \in Press /\ ~NoPress.left /\ NoPress.step = "unused" /\ NoPress.sale = None
      /\ NoPress.converts = None
  BY DEF NoPress, Press
<1>1. \A p \in Presses : press[p] = NoPress /\ recorded[p] = "none"
  BY DEF CheckoutInit
<1>2. \A p \in Presses : ~Running(p) /\ press[p].step = "unused" /\ press[p].sale = None
  BY <1>0, <1>1 DEF Running
<1>3. PageTyped /\ PressTyped
  BY <1>0 DEF CheckoutInit, PageTyped, PressTyped, Kinds
<1>4. RowTyped
  BY <1>n DEF CheckoutInit, RowTyped, Row
<1>5. PressInv
  BY <1>1, <1>2, <1>3, <1>4, CheckoutTypes DEF PressInv, PageWaits, SentIsRecorded, Clean
<1>6. Linked
  <2>1. \A r \in Reservations : r # None /\ reservation[r].order = None
    BY CheckoutAssumption DEF CheckoutInit
  <2>2. sending = {} /\ linked = None /\ filling = None
    BY DEF CheckoutInit
  <2>3. QED BY <1>n, <1>2, <2>1, <2>2 DEF Linked, FillsLinked, LinkedIsSale, LeftIsSale, SentIsSettled
<1>7. LoadsCover
  <2>1. ASSUME NEW r \in Reservations PROVE Cardinality(Converting(r)) + Here(r) <= loads[r]
    <3>1. Converting(r) = {} /\ Here(r) = 0 /\ loads[r] = 0
      BY <1>2, CheckoutAssumption DEF Converting, Here, CheckoutInit
    <3>2. QED BY <3>1, FS_EmptySet
  <2>2. QED BY <2>1 DEF LoadsCover
<1>8. FillsAlone
  BY DEF CheckoutInit, FillsAlone
<1>9. SalesCover
  <2>1. ASSUME NEW s \in Sales PROVE Cardinality(Finished(s)) + Due(s) <= Loaded(s)
    <3>1. Finished(s) = {}
      BY <1>2 DEF Finished
    <3>2. ~Open(s)
      BY <1>n, <1>2 DEF Open, Shown, Clean, CheckoutInit
    <3>3. Loaded(s) \in {0, 1} /\ Due(s) = 0 /\ Cardinality(Finished(s)) = 0
      BY <3>1, <3>2, FS_EmptySet DEF Loaded, Due, CheckoutInit
    <3>4. QED BY <3>3
  <2>2. QED BY <2>1 DEF SalesCover
<1>10. QED BY <1>5, <1>6, <1>7, <1>8, <1>9 DEF CheckoutInv

LEMMA CheckoutInductive == CheckoutSpec => []CheckoutInv
<1>1. CheckoutInv /\ [CheckoutNext]_checkoutVars => CheckoutInv'
  BY NextPress, NextLinked, NextLoads, NextFills, NextSales DEF CheckoutInv
<1>2. QED BY <1>1, InitCheckout, PTL DEF CheckoutSpec

\* SoldOnce of Checkout, for any number of sales, presses and loads: a press that records a sale
\* for the page that pressed uses up what might still be sold of it.
THEOREM SalesStaySoldOnce == CheckoutSpec => []SoldOnce
<1>1. CheckoutInv => SoldOnce
  <2> SUFFICES ASSUME CheckoutInv, NEW s \in Sales \ revived
               PROVE  Cardinality(SoldBy(s)) <= Loaded(s) + Cardinality(Mishaps(s))
    BY DEF SoldOnce
  <2>1. PressTyped /\ RowTyped /\ SentIsRecorded /\ Cardinality(Finished(s)) + Due(s) <= Loaded(s)
    BY CheckoutTypes DEF CheckoutInv, PressInv, SalesCover
  <2>2. Finished(s) \subseteq Presses /\ Mishaps(s) \subseteq Presses
    BY DEF Finished, Mishaps
  <2>3. SoldBy(s) \subseteq Finished(s) \cup Mishaps(s)
    <3>1. ASSUME NEW p \in SoldBy(s) PROVE p \in Finished(s) \cup Mishaps(s)
      <4>1. p \in Presses /\ press[p].sale = s /\ press[p].step \in {"done", "queued", "failed"}
        BY <2>1, <3>1, PressTypes DEF SoldBy, SentIsRecorded, PressTyped, Steps
      <4>2. QED BY <4>1 DEF Finished, Mishaps
    <3>2. QED BY <3>1
  <2>4. IsFiniteSet(Finished(s)) /\ IsFiniteSet(Mishaps(s))
        /\ Cardinality(Finished(s)) \in Nat /\ Cardinality(Mishaps(s)) \in Nat
    BY <2>2, SubsetsOfPresses
  <2>5. /\ IsFiniteSet(Finished(s) \cup Mishaps(s))
        /\ Cardinality(Finished(s) \cup Mishaps(s)) =
             Cardinality(Finished(s)) + Cardinality(Mishaps(s)) - Cardinality(Finished(s) \cap Mishaps(s))
    BY <2>4, FS_Union
  <2>6. Cardinality(Finished(s) \cap Mishaps(s)) \in Nat
    BY <2>2, SubsetsOfPresses
  <2>7. Cardinality(SoldBy(s)) <= Cardinality(Finished(s) \cup Mishaps(s)) /\ Cardinality(SoldBy(s)) \in Nat
    BY <2>3, <2>5, FS_Subset, FS_CardinalityType
  <2>8. Due(s) \in {0, 1} /\ Loaded(s) \in Nat
    BY <2>1, CheckoutAssumption DEF Due, Loaded, RowTyped
  <2>9. QED BY <2>1, <2>4, <2>5, <2>6, <2>7, <2>8
<1>2. QED BY <1>1, CheckoutInductive, PTL

\* ConversionIsOfItsSale of Checkout, for any number of reservations, presses and loads: what a
\* conversion names was linked while its sale was on the cart, and each load links it once.
THEOREM ConversionsNameTheirSale == CheckoutSpec => []ConversionIsOfItsSale
<1>1. CheckoutInv => ConversionIsOfItsSale
  <2> SUFFICES ASSUME CheckoutInv PROVE NamesItsSale /\ ConvertedOncePerLoad
    BY DEF ConversionIsOfItsSale
  <2>1. PressTyped /\ RowTyped /\ Linked /\ LoadsCover
    BY CheckoutTypes DEF CheckoutInv, PressInv
  <2>2. NamesItsSale
    <3>1. ASSUME NEW r \in Reservations, reservation[r].order # None
          PROVE  reservation[r].order \in Presses
      BY <2>1, <3>1 DEF RowTyped, Row
    <3>2. QED BY <2>1, <3>1 DEF NamesItsSale, Linked, SentIsSettled, Settles, IsSaleOf
  <2>3. ASSUME NEW r \in Reservations
        PROVE  Cardinality({p \in Presses : press[p].step = "done" /\ press[p].converts = r}) <= loads[r]
    <3> DEFINE D == {p \in Presses : press[p].step = "done" /\ press[p].converts = r}
    <3>1. D \subseteq Converting(r) /\ Converting(r) \subseteq Presses
      BY DEF Converting
    <3>2. Cardinality(D) <= Cardinality(Converting(r)) /\ Cardinality(D) \in Nat
          /\ Cardinality(Converting(r)) \in Nat
      BY <3>1, SubsetsOfPresses
    <3>3. Here(r) \in {0, 1} /\ loads[r] \in Nat
      BY <2>1, CheckoutAssumption DEF Here, RowTyped
    <3>4. QED BY <2>1, <3>2, <3>3 DEF LoadsCover
  <2>4. QED BY <2>2, <2>3 DEF ConvertedOncePerLoad
<1>2. QED BY <1>1, CheckoutInductive, PTL

------------------------------------------------------------------------------
(* Stocktake.                                                              *)

SessionRow == [status : {"none", "in-progress", "completed", "synced"}, total : Nat]
ScanRow == [session : SUBSET Sessions, status : {"none", "pending", "answered"}]
Note == [step : {"idle", "adding", "counting"}, session : SUBSET Sessions, total : Nat, shown : BOOLEAN]
Sync == [step : {"idle", "posting", "storing"}, session : SUBSET Sessions, left : SUBSET Scans,
         shown : BOOLEAN]
Display == [session : SUBSET Sessions, total : Nat, loading : BOOLEAN]

LEMMA StocktakeTypes ==
  StocktakeTypeOK <=> /\ sessions \in [Sessions -> SessionRow] /\ scans \in [Scans -> ScanRow]
                      /\ display \in Display /\ starting \subseteq Sessions
                      /\ noting \in [Scans -> Note] /\ sync \in [Syncs -> Sync]
                      /\ finished \subseteq Sessions /\ late \subseteq Scans /\ miscounted \subseteq Sessions
BY DEF StocktakeTypeOK, SessionRow, ScanRow, Note, Sync, Display

\* A pending scan that is not late is still in a session to be sent, and in every sync of it.
StillToSend ==
  \A c \in Scans, s \in Sessions :
    scans[c].session = {s} /\ scans[c].status = "pending" /\ s \notin finished /\ c \notin late =>
      /\ sessions[s].status = "in-progress"
      /\ \A y \in Syncs : sync[y].session = {s} => c \in sync[y].left

\* A call of handleScan has no row before it is added, and a row of its session after it.
Recorded ==
  /\ \A c \in Scans : noting[c].step = "idle" => noting[c].session = {}
  /\ \A c \in Scans : noting[c].step = "adding" => scans[c].session = {}
  /\ \A c \in Scans : noting[c].step = "counting" => scans[c].session = noting[c].session
  /\ \A c \in Scans : scans[c].status = "pending" => \E s \in Sessions : scans[c].session = {s}

\* The total of a session, and the one on the page: its scans but the one that is to be counted.
ToCount(s) == {c \in Noting(s) : noting[c].step = "counting"}
Counted(s) == Cardinality(Of(s)) - (IF ToCount(s) = {} THEN 0 ELSE 1)

Balanced(s) ==
  /\ sessions[s].total = Counted(s)
  /\ display.session = {s} => display.total = Counted(s)
  /\ \A c \in Noting(s) : /\ Noting(s) = {c} /\ noting[c].total = Counted(s) + 1
                          /\ display.session = {s} => noting[c].shown

TotalsAreCounts == \A s \in Sessions \ miscounted : Balanced(s)

StocktakeInv == StocktakeTypeOK /\ StillToSend /\ Recorded /\ TotalsAreCounts

LEMMA InitStocktake == StocktakeInit => StocktakeInv
<1> SUFFICES ASSUME StocktakeInit PROVE StocktakeInv
  OBVIOUS
<1>1. StocktakeTypeOK /\ StillToSend /\ Recorded
  BY DEF StocktakeInit, StocktakeTypeOK, StillToSend, Recorded,
         NoSessionRow, NoScan, Nothing, NotNoting, NoSync
<1>2. \A s \in Sessions : Of(s) = {} /\ Noting(s) = {}
  BY DEF StocktakeInit, Of, Noting, NoScan, NotNoting
<1>3. \A s \in Sessions : Counted(s) = 0
  <2>1. \A s \in Sessions : ToCount(s) = {}
    BY <1>2 DEF ToCount
  <2>2. QED BY <1>2, <2>1, FS_EmptySet DEF Counted
<1>4. TotalsAreCounts
  BY <1>2, <1>3 DEF StocktakeInit, TotalsAreCounts, Balanced, NoSessionRow, Nothing
<1>5. QED BY <1>1, <1>4 DEF StocktakeInv

LEMMA OfIsFinite == \A s : IsFiniteSet(Of(s)) /\ Cardinality(Of(s)) \in Nat
<1> SUFFICES ASSUME NEW s PROVE IsFiniteSet(Of(s)) /\ Cardinality(Of(s)) \in Nat
  OBVIOUS
<1>1. Of(s) \subseteq Scans
  BY DEF Of
<1>2. QED BY <1>1, StocktakeAssumption, FS_Subset, FS_CardinalityType

LEMMA NextStocktake == StocktakeInv /\ [StocktakeNext]_stocktakeVars => StocktakeInv'
<1> SUFFICES ASSUME StocktakeInv, [StocktakeNext]_stocktakeVars PROVE StocktakeInv'
  OBVIOUS
<1>0. /\ StillToSend /\ Recorded /\ TotalsAreCounts
      /\ sessions \in [Sessions -> SessionRow] /\ scans \in [Scans -> ScanRow]
      /\ display \in Display /\ starting \subseteq Sessions
      /\ noting \in [Scans -> Note] /\ sync \in [Syncs -> Sync]
      /\ finished \subseteq Sessions /\ late \subseteq Scans /\ miscounted \subseteq Sessions
  BY StocktakeTypes DEF StocktakeInv
<1> USE <1>0
<1>q. ASSUME sessions' \in [Sessions -> SessionRow], scans' \in [Scans -> ScanRow],
             display' \in Display, starting' \subseteq Sessions,
             noting' \in [Scans -> Note], sync' \in [Syncs -> Sync],
             finished' \subseteq Sessions, late' \subseteq Scans, miscounted' \subseteq Sessions,
             StillToSend', Recorded', TotalsAreCounts'
      PROVE  StocktakeInv'
  BY <1>q DEF StocktakeInv, StocktakeTypeOK, SessionRow, ScanRow, Note, Sync, Display
\* Steps that record and count no scan keep what is counted.
<1>u. ASSUME UNCHANGED <<scans, noting>>
      PROVE  \A s \in Sessions : Of(s)' = Of(s) /\ Noting(s)' = Noting(s) /\ Counted(s)' = Counted(s)
  BY <1>u DEF Of, Noting, ToCount, Counted
<1>v. \A s : Noting(s) \subseteq Scans
  BY DEF Noting
\* Steps that add no session to the page and change no total keep the totals.
<1>w. ASSUME UNCHANGED <<scans, noting, miscounted>>,
             \A s \in Sessions : sessions'[s].total = sessions[s].total,
             display'.session = {} \/ UNCHANGED <<display.session, display.total>>
      PROVE  TotalsAreCounts'
  <2> SUFFICES ASSUME NEW s \in Sessions \ miscounted PROVE Balanced(s)'
    BY <1>w DEF TotalsAreCounts
  <2>1. Noting(s)' = Noting(s) /\ Counted(s)' = Counted(s)
    BY <1>u, <1>w
  <2>2. display'.session = {s} => display.session = {s} /\ display'.total = display.total
    BY <1>w
  <2>3. Balanced(s)
    BY DEF TotalsAreCounts
  <2>4. QED BY <1>w, <2>1, <2>2, <2>3 DEF Balanced
<1>1. ASSUME NEW s \in Sessions, StartSession(s) PROVE StocktakeInv'
  <2>1. /\ sessions' \in [Sessions -> SessionRow] /\ sessions'[s].status = "in-progress"
        /\ \A t \in Sessions \ {s} : sessions'[t] = sessions[t]
        /\ \A t \in Sessions : sessions'[t].total = sessions[t].total
    BY <1>1 DEF StartSession, SessionRow
  <2>2. UNCHANGED <<scans, display, noting, sync, finished, late, miscounted>> /\ starting' \subseteq Sessions
    BY <1>1 DEF StartSession
  <2>3. StillToSend' /\ Recorded'
    BY <2>1, <2>2 DEF StillToSend, Recorded
  <2>4. TotalsAreCounts'
    BY <1>w, <2>1, <2>2
  <2>5. QED BY <1>q, <2>1, <2>2, <2>3, <2>4
<1>2. ASSUME NEW s \in Sessions, SessionStarted(s) PROVE StocktakeInv'
  <2>1. /\ display' \in Display /\ display'.session = {s} /\ display'.total = 0
    BY <1>2 DEF SessionStarted, Display
  <2>2. /\ UNCHANGED <<sessions, scans, noting, sync, finished, late>>
        /\ starting' \subseteq Sessions /\ miscounted' \subseteq Sessions
        /\ s \notin miscounted' => Of(s) = {} /\ Noting(s) = {}
        /\ \A t : t \notin miscounted' => t \notin miscounted
    BY <1>2 DEF SessionStarted
  <2>3. StillToSend' /\ Recorded'
    BY <2>2 DEF StillToSend, Recorded
  <2>4. s \notin miscounted' => Counted(s) = 0
    <3>1. s \notin miscounted' => ToCount(s) = {}
      BY <2>2 DEF ToCount
    <3>2. Of(s) = {} => Cardinality(Of(s)) = 0
      BY FS_EmptySet
    <3>3. QED BY <2>2, <3>1, <3>2 DEF Counted
  <2>5. TotalsAreCounts'
    BY <1>u, <1>v, <2>1, <2>2, <2>4 DEF TotalsAreCounts, Balanced
  <2>6. QED BY <1>q, <2>1, <2>2, <2>3, <2>5
<1>3. ASSUME NEW s \in Sessions, SessionLoaded(s) PROVE StocktakeInv'
  <2>1. /\ UNCHANGED <<sessions, scans, starting, noting, sync, finished, late>>
        /\ miscounted' \subseteq Sessions
        /\ s \notin miscounted' => Noting(s) = {}
        /\ \A t : t \notin miscounted' => t \notin miscounted
    BY <1>3 DEF SessionLoaded
  <2>2. display' \in Display /\ display'.session = {s} /\ display'.total = sessions[s].total
    BY <1>3 DEF SessionLoaded, Display, SessionRow
  <2>3. StillToSend' /\ Recorded'
    BY <2>1 DEF StillToSend, Recorded
  <2>4. ASSUME NEW t \in Sessions, t \notin miscounted' PROVE Balanced(t)'
    <3>1. Noting(t)' = Noting(t) /\ Counted(t)' = Counted(t) /\ t \notin miscounted
      BY <1>u, <2>1, <2>4
    <3>2. display'.session = {t} => t = s /\ Noting(t) = {}
      BY <2>1, <2>2, <2>4
    <3>3. Balanced(t)
      BY <3>1 DEF TotalsAreCounts
    <3>4. QED BY <2>1, <2>2, <3>1, <3>2, <3>3 DEF Balanced
  <2>5. TotalsAreCounts'
    BY <2>4 DEF TotalsAreCounts
  <2>6. QED BY <1>q, <2>1, <2>2, <2>3, <2>5
<1>4. CASE NoneLoaded
  <2>1. /\ UNCHANGED <<sessions, scans, starting, noting, sync, finished, late, miscounted>>
        /\ display' \in Display /\ UNCHANGED <<display.session, display.total>>
    BY <1>4 DEF NoneLoaded, Display
  <2>2. StillToSend' /\ Recorded'
    BY <2>1 DEF StillToSend, Recorded
  <2>3. TotalsAreCounts'
    BY <1>w, <2>1
  <2>4. QED BY <1>q, <2>1, <2>2, <2>3
<1>5. ASSUME NEW s \in Sessions, EndSession(s) PROVE StocktakeInv'
  <2>1. /\ sessions' \in [Sessions -> SessionRow]
        /\ \A t \in Sessions \ {s} : sessions'[t] = sessions[t]
        /\ \A t \in Sessions : sessions'[t].total = sessions[t].total
        /\ display' \in Display /\ display'.session = {}
    BY <1>5 DEF EndSession, SessionRow, Display
  <2>2. /\ UNCHANGED <<scans, starting, noting, sync, late, miscounted>>
        /\ finished' \subseteq Sessions /\ s \in finished' /\ \A t : t \notin finished' => t \notin finished
    BY <1>5 DEF EndSession
  <2>3. StillToSend' /\ Recorded'
    BY <2>1, <2>2 DEF StillToSend, Recorded
  <2>4. TotalsAreCounts'
    BY <1>w, <2>1, <2>2
  <2>5. QED BY <1>q, <2>1, <2>2, <2>3, <2>4
<1>6. CASE ReloadPage
  <2>1. /\ display' \in Display /\ display'.session = {}
        /\ noting' \in [Scans -> Note] /\ \A c \in Scans : noting'[c].session = {} /\ noting'[c].step = "idle"
        /\ sync' \in [Syncs -> Sync] /\ \A y \in Syncs : sync'[y].session = {}
    BY <1>6 DEF ReloadPage, Nothing, Display, NotNoting, Note, NoSync, Sync
  <2>2. /\ UNCHANGED <<sessions, scans, finished, late>>
        /\ starting' \subseteq Sessions /\ miscounted' \subseteq Sessions
        /\ \A t \in Sessions : t \notin miscounted' => t \notin miscounted /\ Noting(t) = {}
    BY <1>6 DEF ReloadPage
  <2>3. StillToSend' /\ Recorded'
    BY <2>1, <2>2 DEF StillToSend, Recorded
  <2>4. \A t \in Sessions : t \notin miscounted' => Noting(t)' = {} /\ Counted(t)' = Counted(t)
    BY <2>1, <2>2 DEF Noting, Of, ToCount, Counted
  <2>5. TotalsAreCounts'
    BY <2>1, <2>2, <2>4 DEF TotalsAreCounts, Balanced
  <2>6. QED BY <1>q, <2>1, <2>2, <2>3, <2>5
<1>7. CASE LeaveStocktake
  <2>1. /\ display' \in Display /\ display'.session = {}
        /\ noting' \in [Scans -> Note]
        /\ \A c \in Scans : /\ noting'[c].session = noting[c].session /\ noting'[c].step = noting[c].step
                            /\ noting'[c].total = noting[c].total
        /\ sync' \in [Syncs -> Sync]
        /\ \A y \in Syncs : sync'[y].session = sync[y].session /\ sync'[y].left = sync[y].left
    BY <1>7 DEF LeaveStocktake, Nothing, Display, Note, Sync
  <2>2. UNCHANGED <<sessions, scans, finished, late, miscounted>> /\ starting' \subseteq Sessions
    BY <1>7 DEF LeaveStocktake
  <2>3. StillToSend' /\ Recorded'
    BY <2>1, <2>2 DEF StillToSend, Recorded
  <2>4. \A t \in Sessions : Noting(t)' = Noting(t) /\ ToCount(t)' = ToCount(t) /\ Of(t)' = Of(t)
    BY <2>1, <2>2 DEF Noting, Of, ToCount
  <2>5. \A t \in Sessions : Counted(t)' = Counted(t)
    BY <2>4 DEF Counted
  <2>6. TotalsAreCounts'
    BY <1>v, <2>1, <2>2, <2>4, <2>5 DEF TotalsAreCounts, Balanced
  <2>7. QED BY <1>q, <2>1, <2>2, <2>3, <2>6
<1>8. ASSUME NEW c \in Scans, NEW s \in Sessions, HandleScan(c, s) PROVE StocktakeInv'
  <2>1. /\ noting' \in [Scans -> Note]
        /\ noting'[c].step = "adding" /\ noting'[c].session = {s}
        /\ noting'[c].total = display.total + 1 /\ noting'[c].shown
        /\ \A d \in Scans \ {c} : noting'[d] = noting[d]
    BY <1>8 DEF HandleScan, Note, Display
  <2>2. /\ UNCHANGED <<sessions, scans, display, starting, sync, finished, late>>
        /\ display.session = {s} /\ scans[c].session = {} /\ noting[c].session = {}
        /\ miscounted' \subseteq Sessions
        /\ s \notin miscounted' => Noting(s) = {}
        /\ \A t : t \notin miscounted' => t \notin miscounted
    BY <1>8 DEF HandleScan, NoScan, NotNoting
  <2>3. StillToSend' /\ Recorded'
    BY <2>1, <2>2 DEF StillToSend, Recorded
  <2>4. ASSUME NEW t \in Sessions
        PROVE  Of(t)' = Of(t) /\ (t # s => Noting(t)' = Noting(t)) /\ ToCount(t)' = ToCount(t)
    <3>1. noting[c].step # "counting"
      BY <1>8 DEF HandleScan, NotNoting
    <3>2. QED BY <2>1, <2>2, <3>1 DEF Of, Noting, ToCount
  <2>5. \A t \in Sessions : Counted(t)' = Counted(t)
    BY <2>4 DEF Counted
  <2>6. s \notin miscounted' => Noting(s)' = {c}
    <3>1. \A d \in Scans \ {c} : s \notin miscounted' => noting'[d].session # {s}
      <4>1. Noting(s) = {} => \A d \in Scans : noting[d].session # {s}
        BY DEF Noting
      <4>2. QED BY <2>1, <2>2, <4>1
    <3>2. QED BY <2>1, <3>1 DEF Noting
  <2>7. ASSUME NEW t \in Sessions \ {s}, t \notin miscounted' PROVE Balanced(t)'
    <3>1. Noting(t)' = Noting(t) /\ Counted(t)' = Counted(t) /\ t \notin miscounted
      BY <2>2, <2>4, <2>5, <2>7
    <3>2. c \notin Noting(t) /\ Noting(t) \subseteq Scans
      BY <2>2 DEF Noting
    <3>3. \A d \in Noting(t) : noting'[d] = noting[d]
      BY <2>1, <3>2
    <3>4. Balanced(t)
      BY <3>1 DEF TotalsAreCounts
    <3>5. QED BY <2>2, <3>1, <3>3, <3>4 DEF Balanced
  <2>8. ASSUME s \notin miscounted' PROVE Balanced(s)'
    <3>1. Counted(s)' = Counted(s) /\ sessions[s].total = Counted(s) /\ display.total = Counted(s)
      BY <2>2, <2>5, <2>8 DEF TotalsAreCounts, Balanced
    <3>2. QED BY <2>1, <2>2, <2>6, <2>8, <3>1 DEF Balanced
  <2>9. TotalsAreCounts'
    BY <2>7, <2>8 DEF TotalsAreCounts
  <2>10. QED BY <1>q, <2>1, <2>2, <2>3, <2>9
<1>9. ASSUME NEW c \in Scans, NEW s \in Sessions, AddScan(c, s) PROVE StocktakeInv'
  <2>1. /\ scans' \in [Scans -> ScanRow] /\ noting' \in [Scans -> Note]
        /\ scans'[c].session = {s} /\ scans'[c].status = "pending"
        /\ noting'[c].step = "counting" /\ noting'[c].session = {s}
        /\ noting'[c].total = noting[c].total /\ noting'[c].shown = noting[c].shown
        /\ \A d \in Scans \ {c} : scans'[d] = scans[d] /\ noting'[d] = noting[d]
    BY <1>9 DEF AddScan, ScanRow, Note
  <2>2. /\ UNCHANGED <<sessions, display, starting, sync, finished, miscounted>>
        /\ late' \subseteq Scans
        /\ c \notin late' => Syncing(s) = {} /\ sessions[s].status = "in-progress"
        /\ \A d : d \notin late' => d \notin late
        /\ noting[c].step = "adding" /\ noting[c].session = {s} /\ scans[c].session = {}
    BY <1>9 DEF AddScan, Recorded
  <2>3. StillToSend'
    <3>1. ASSUME NEW d \in Scans, NEW t \in Sessions, scans'[d].session = {t}, scans'[d].status = "pending",
                 t \notin finished', d \notin late'
          PROVE  /\ sessions'[t].status = "in-progress"
                 /\ \A y \in Syncs : sync'[y].session = {t} => d \in sync'[y].left
      <4>1. CASE d = c
        BY <2>1, <2>2, <3>1, <4>1 DEF Syncing
      <4>2. CASE d # c
        BY <2>1, <2>2, <3>1, <4>2 DEF StillToSend
      <4>3. QED BY <4>1, <4>2
    <3>2. QED BY <3>1 DEF StillToSend
  <2>4. Recorded'
    <3>1. ASSUME NEW d \in Scans, scans'[d].status = "pending" PROVE \E t \in Sessions : scans'[d].session = {t}
      <4>1. CASE d = c
        BY <2>1, <4>1
      <4>2. CASE d # c
        BY <2>1, <3>1, <4>2 DEF Recorded
      <4>3. QED BY <4>1, <4>2
    <3>2. \A d \in Scans : /\ noting'[d].step = "idle" => noting'[d].session = {}
                           /\ noting'[d].step = "adding" => scans'[d].session = {}
                           /\ noting'[d].step = "counting" => scans'[d].session = noting'[d].session
      BY <2>1, <2>2 DEF Recorded
    <3>3. QED BY <3>1, <3>2 DEF Recorded
  <2>5. \A t \in Sessions : Noting(t)' = Noting(t)
    BY <2>1, <2>2 DEF Noting
  <2>6. \A t \in Sessions \ {s} : Counted(t)' = Counted(t)
    <3>1. ASSUME NEW t \in Sessions \ {s} PROVE Of(t)' = Of(t) /\ ToCount(t)' = ToCount(t)
      <4>1. Of(t)' = Of(t)
        BY <2>1, <2>2 DEF Of
      <4>2. c \notin Noting(t) /\ Noting(t) \subseteq Scans /\ Noting(t)' = Noting(t)
        BY <2>2, <2>5 DEF Noting
      <4>3. \A d \in Noting(t) : noting'[d] = noting[d]
        BY <2>1, <4>2
      <4>4. ToCount(t)' = ToCount(t)
        BY <4>2, <4>3 DEF ToCount
      <4>5. QED BY <4>1, <4>4
    <3>2. QED BY <3>1 DEF Counted
  <2>7. s \notin miscounted => Counted(s)' = Counted(s)
    <3>1. c \in Noting(s)
      BY <2>2 DEF Noting
    <3>2. s \notin miscounted => ToCount(s) = {}
      BY <2>2, <3>1 DEF TotalsAreCounts, Balanced, ToCount
    <3>3. c \in ToCount(s)'
      BY <2>1, <2>5, <3>1 DEF ToCount
    <3>4. Of(s)' = Of(s) \cup {c} /\ c \notin Of(s)
      BY <2>1, <2>2 DEF Of
    <3>5. Cardinality(Of(s))' = Cardinality(Of(s)) + 1
      BY <3>4, OfIsFinite, FS_AddElement
    <3>6. QED BY <3>2, <3>3, <3>5, OfIsFinite DEF Counted
  <2>8. \A d \in Scans : noting'[d].total = noting[d].total /\ noting'[d].shown = noting[d].shown
    BY <2>1
  <2>9. TotalsAreCounts'
    BY <1>v, <2>2, <2>5, <2>6, <2>7, <2>8 DEF TotalsAreCounts, Balanced
  <2>10. QED BY <1>q, <2>1, <2>2, <2>3, <2>4, <2>9
<1>10. ASSUME NEW c \in Scans, NEW s \in Sessions, CountScan(c, s) PROVE StocktakeInv'
  <2>1. /\ sessions' \in [Sessions -> SessionRow] /\ sessions'[s].total = noting[c].total
        /\ \A t \in Sessions : sessions'[t].status = sessions[t].status
        /\ \A t \in Sessions \ {s} : sessions'[t] = sessions[t]
    BY <1>10 DEF CountScan, SessionRow, Note
  <2>2. /\ noting' \in [Scans -> Note] /\ noting'[c].session = {} /\ noting'[c].step = "idle"
        /\ \A d \in Scans \ {c} : noting'[d] = noting[d]
    BY <1>10 DEF CountScan, Note, NotNoting
  <2>3. /\ display' \in Display /\ display'.session = display.session
        /\ noting[c].shown /\ display.session # {} => display'.total = display.total + 1
    BY <1>10 DEF CountScan, Display
  <2>4. /\ UNCHANGED <<scans, starting, sync, finished, late>>
        /\ noting[c].session = {s} /\ noting[c].step = "counting"
        /\ miscounted' \subseteq Sessions
        /\ \A t : t \notin miscounted' => t \notin miscounted
        /\ \A t \in Sessions \ {s} : display.session = {t} => t \in miscounted' \/ UNCHANGED display
    BY <1>10 DEF CountScan, Display
  <2>5. StillToSend' /\ Recorded'
    BY <2>1, <2>2, <2>4 DEF StillToSend, Recorded
  <2>6. \A t \in Sessions : Of(t)' = Of(t)
    BY <2>4 DEF Of
  <2>7. ASSUME NEW t \in Sessions \ {s}, t \notin miscounted' PROVE Balanced(t)'
    <3>1. Noting(t)' = Noting(t) /\ c \notin Noting(t) /\ ToCount(t)' = ToCount(t)
      BY <2>2, <2>4 DEF Noting, ToCount
    <3>2. Counted(t)' = Counted(t)
      BY <2>6, <3>1 DEF Counted
    <3>3. \A d \in Noting(t) : noting'[d] = noting[d]
      BY <1>v, <2>2, <3>1
    <3>4. display'.session = {t} => display'.total = display.total
      BY <2>3, <2>4, <2>7
    <3>5. Balanced(t)
      BY <2>4, <2>7 DEF TotalsAreCounts
    <3>6. QED BY <2>1, <2>3, <3>1, <3>2, <3>3, <3>4, <3>5 DEF Balanced
  <2>8. ASSUME s \notin miscounted' PROVE Balanced(s)'
    <3>1. c \in Noting(s) /\ c \in ToCount(s)
      BY <2>4 DEF Noting, ToCount
    <3>2. /\ Noting(s) = {c} /\ noting[c].total = Counted(s) + 1
          /\ display.session = {s} => noting[c].shown /\ display.total = Counted(s)
      BY <2>4, <2>8, <3>1 DEF TotalsAreCounts, Balanced
    <3>3. Noting(s)' = {}
      <4>1. \A d \in Scans \ {c} : noting'[d].session # {s}
        BY <2>2, <3>2 DEF Noting
      <4>2. QED BY <2>2, <4>1 DEF Noting
    <3>4. Counted(s)' = Cardinality(Of(s)) /\ Counted(s) = Cardinality(Of(s)) - 1
      BY <2>6, <3>1, <3>3, OfIsFinite DEF Counted, ToCount
    <3>5. sessions'[s].total = Counted(s)'
      BY <2>1, <3>2, <3>4, OfIsFinite
    <3>6. display'.session = {s} => display'.total = Counted(s)'
      BY <2>3, <3>2, <3>4, OfIsFinite
    <3>7. QED BY <3>3, <3>5, <3>6 DEF Balanced
  <2>9. TotalsAreCounts'
    BY <2>7, <2>8 DEF TotalsAreCounts
  <2>10. QED BY <1>q, <2>1, <2>2, <2>3, <2>4, <2>5, <2>9
<1>11. ASSUME NEW y \in Syncs, NEW s \in Sessions, SyncBegins(y, s) PROVE StocktakeInv'
  <2>1. /\ UNCHANGED <<sessions, scans, display, starting, noting, finished, late, miscounted>>
        /\ sync' \in [Syncs -> Sync] /\ sync'[y].session = {s} /\ sync'[y].left = Pending(s)
        /\ \A z \in Syncs \ {y} : sync'[z] = sync[z]
    BY <1>11 DEF SyncBegins, Sync, Pending, Of
  <2>2. StillToSend'
    <3>1. \A d \in Scans : scans[d].session = {s} /\ scans[d].status = "pending" => d \in Pending(s)
      BY DEF Pending, Of
    <3>2. ASSUME NEW d \in Scans, NEW t \in Sessions, scans[d].session = {t}, scans[d].status = "pending",
                 t \notin finished, d \notin late, NEW z \in Syncs, sync'[z].session = {t}
          PROVE  d \in sync'[z].left
      <4>1. CASE z = y
        BY <2>1, <3>1, <3>2, <4>1
      <4>2. CASE z # y
        BY <2>1, <3>2, <4>2 DEF StillToSend
      <4>3. QED BY <4>1, <4>2
    <3>3. QED BY <2>1, <3>2 DEF StillToSend
  <2>3. Recorded'
    BY <2>1 DEF Recorded
  <2>4. TotalsAreCounts'
    BY <1>w, <2>1
  <2>5. QED BY <1>q, <2>1, <2>2, <2>3, <2>4
<1>12. ASSUME NEW y \in Syncs, SyncAnswered(y) \/ SyncFails(y) PROVE StocktakeInv'
  <2>1. /\ UNCHANGED <<sessions, scans, display, starting, noting, finished, late, miscounted>>
        /\ sync' \in [Syncs -> Sync]
        /\ \A s \in Sessions : sync'[y].session = {s} => sync[y].session = {s} /\ sync'[y].left = sync[y].left
        /\ \A z \in Syncs \ {y} : sync'[z] = sync[z]
    <3>1. CASE SyncAnswered(y)
      BY <3>1 DEF SyncAnswered, Sync
    <3>2. CASE SyncFails(y)
      BY <3>2 DEF SyncFails, Sync, NoSync
    <3>3. QED BY <1>12, <3>1, <3>2
  <2>2. StillToSend' /\ Recorded'
    BY <2>1 DEF StillToSend, Recorded
  <2>3. TotalsAreCounts'
    BY <1>w, <2>1
  <2>4. QED BY <1>q, <2>1, <2>2, <2>3
<1>13. ASSUME NEW y \in Syncs, NEW c \in Scans, AnswerStored(y, c) PROVE StocktakeInv'
  <2>1. /\ UNCHANGED <<sessions, display, starting, noting, finished, late, miscounted>>
        /\ scans' \in [Scans -> ScanRow] /\ scans'[c].status = "answered"
        /\ \A d \in Scans : scans'[d].session = scans[d].session
        /\ \A d \in Scans \ {c} : scans'[d] = scans[d]
        /\ sync' \in [Syncs -> Sync] /\ sync'[y].session = sync[y].session
        /\ sync'[y].left = sync[y].left \ {c} /\ \A z \in Syncs \ {y} : sync'[z] = sync[z]
    BY <1>13 DEF AnswerStored, ScanRow, Sync
  <2>2. StillToSend'
    <3>1. \A z \in Syncs : sync'[z].session = sync[z].session /\ sync[z].left \subseteq sync'[z].left \cup {c}
      BY <2>1
    <3>2. QED BY <2>1, <3>1 DEF StillToSend
  <2>3. Recorded'
    BY <2>1 DEF Recorded
  <2>4. \A s \in Sessions : Of(s)' = Of(s) /\ Noting(s)' = Noting(s) /\ ToCount(s)' = ToCount(s)
    BY <2>1 DEF Of, Noting, ToCount
  <2>5. TotalsAreCounts'
    BY <2>1, <2>4 DEF TotalsAreCounts, Balanced, Counted
  <2>6. QED BY <1>q, <2>1, <2>2, <2>3, <2>5
<1>14. ASSUME NEW y \in Syncs, NEW s \in Sessions, SyncEnds(y, s) PROVE StocktakeInv'
  <2>1. /\ sessions' \in [Sessions -> SessionRow]
        /\ \A t \in Sessions \ {s} : sessions'[t] = sessions[t]
        /\ \A t \in Sessions : sessions'[t].total = sessions[t].total
    BY <1>14 DEF SyncEnds, SessionRow
  <2>2. /\ UNCHANGED <<scans, display, starting, noting, finished, late, miscounted>>
        /\ sync' \in [Syncs -> Sync] /\ sync'[y].session = {} /\ \A z \in Syncs \ {y} : sync'[z] = sync[z]
        /\ sync[y].session = {s} /\ sync[y].left = {}
    BY <1>14 DEF SyncEnds, NoSync, Sync
  <2>p. ASSUME NEW d \in Scans, NEW t \in Sessions, scans[d].session = {t}, scans[d].status = "pending",
               t \notin finished, d \notin late
        PROVE  /\ sessions'[t].status = "in-progress"
               /\ \A z \in Syncs : sync'[z].session = {t} => d \in sync'[z].left
    <3>1. t # s
      BY <2>2, <2>p DEF StillToSend
    <3>2. sessions'[t].status = "in-progress"
      BY <2>1, <2>p, <3>1 DEF StillToSend
    <3>3. \A z \in Syncs : sync'[z].session = {t} => sync'[z] = sync[z]
      BY <2>2
    <3>4. QED BY <2>p, <3>2, <3>3 DEF StillToSend
  <2>3. StillToSend' /\ Recorded'
    BY <2>2, <2>p DEF StillToSend, Recorded
  <2>4. TotalsAreCounts'
    BY <1>w, <2>1, <2>2
  <2>5. QED BY <1>q, <2>1, <2>2, <2>3, <2>4
<1>15. CASE UNCHANGED stocktakeVars
  <2>1. UNCHANGED <<sessions, scans, display, starting, noting, sync, finished, late, miscounted>>
    BY <1>15 DEF stocktakeVars
  <2>2. StillToSend' /\ Recorded'
    BY <2>1 DEF StillToSend, Recorded
  <2>3. TotalsAreCounts'
    BY <1>w, <2>1
  <2>4. QED BY <1>q, <2>1, <2>2, <2>3
<1>16. QED
  BY <1>1, <1>2, <1>3, <1>4, <1>5, <1>6, <1>7, <1>8, <1>9, <1>10, <1>11, <1>12, <1>13, <1>14, <1>15
     DEF StocktakeNext

\* StocktakeAccounted of Stocktake, for any number of sessions, scans and syncs: a scan that nobody
\* can send any more was recorded during or after a sync of its session, or its user ended it; and
\* a session counts its scans when none overlapped.
THEOREM StocktakeStaysAccounted == StocktakeSpec => []StocktakeAccounted
<1>1. StocktakeInv => StocktakeAccounted
  <2> SUFFICES ASSUME StocktakeInv PROVE StocktakeAccounted
    OBVIOUS
  <2>1. /\ StillToSend /\ Recorded /\ TotalsAreCounts /\ scans \in [Scans -> ScanRow]
    BY StocktakeTypes DEF StocktakeInv
  <2>2. \A s \in Sessions \ miscounted : Noting(s) = {} => sessions[s].total = Cardinality(Of(s))
    BY <2>1, OfIsFinite DEF TotalsAreCounts, Balanced, Counted, ToCount
  <2>3. ASSUME NEW c \in Stranded PROVE scans[c].session \subseteq finished \/ c \in late
    <3>1. PICK s \in Sessions : c \in Scans /\ scans[c].session = {s} /\ scans[c].status = "pending"
      BY <2>1, <2>3 DEF Stranded, Recorded
    <3>2. sessions[s].status # "in-progress"
      BY <2>3, <3>1 DEF Stranded, CanBeSent
    <3>3. QED BY <2>1, <3>1, <3>2 DEF StillToSend
  <2>4. QED BY <2>2, <2>3 DEF StocktakeAccounted
<1>2. QED BY <1>1, InitStocktake, NextStocktake, PTL DEF StocktakeSpec

------------------------------------------------------------------------------
(* Passkeys.                                                               *)

LEMMA AtMostOne ==
  ASSUME NEW S, \A a, b \in S : a = b
  PROVE  Cardinality(S) <= 1
<1>1. CASE S = {}
  BY <1>1, FS_EmptySet
<1>2. CASE S # {}
  <2>1. PICK a : S = {a}
    BY <1>2
  <2>2. QED BY <2>1, FS_Singleton
<1>3. QED BY <1>1, <1>2

------------------------------------------------------------------------------
(* Passkeys: types.                                                        *)

Counters == 0..NoKey
Counts == 0..MaxCount
Numbers == 0..issued
DialogSteps == {"idle", "found", "verifying", "verified", "writing", "done", "refused"}
Dialog == [step : DialogSteps, op : Purposes \cup {"delete", "none"},
           challenge : Numbers, key : SUBSET KeyCalls, count : Counts, document : Documents]

LEMMA PasskeysTypes ==
  PasskeysTypeOK <=> /\ issued \in 0..MaxChallenges /\ challenge \in [Purposes -> Numbers]
                     /\ passkeys \in Documents /\ keys \in Documents
                     /\ dialog \in [KeyCalls -> Dialog]
                     /\ mingled \in BOOLEAN /\ twice \subseteq 1..issued
BY DEF PasskeysTypeOK, Dialog, DialogSteps, Counts, Numbers

LEMMA Ranges ==
  /\ 0 \in Counters /\ NoKey \in Counters /\ 0 \in Counts
  /\ \A n \in Counts : n \in Counters
  /\ \A n \in Counters : n # NoKey => n \in Counts
BY PasskeysAssumption DEF Counters, Counts, NoKey

LEMMA Numbered ==
  ASSUME issued \in 0..MaxChallenges
  PROVE  /\ 0 \in Numbers /\ issued \in Nat
         /\ \A n \in Numbers : n # 0 => n \in 1..issued
         /\ \A n \in Numbers : n \in Nat /\ n # issued + 1
BY PasskeysAssumption DEF Numbers

LEMMA NoDialogType == issued \in 0..MaxChallenges => NoDialog \in Dialog
BY Numbered, Ranges DEF NoDialog, NoDocument, Dialog, DialogSteps, Documents, Counters

LEMMA DialogUpdates ==
  ASSUME NEW x \in Dialog
  PROVE  /\ \A step \in DialogSteps : [x EXCEPT !.step = step] \in Dialog
         /\ \A n \in Numbers : [x EXCEPT !.step = "verifying", !.challenge = n] \in Dialog
         /\ \A n \in Counts : [x EXCEPT !.count = n] \in Dialog
         /\ \A document \in Documents : [x EXCEPT !.step = "writing", !.document = document] \in Dialog
BY DEF Dialog, DialogSteps

LEMMA AlteredType ==
  ASSUME NEW document \in Documents, NEW c \in KeyCalls, dialog[c] \in Dialog
  PROVE  Altered(document, c) \in Documents
<1>1. dialog[c].count \in Counters
  BY Ranges DEF Dialog
<1>2. document \in [KeyCalls -> Counters]
  BY DEF Documents, Counters
<1>3. Altered(document, c) \in [KeyCalls -> Counters]
  BY <1>1, <1>2, Ranges DEF Altered
<1>4. QED BY <1>3 DEF Documents, Counters

\* Where a call stands after a step.
LEMMA GoesStep ==
  ASSUME PasskeysTypeOK, NEW c \in KeyCalls, NEW step \in DialogSteps, Goes(c, step)
  PROVE  /\ dialog' \in [KeyCalls -> Dialog]
         /\ dialog'[c].step = step /\ dialog'[c].op = dialog[c].op
         /\ dialog'[c].challenge = dialog[c].challenge
         /\ dialog'[c].document = dialog[c].document
         /\ \A d \in KeyCalls \ {c} : dialog'[d] = dialog[d]
<1>1. dialog \in [KeyCalls -> Dialog]
  BY PasskeysTypes
<1>2. [dialog[c] EXCEPT !.step = step] \in Dialog
  BY <1>1, DialogUpdates
<1>3. QED BY <1>1, <1>2 DEF Goes, Dialog

LEMMA VerifyStep ==
  ASSUME PasskeysTypeOK, NEW c \in KeyCalls, NEW new \in Dialog, new.op \in Purposes, Verify(c, new)
  PROVE  /\ dialog' \in [KeyCalls -> Dialog] /\ twice' \subseteq 1..issued
         /\ challenge[new.op] # 0
         /\ dialog'[c].step = "verifying" /\ dialog'[c].op = new.op
         /\ dialog'[c].challenge = challenge[new.op]
         /\ \A d \in KeyCalls \ {c} : dialog'[d] = dialog[d]
<1>1. /\ dialog \in [KeyCalls -> Dialog] /\ challenge[new.op] \in Numbers /\ twice \subseteq 1..issued
      /\ issued \in 0..MaxChallenges
  BY PasskeysTypes
<1>2. [new EXCEPT !.step = "verifying", !.challenge = challenge[new.op]] \in Dialog
  BY <1>1, DialogUpdates
<1>3. twice' \subseteq 1..issued
  BY <1>1, Numbered DEF Verify
<1>4. QED BY <1>1, <1>2, <1>3 DEF Verify, Dialog

LEMMA ReadStep ==
  ASSUME PasskeysTypeOK, NEW c \in KeyCalls, NEW new \in Dialog, ReadDocument(c, new)
  PROVE  /\ dialog' \in [KeyCalls -> Dialog]
         /\ dialog'[c].step = "writing" /\ dialog'[c].op = new.op
         /\ dialog'[c].challenge = new.challenge /\ dialog'[c].document = passkeys
         /\ \A d \in KeyCalls \ {c} : dialog'[d] = dialog[d]
<1>1. dialog \in [KeyCalls -> Dialog] /\ passkeys \in Documents
  BY PasskeysTypes
<1>2. [new EXCEPT !.step = "writing", !.document = passkeys] \in Dialog
  BY <1>1, DialogUpdates
<1>3. QED BY <1>1, <1>2 DEF ReadDocument, Dialog

\* A login has its purpose from the start, and a call verifies a challenge that was issued.
Answering == \A c \in KeyCalls :
               /\ dialog[c].step = "found" => dialog[c].op = "login"
               /\ dialog[c].step = "verifying" => dialog[c].op \in Purposes /\ dialog[c].challenge # 0

LEMMA NextPasskeysType ==
  PasskeysTypeOK /\ Answering /\ [PasskeysNext]_passkeyVars => PasskeysTypeOK'
<1> SUFFICES ASSUME PasskeysTypeOK, Answering, [PasskeysNext]_passkeyVars PROVE PasskeysTypeOK'
  OBVIOUS
<1>0. /\ issued \in 0..MaxChallenges /\ challenge \in [Purposes -> Numbers]
      /\ passkeys \in Documents /\ keys \in Documents /\ dialog \in [KeyCalls -> Dialog]
      /\ mingled \in BOOLEAN /\ twice \subseteq 1..issued
  BY PasskeysTypes
<1> USE <1>0
<1>q. ASSUME issued' = issued, challenge' \in [Purposes -> Numbers],
             passkeys' \in Documents, keys' \in Documents, dialog' \in [KeyCalls -> Dialog],
             mingled' \in BOOLEAN, twice' \subseteq 1..issued
      PROVE  PasskeysTypeOK'
  BY <1>q DEF PasskeysTypeOK, Dialog, DialogSteps, Counts, Numbers
<1>1. ASSUME NEW purpose \in Purposes, Options(purpose) PROVE PasskeysTypeOK'
  <2>1. issued' \in 0..MaxChallenges /\ issued' \in Numbers' /\ Numbers \subseteq Numbers'
        /\ 1..issued \subseteq 1..issued'
    BY <1>1, PasskeysAssumption DEF Options, Numbers
  <2>2. challenge' \in [Purposes -> Numbers']
    BY <1>1, <2>1 DEF Options
  <2>3. \A x \in Dialog : x \in Dialog'
    BY <2>1 DEF Dialog
  <2>4. dialog' \in [KeyCalls -> Dialog'] /\ UNCHANGED <<passkeys, keys, mingled, twice>>
    BY <1>1, <2>3 DEF Options
  <2>5. QED BY <2>1, <2>2, <2>4 DEF PasskeysTypeOK, Dialog, DialogSteps, Counts, Numbers
<1>2. ASSUME NEW purpose \in Purposes, ChallengeExpires(purpose) PROVE PasskeysTypeOK'
  BY <1>q, <1>2, Numbered DEF ChallengeExpires
<1>3. ASSUME NEW c \in KeyCalls, VerifyRegistration(c) PROVE PasskeysTypeOK'
  <2> DEFINE new == [NoDialog EXCEPT !.op = "registration", !.key = {c}]
  <2>1. new \in Dialog /\ new.op \in Purposes
    BY NoDialogType DEF Dialog, Purposes, NoDialog
  <2>2. Verify(c, new)
    BY <1>3 DEF VerifyRegistration
  <2> HIDE DEF new
  <2>3. QED BY <1>q, <2>1, <2>2, VerifyStep DEF Verify
<1>4. ASSUME NEW c \in KeyCalls, NEW k \in KeyCalls, FindCredential(c, k) PROVE PasskeysTypeOK'
  <2>1. passkeys[k] \in Counts
    BY <1>4, Ranges DEF FindCredential, Registered, Documents, Counters
  <2>2. [NoDialog EXCEPT !.step = "found", !.op = "login", !.key = {k}, !.count = passkeys[k]] \in Dialog
    BY <2>1, NoDialogType DEF Dialog, DialogSteps, Purposes, NoDialog
  <2>3. QED BY <1>q, <1>4, <2>2 DEF FindCredential
<1>5. ASSUME NEW c \in KeyCalls, NEW count \in 0..MaxCount, VerifyLogin(c, count) PROVE PasskeysTypeOK'
  <2> DEFINE new == [dialog[c] EXCEPT !.count = count]
  <2>0. dialog[c].op \in Purposes
    BY <1>5 DEF VerifyLogin, Answering, Purposes
  <2>1. new \in Dialog /\ new.op \in Purposes
    BY <1>5, <2>0, DialogUpdates DEF Dialog, Counts
  <2>2. Verify(c, new)
    BY <1>5 DEF VerifyLogin
  <2> HIDE DEF new
  <2>3. QED BY <1>q, <2>1, <2>2, VerifyStep DEF Verify
<1>6. ASSUME NEW c \in KeyCalls, DropChallenge(c) \/ LoginFails(c) PROVE PasskeysTypeOK'
  <2>1. challenge' \in [Purposes -> Numbers]
    BY <1>6, Numbered DEF DropChallenge, LoginFails
  <2>2. QED BY <1>q, <1>6, <2>1, GoesStep DEF DropChallenge, LoginFails, DialogSteps
<1>7. ASSUME NEW c \in KeyCalls, NEW new \in Dialog, ReadDocument(c, new) PROVE PasskeysTypeOK'
  <2>1. mingled' \in BOOLEAN
    BY <1>7, Zenon DEF ReadDocument
  <2>2. QED BY <1>q, <1>7, <2>1, ReadStep DEF ReadDocument
<1>8. ASSUME NEW c \in KeyCalls, ReadToSave(c) PROVE PasskeysTypeOK'
  BY <1>7, <1>8 DEF ReadToSave
<1>9. ASSUME NEW c \in KeyCalls, NEW k \in KeyCalls, DeleteCredential(c, k) PROVE PasskeysTypeOK'
  <2>1. [NoDialog EXCEPT !.op = "delete", !.key = {k}] \in Dialog
    BY NoDialogType DEF Dialog, NoDialog
  <2>2. QED BY <1>7, <1>9, <2>1 DEF DeleteCredential
<1>10. ASSUME NEW c \in KeyCalls, WriteDocument(c) PROVE PasskeysTypeOK'
  <2>1. dialog[c] \in Dialog /\ dialog[c].document \in Documents
    BY DEF Dialog
  <2>2. QED BY <1>q, <1>10, <2>1, AlteredType, GoesStep DEF WriteDocument, DialogSteps
<1>11. ASSUME NEW c \in KeyCalls, DialogLost(c) PROVE PasskeysTypeOK'
  BY <1>q, <1>11, GoesStep DEF DialogLost, DialogSteps
<1>12. CASE UNCHANGED passkeyVars
  BY <1>q, <1>12 DEF passkeyVars
<1>13. QED
  BY <1>1, <1>2, <1>3, <1>4, <1>5, <1>6, <1>8, <1>9, <1>10, <1>11, <1>12 DEF PasskeysNext

------------------------------------------------------------------------------
(* Passkeys: a challenge confirms one call, and the document is the one of *)
(* every call made at once.                                                *)

Settled == {"verified", "writing", "done"}

\* The two purposes never store one challenge; a call that verifies it has its purpose; one that
\* is confirmed has seen it deleted; and unless two calls read it at once, one call has it.
ChallengeIsUsedUp ==
  /\ \A p, q \in Purposes : challenge[p] = challenge[q] /\ challenge[p] # 0 => p = q
  /\ \A c \in KeyCalls, p \in Purposes :
       dialog[c].step = "verifying" /\ challenge[p] = dialog[c].challenge => p = dialog[c].op
  /\ \A c \in KeyCalls, p \in Purposes :
       dialog[c].step \in Settled /\ dialog[c].challenge # 0 => challenge[p] # dialog[c].challenge
  /\ \A c, d \in KeyCalls :
       /\ dialog[c].step \in Settled \cup {"verifying"} /\ dialog[d].step \in Settled \cup {"verifying"}
       /\ dialog[c].challenge = dialog[d].challenge
       /\ dialog[c].challenge # 0 /\ dialog[c].challenge \notin twice
       => c = d

\* What the one call that is about to write has read is still the document.
ReadIsCurrent ==
  ~mingled => /\ passkeys = keys
              /\ \A c \in KeyCalls : dialog[c].step = "writing" => dialog[c].document = passkeys
              /\ \A c, d \in KeyCalls : dialog[c].step = "writing" /\ dialog[d].step = "writing" => c = d

PasskeysInv == PasskeysTypeOK /\ Answering /\ ChallengeIsUsedUp /\ ReadIsCurrent

LEMMA InitPasskeys == PasskeysInit => PasskeysInv
<1> SUFFICES ASSUME PasskeysInit PROVE PasskeysInv
  OBVIOUS
<1>1. issued \in 0..MaxChallenges /\ 0 \in Numbers
  BY PasskeysAssumption, Numbered DEF PasskeysInit
<1>2. NoDocument \in Documents
  BY Ranges DEF NoDocument, Documents, Counters
<1>3. challenge \in [Purposes -> Numbers] /\ dialog \in [KeyCalls -> Dialog]
  BY <1>1, NoDialogType DEF PasskeysInit
<1>4. PasskeysTypeOK
  BY <1>1, <1>2, <1>3, PasskeysTypes DEF PasskeysInit
<1>5. Answering /\ ChallengeIsUsedUp /\ ReadIsCurrent
  BY DEF PasskeysInit, NoDialog, Answering, ChallengeIsUsedUp, ReadIsCurrent, Settled
<1>6. QED BY <1>4, <1>5 DEF PasskeysInv

\* A step that stores no challenge and leads no call to one.
LEMMA NoNewChallenge ==
  ASSUME PasskeysInv, NEW c \in KeyCalls, NEW step \in DialogSteps \ {"found", "verifying"}, Goes(c, step),
         step \in Settled =>
           /\ dialog[c].step \in Settled \cup {"verifying"}
           /\ dialog[c].step = "verifying" => challenge'[dialog[c].op] = 0,
         twice' = twice,
         \/ challenge' = challenge
         \/ \E p \in Purposes : challenge' = [challenge EXCEPT ![p] = 0]
  PROVE  Answering' /\ ChallengeIsUsedUp'
<1>1. PasskeysTypeOK /\ Answering /\ ChallengeIsUsedUp
  BY DEF PasskeysInv
<1>2. /\ dialog'[c].step = step /\ dialog'[c].op = dialog[c].op
      /\ dialog'[c].challenge = dialog[c].challenge
      /\ \A d \in KeyCalls \ {c} : dialog'[d] = dialog[d]
  BY <1>1, GoesStep
<1>3. challenge \in [Purposes -> Numbers]
  BY <1>1, PasskeysTypes
<1>4. \A p \in Purposes : challenge'[p] = challenge[p] \/ challenge'[p] = 0
  BY <1>3
<1>5. Answering'
  BY <1>1, <1>2 DEF Answering
<1>6. \A p, q \in Purposes : challenge'[p] = challenge'[q] /\ challenge'[p] # 0 => p = q
  BY <1>1, <1>4 DEF ChallengeIsUsedUp
<1>7. \A d \in KeyCalls, p \in Purposes :
        dialog'[d].step = "verifying" /\ challenge'[p] = dialog'[d].challenge => p = dialog'[d].op
  BY <1>1, <1>2, <1>4, <1>5 DEF ChallengeIsUsedUp, Answering
<1>8. ASSUME NEW d \in KeyCalls, NEW p \in Purposes,
             dialog'[d].step \in Settled, dialog'[d].challenge # 0
      PROVE  challenge'[p] # dialog'[d].challenge
  BY <1>1, <1>2, <1>4, <1>8 DEF ChallengeIsUsedUp, Answering
<1>9. \A d, e \in KeyCalls :
       /\ dialog'[d].step \in Settled \cup {"verifying"} /\ dialog'[e].step \in Settled \cup {"verifying"}
       /\ dialog'[d].challenge = dialog'[e].challenge
       /\ dialog'[d].challenge # 0 /\ dialog'[d].challenge \notin twice'
       => d = e
  BY <1>1, <1>2 DEF ChallengeIsUsedUp
<1>10. QED BY <1>5, <1>6, <1>7, <1>8, <1>9 DEF ChallengeIsUsedUp

\* A call reads the stored challenge.
LEMMA ReadsChallenge ==
  ASSUME PasskeysInv, NEW c \in KeyCalls, NEW new \in Dialog, new.op \in Purposes, Verify(c, new)
  PROVE  Answering' /\ ChallengeIsUsedUp'
<1>1. PasskeysTypeOK /\ Answering /\ ChallengeIsUsedUp
  BY DEF PasskeysInv
<1>2. /\ challenge[new.op] # 0
      /\ dialog'[c].step = "verifying" /\ dialog'[c].op = new.op
      /\ dialog'[c].challenge = challenge[new.op]
      /\ \A d \in KeyCalls \ {c} : dialog'[d] = dialog[d]
  BY <1>1, VerifyStep
<1>3. challenge' = challenge
  BY DEF Verify
<1>4. Answering'
  BY <1>1, <1>2 DEF Answering
<1>5. \A d \in KeyCalls : /\ dialog[d].step \in Settled \cup {"verifying"}
                          /\ dialog[d].challenge = challenge[new.op] /\ challenge[new.op] \notin twice'
                          => FALSE
  <2> SUFFICES ASSUME NEW d \in KeyCalls, dialog[d].step \in Settled \cup {"verifying"},
                      dialog[d].challenge = challenge[new.op], challenge[new.op] \notin twice'
               PROVE  FALSE
    OBVIOUS
  <2>1. dialog[d].step = "verifying"
    BY <1>1, <1>2 DEF ChallengeIsUsedUp
  <2>2. Verifying(challenge[new.op]) = {}
    BY DEF Verify
  <2>3. QED BY <2>1, <2>2 DEF Verifying
<1>6. \A d, e \in KeyCalls :
       /\ dialog'[d].step \in Settled \cup {"verifying"} /\ dialog'[e].step \in Settled \cup {"verifying"}
       /\ dialog'[d].challenge = dialog'[e].challenge
       /\ dialog'[d].challenge # 0 /\ dialog'[d].challenge \notin twice'
       => d = e
  <2>1. \A a : a \notin twice' => a \notin twice
    BY DEF Verify
  <2>2. QED BY <1>1, <1>2, <1>5, <2>1 DEF ChallengeIsUsedUp
<1>7. /\ \A d \in KeyCalls, p \in Purposes :
           dialog'[d].step = "verifying" /\ challenge'[p] = dialog'[d].challenge => p = dialog'[d].op
      /\ \A d \in KeyCalls, p \in Purposes :
           dialog'[d].step \in Settled /\ dialog'[d].challenge # 0 => challenge'[p] # dialog'[d].challenge
  BY <1>1, <1>2, <1>3 DEF ChallengeIsUsedUp, Settled
<1>8. QED BY <1>1, <1>3, <1>4, <1>6, <1>7 DEF ChallengeIsUsedUp

\* A step that neither reads nor writes the document, of a call that is not about to write.
LEMMA DocumentUntouched ==
  ASSUME ReadIsCurrent, UNCHANGED <<passkeys, keys, mingled>>,
         \A d \in KeyCalls : dialog'[d].step = "writing" => dialog'[d] = dialog[d]
  PROVE  ReadIsCurrent'
BY DEF ReadIsCurrent

LEMMA NextPasskeys == PasskeysInv /\ [PasskeysNext]_passkeyVars => PasskeysInv'
<1> SUFFICES ASSUME PasskeysInv, [PasskeysNext]_passkeyVars PROVE PasskeysInv'
  OBVIOUS
<1>0. /\ PasskeysTypeOK /\ Answering /\ ChallengeIsUsedUp /\ ReadIsCurrent
      /\ issued \in 0..MaxChallenges /\ challenge \in [Purposes -> Numbers]
      /\ passkeys \in Documents /\ keys \in Documents /\ dialog \in [KeyCalls -> Dialog]
  BY PasskeysTypes DEF PasskeysInv
<1> USE <1>0
<1>t. PasskeysTypeOK'
  BY NextPasskeysType
<1>q. ASSUME Answering', ChallengeIsUsedUp', ReadIsCurrent' PROVE PasskeysInv'
  BY <1>q, <1>t DEF PasskeysInv
<1>1. ASSUME NEW purpose \in Purposes, Options(purpose) PROVE PasskeysInv'
  <2>1. /\ issued' = issued + 1 /\ dialog' = dialog /\ twice' = twice
        /\ challenge'[purpose] = issued + 1 /\ \A p \in Purposes \ {purpose} : challenge'[p] = challenge[p]
    BY <1>1 DEF Options
  <2>2. \A c \in KeyCalls : dialog[c].challenge # issued + 1
    BY Numbered DEF Dialog
  <2>3. \A p \in Purposes : challenge[p] # issued + 1
    BY Numbered
  <2>4. Answering' /\ ChallengeIsUsedUp'
    BY <2>1, <2>2, <2>3 DEF Answering, ChallengeIsUsedUp
  <2>5. ReadIsCurrent'
    BY <1>1, DocumentUntouched DEF Options
  <2>6. QED BY <1>q, <2>4, <2>5
<1>2. ASSUME NEW purpose \in Purposes, ChallengeExpires(purpose) PROVE PasskeysInv'
  <2>1. /\ dialog' = dialog /\ twice' = twice
        /\ challenge'[purpose] = 0 /\ \A p \in Purposes \ {purpose} : challenge'[p] = challenge[p]
    BY <1>2 DEF ChallengeExpires
  <2>2. Answering' /\ ChallengeIsUsedUp'
    BY <2>1 DEF Answering, ChallengeIsUsedUp
  <2>3. ReadIsCurrent'
    BY <1>2, DocumentUntouched DEF ChallengeExpires
  <2>4. QED BY <1>q, <2>2, <2>3
<1>v. ASSUME NEW c \in KeyCalls, NEW new \in Dialog, new.op \in Purposes, Verify(c, new) PROVE PasskeysInv'
  <2>1. ReadIsCurrent'
    BY <1>v, VerifyStep, DocumentUntouched DEF Verify
  <2>2. QED BY <1>q, <1>v, <2>1, ReadsChallenge
<1>3. ASSUME NEW c \in KeyCalls, VerifyRegistration(c) PROVE PasskeysInv'
  <2> DEFINE new == [NoDialog EXCEPT !.op = "registration", !.key = {c}]
  <2>1. new \in Dialog /\ new.op \in Purposes
    BY NoDialogType DEF Dialog, Purposes, NoDialog
  <2>2. Verify(c, new)
    BY <1>3 DEF VerifyRegistration
  <2> HIDE DEF new
  <2>3. QED BY <1>v, <2>1, <2>2
<1>4. ASSUME NEW c \in KeyCalls, NEW k \in KeyCalls, FindCredential(c, k) PROVE PasskeysInv'
  <2>1. /\ dialog'[c].step = "found" /\ dialog'[c].op = "login"
        /\ \A d \in KeyCalls \ {c} : dialog'[d] = dialog[d]
        /\ challenge' = challenge /\ twice' = twice
    BY <1>4 DEF FindCredential, NoDialog
  <2>2. Answering' /\ ChallengeIsUsedUp'
    BY <2>1 DEF Answering, ChallengeIsUsedUp, Settled
  <2>3. ReadIsCurrent'
    BY <1>4, <2>1, DocumentUntouched DEF FindCredential
  <2>4. QED BY <1>q, <2>2, <2>3
<1>5. ASSUME NEW c \in KeyCalls, NEW count \in 0..MaxCount, VerifyLogin(c, count) PROVE PasskeysInv'
  <2> DEFINE new == [dialog[c] EXCEPT !.count = count]
  <2>0. dialog[c].op \in Purposes
    BY <1>5 DEF VerifyLogin, Answering, Purposes
  <2>1. new \in Dialog /\ new.op \in Purposes
    BY <1>5, <2>0, DialogUpdates DEF Dialog, Counts
  <2>2. Verify(c, new)
    BY <1>5 DEF VerifyLogin
  <2> HIDE DEF new
  <2>3. QED BY <1>v, <2>1, <2>2
<1>6. ASSUME NEW c \in KeyCalls, DropChallenge(c) \/ LoginFails(c) PROVE PasskeysInv'
  <2>1. PICK step \in {"verified", "refused"} : Goes(c, step)
    BY <1>6 DEF DropChallenge, LoginFails
  <2>2. dialog[c].step = "verifying" /\ dialog[c].op \in Purposes /\ twice' = twice
        /\ challenge' = [challenge EXCEPT ![dialog[c].op] = 0]
    BY <1>6 DEF DropChallenge, LoginFails, Answering
  <2>3. step \in DialogSteps \ {"found", "verifying"} /\ challenge'[dialog[c].op] = 0
    BY <2>1, <2>2 DEF DialogSteps
  <2>4. Answering' /\ ChallengeIsUsedUp'
    BY <2>1, <2>2, <2>3, NoNewChallenge
  <2>5. ReadIsCurrent'
    BY <1>6, <2>1, <2>3, GoesStep, DocumentUntouched DEF DropChallenge, LoginFails
  <2>6. QED BY <1>q, <2>4, <2>5
<1>r. ASSUME NEW c \in KeyCalls, NEW new \in Dialog, ReadDocument(c, new),
             new.challenge # 0 => new = dialog[c] /\ dialog[c].step = "verified"
      PROVE  PasskeysInv'
  <2>1. /\ dialog'[c].step = "writing" /\ dialog'[c].op = new.op
        /\ dialog'[c].challenge = new.challenge /\ dialog'[c].document = passkeys
        /\ \A d \in KeyCalls \ {c} : dialog'[d] = dialog[d]
    BY <1>r, ReadStep
  <2>2. challenge' = challenge /\ twice' = twice /\ passkeys' = passkeys /\ keys' = keys
    BY <1>r DEF ReadDocument
  <2>3. Answering'
    BY <2>1 DEF Answering
  <2>4. ChallengeIsUsedUp'
    BY <1>r, <2>1, <2>2 DEF ChallengeIsUsedUp, Settled
  <2>5. ~mingled' => ~mingled /\ \A d \in KeyCalls : dialog[d].step # "writing"
    BY <1>r DEF ReadDocument
  <2>6. ReadIsCurrent'
    BY <2>1, <2>2, <2>5 DEF ReadIsCurrent
  <2>7. QED BY <1>q, <2>3, <2>4, <2>6
<1>7. ASSUME NEW c \in KeyCalls, ReadToSave(c) PROVE PasskeysInv'
  BY <1>r, <1>7 DEF ReadToSave
<1>8. ASSUME NEW c \in KeyCalls, NEW k \in KeyCalls, DeleteCredential(c, k) PROVE PasskeysInv'
  <2> DEFINE new == [NoDialog EXCEPT !.op = "delete", !.key = {k}]
  <2>1. new \in Dialog /\ new.challenge = 0
    BY NoDialogType DEF Dialog, NoDialog
  <2>2. ReadDocument(c, new)
    BY <1>8 DEF DeleteCredential
  <2> HIDE DEF new
  <2>3. QED BY <1>r, <2>1, <2>2
<1>9. ASSUME NEW c \in KeyCalls, WriteDocument(c) PROVE PasskeysInv'
  <2>1. "done" \in DialogSteps \ {"found", "verifying"} /\ "done" \in Settled /\ "writing" \in Settled
    BY DEF DialogSteps, Settled
  <2>2. /\ Goes(c, "done") /\ challenge' = challenge /\ twice' = twice /\ mingled' = mingled
        /\ dialog[c].step = "writing"
        /\ passkeys' = Altered(dialog[c].document, c) /\ keys' = Altered(keys, c)
    BY <1>9 DEF WriteDocument
  <2>3. Answering' /\ ChallengeIsUsedUp'
    BY <2>1, <2>2, NoNewChallenge
  <2>4. dialog'[c].step = "done" /\ \A d \in KeyCalls \ {c} : dialog'[d] = dialog[d]
    BY <2>1, <2>2, GoesStep
  <2>5. ReadIsCurrent'
    BY <2>2, <2>4 DEF ReadIsCurrent
  <2>6. QED BY <1>q, <2>3, <2>5
<1>10. ASSUME NEW c \in KeyCalls, DialogLost(c) PROVE PasskeysInv'
  <2>1. "refused" \in DialogSteps \ {"found", "verifying"} /\ "refused" \notin Settled
    BY DEF DialogSteps, Settled
  <2>2. Goes(c, "refused") /\ challenge' = challenge /\ twice' = twice
    BY <1>10 DEF DialogLost
  <2>3. Answering' /\ ChallengeIsUsedUp'
    BY <2>1, <2>2, NoNewChallenge
  <2>4. ReadIsCurrent'
    BY <1>10, <2>1, <2>2, GoesStep, DocumentUntouched DEF DialogLost
  <2>5. QED BY <1>q, <2>3, <2>4
<1>11. CASE UNCHANGED passkeyVars
  <2>1. Answering' /\ ChallengeIsUsedUp' /\ ReadIsCurrent'
    BY <1>11 DEF passkeyVars, Answering, ChallengeIsUsedUp, ReadIsCurrent
  <2>2. QED BY <1>q, <2>1
<1>12. QED
  BY <1>1, <1>2, <1>3, <1>4, <1>5, <1>6, <1>7, <1>8, <1>9, <1>10, <1>11 DEF PasskeysNext

\* PasskeysKept of Passkeys, for any number of calls and challenges: a challenge that no two calls
\* read at once confirms one call, and the document holds the passkeys that were registered and
\* not deleted while no call reads it between another's read and write.
THEOREM PasskeysStayKept == PasskeysSpec => []PasskeysKept
<1>1. PasskeysInv => PasskeysKept
  <2> SUFFICES ASSUME PasskeysInv PROVE PasskeysKept
    OBVIOUS
  <2>1. ASSUME NEW answered \in (1..issued) \ twice PROVE Cardinality(Confirmed(answered)) <= 1
    <3>1. answered # 0
      OBVIOUS
    <3>2. \A c, d \in Confirmed(answered) : c = d
      BY <2>1, <3>1 DEF PasskeysInv, ChallengeIsUsedUp, Confirmed, Settled
    <3>3. QED BY <3>2, AtMostOne
  <2>2. QED BY <2>1 DEF PasskeysInv, ReadIsCurrent, PasskeysKept
<1>2. QED BY <1>1, InitPasskeys, NextPasskeys, PTL DEF PasskeysSpec

------------------------------------------------------------------------------
(* The browser's parts side by side: a behaviour of MCTill is one of each  *)
(* part, which keeps what the part keeps alone.                            *)

LEMMA PagesStep ==
  [TillNext]_<<part, cartVars, checkoutVars, stocktakeVars, passkeyVars>> =>
    /\ [CartNext]_cartVars /\ [CheckoutNext]_checkoutVars
    /\ [StocktakeNext]_stocktakeVars /\ [PasskeysNext]_passkeyVars
BY DEF TillNext

\* Every part of the composition behaves as it does alone, so what is proved of it there
\* holds of it beside the others.
THEOREM TillImplementsParts ==
  TillSpec => CartSpec /\ CheckoutSpec /\ StocktakeSpec /\ PasskeysSpec
<1>1. TillInit => CartInit /\ CheckoutInit /\ StocktakeInit /\ PasskeysInit
  BY DEF TillInit
<1>2. QED
  BY <1>1, PagesStep, PTL DEF TillSpec, CartSpec, CheckoutSpec, StocktakeSpec, PasskeysSpec

\* TypesOK of MCTill, for every value of the constants: each variable of each part has its
\* type.
THEOREM TillTypesStayOK == TillSpec => []TypesOK
<1>1. CartSpec => []CartTypeOK
  BY InitCart, NextCart, CartIsTyped, PTL DEF CartSpec
<1>2. CheckoutSpec => []CheckoutTypeOK
  <2>1. CheckoutInv => CheckoutTypeOK
    BY DEF CheckoutInv, PressInv
  <2>2. QED BY <2>1, CheckoutInductive, PTL
<1>3. StocktakeSpec => []StocktakeTypeOK
  <2>1. StocktakeInv => StocktakeTypeOK
    BY DEF StocktakeInv
  <2>2. QED BY <2>1, InitStocktake, NextStocktake, PTL DEF StocktakeSpec
<1>4. PasskeysSpec => []PasskeysTypeOK
  <2>1. PasskeysInv => PasskeysTypeOK
    BY DEF PasskeysInv
  <2>2. QED BY <2>1, InitPasskeys, NextPasskeys, PTL DEF PasskeysSpec
<1>5. CartTypeOK /\ CheckoutTypeOK /\ StocktakeTypeOK /\ PasskeysTypeOK => TypesOK
  BY DEF TypesOK
<1>6. QED BY <1>1, <1>2, <1>3, <1>4, <1>5, TillImplementsParts, PTL

\* What is proved of each part above, of all of them side by side: the invariants that the run
\* of MCTill checks.
THEOREM TillKeepsItsPromises ==
  TillSpec => [](/\ CartIsWhatWasRung /\ TotalsAgree /\ SoldOnce /\ ConversionIsOfItsSale
                 /\ StocktakeAccounted /\ PasskeysKept)
BY TillImplementsParts, CartStaysWhatWasRung, TotalsStayAgreed, SalesStaySoldOnce,
   ConversionsNameTheirSale, StocktakeStaysAccounted, PasskeysStayKept, PTL
==============================================================================
