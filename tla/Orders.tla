------------------------------- MODULE Orders -------------------------------
(***************************************************************************)
(* Pricing and keeping an order (app/api/src/api/orders.py, store.py,      *)
(* main.py): the handlers of pods that serve once their create-table init  *)
(* container has succeeded, over DynamoDB Local, which is in memory        *)
(* (k8s/base/dynamodb.yaml).  uuid4 gives no two orders the same key, so   *)
(* one order and the start-up of the pods are all there is to interleave.  *)
(***************************************************************************)
EXTENDS Naturals, Integers, Sequences, FiniteSetsExt

CONSTANTS
    ApiPods,     \* pods of the api Deployment
    Quantities,  \* quantities ordered, some of them not positive
    Prices,      \* unit prices, in tenths of a cent
    MaxLines     \* bound: line items of an order

ASSUME OrdersAssumption ==
    ApiPods # {} /\ Quantities \subseteq Int /\ Prices \subseteq Nat /\ MaxLines \in Nat

VARIABLES
    table,      \* the orders table exists
    orders,     \* its items: <<pod that issued the key, amounts>>
    create,     \* where each pod's create_table is: "list", "create", "done"
    request,    \* the POST /orders under way and what was answered;
                \* history: its item was refused by the store
    restarted   \* history: DynamoDB lost its memory

ordersVars == <<table, orders, create, request, restarted>>

Line  == [quantity : Quantities, unit_price : Prices]
Order == UNION {[1..n -> Line] : n \in 0..MaxLines}

Part == {"subtotal", "discount", "shipping", "total"}

-----------------------------------------------------------------------------
(* orders.py.  Amounts are in cents; a line is counted in tenths of a cent.*)

Lines(items, some) == MapThenSumSet(LAMBDA i : items[i].quantity * items[i].unit_price, some)

(* round(n / d): a tie may go either way, the float is not exactly one.    *)
Rounded(n, d) == {c \in {n \div d, n \div d + 1} : 2 * (c * d - n) \in (-d)..d}

subtotal(order) == Rounded(Lines(order, DOMAIN order), 10)

(* Mutant: the discount starts above the threshold. *)
discountAbove(order) == Rounded(Lines(order, {i \in DOMAIN order : order[i].quantity > 10}), 100)

(* Ten percent of the lines of BULK_THRESHOLD pieces or more. *)
discount(order) == Rounded(Lines(order, {i \in DOMAIN order : order[i].quantity >= 10}), 100)

shipping(discounted) == IF discounted > 5000 THEN 0 ELSE 499

Valid(order) == order # <<>> /\ \A i \in DOMAIN order : order[i].quantity > 0

price_order(order) ==
    {[subtotal |-> s, discount |-> d, shipping |-> shipping(s - d),
      total |-> s - d + shipping(s - d)] : s \in subtotal(order), d \in discount(order)}

-----------------------------------------------------------------------------
(* store.py.  A number is its type and its value. *)

As(type, amounts) == [p \in Part |-> <<type, amounts[p]>>]

(* Mutant: the values of a dict are not converted. *)
to_dynamo_shallow(item) == item

to_dynamo(item) ==
    [p \in Part |-> IF item[p][1] = "float" THEN <<"Decimal", item[p][2]>> ELSE item[p]]

from_dynamo(item) ==
    [p \in Part |-> IF item[p][1] = "Decimal"
                    THEN <<IF item[p][2] % 100 = 0 THEN "int" ELSE "float", item[p][2]>>
                    ELSE item[p]]

(* The names in the table list, seen by a pod's init container. *)
ListTables(p) ==
    /\ create[p] = "list"
    /\ create' = [create EXCEPT ![p] = IF table THEN "done" ELSE "create"]
    /\ UNCHANGED <<table, orders, request, restarted>>

(* ResourceInUseException when the other pod was faster: the container     *)
(* fails and the kubelet runs it again.                                    *)
CreateTable(p) ==
    /\ create[p] = "create"
    /\ table' = TRUE
    /\ create' = [create EXCEPT ![p] = IF table THEN "list" ELSE "done"]
    /\ UNCHANGED <<orders, request, restarted>>

(* A pod that is not in a request goes away and another is started for it. *)
PodAgain(p) ==
    /\ create[p] = "done" /\ (request.pc = "priced" => request.pod # p)
    /\ create' = [create EXCEPT ![p] = "list"]
    /\ UNCHANGED <<table, orders, request, restarted>>

DynamoRestarts ==
    /\ table /\ ~restarted
    /\ table' = FALSE /\ orders' = {} /\ restarted' = TRUE
    /\ UNCHANGED <<create, request>>

-----------------------------------------------------------------------------
(* main.py *)

NoAmounts == [p \in Part |-> 0]

Request(pc, pod, order, amounts, code, refused) ==
    [pc |-> pc, pod |-> pod, order |-> order, amounts |-> amounts, code |-> code, refused |-> refused]

Idle == Request("idle", CHOOSE p \in ApiPods : TRUE, <<>>, NoAmounts, 0, FALSE)

(* create_order up to the store: _priced, and 422 for a ValueError. *)
Post(p, order) ==
    /\ create[p] = "done" /\ request.pc = "idle"
    /\ IF Valid(order)
       THEN \E amounts \in price_order(order) :
               request' = Request("priced", p, order, amounts, 0, FALSE)
       ELSE request' = Request("answered", p, order, NoAmounts, 422, FALSE)
    /\ UNCHANGED <<table, orders, create, restarted>>

Answered(code, refused) ==
    request' = Request("answered", request.pod, request.order, request.amounts, code, refused)

(* put_item takes no float, and needs the table: it refuses the item.  An  *)
(* exception is a 500, also when only the answer of DynamoDB was lost.     *)
Put ==
    LET item == to_dynamo(As("float", request.amounts))
        takes == table /\ \A p \in Part : item[p][1] # "float"
    IN  /\ request.pc = "priced"
        /\ \/ /\ takes
              /\ orders' = orders \union {<<request.pod, item>>}
              /\ Answered(201, FALSE) \/ Answered(500, FALSE)
           \/ ~takes /\ orders' = orders /\ Answered(500, TRUE)
        /\ UNCHANGED <<table, create, restarted>>

(* What GET /orders/{id} answers for the order: {} is 404. *)
get_order(p) == {from_dynamo(o[2]) : o \in {x \in orders : x[1] = p}}

OrdersInit ==
    /\ table = FALSE /\ orders = {} /\ restarted = FALSE
    /\ create = [p \in ApiPods |-> "list"]
    /\ request = Idle

OrdersNext ==
    \/ \E p \in ApiPods :
          \/ ListTables(p) \/ CreateTable(p) \/ PodAgain(p)
          \/ \E order \in Order : Post(p, order)
    \/ Put
    \/ DynamoRestarts

OrdersSpec == OrdersInit /\ [][OrdersNext]_ordersVars

-----------------------------------------------------------------------------
OrdersTypeOK ==
    /\ table \in BOOLEAN /\ restarted \in BOOLEAN
    /\ create \in [ApiPods -> {"list", "create", "done"}]
    /\ request.pc \in {"idle", "priced", "answered"} /\ request.order \in Order
    /\ \A o \in orders : o[1] \in ApiPods /\ \A p \in Part : o[2][p][1] = "Decimal"

(* An order's price in hundredths of a cent, the discount line by line.    *)
Exact(order) ==
    MapThenSumSet(LAMBDA i : order[i].quantity * order[i].unit_price *
                                (IF order[i].quantity < 10 THEN 10 ELSE 9), DOMAIN order)

(* The two roundings of a price do not add up to more than a cent against  *)
(* exact arithmetic with the bulk discount line by line, and postage is    *)
(* judged on the amount the customer is shown (orders.py:51-54).           *)
PricedToTheCent ==
    LET shown == request.amounts.subtotal - request.amounts.discount
    IN  request.code = 201 =>
          /\ 100 * shown - Exact(request.order) \in (-100)..100
          /\ request.amounts.total = shown + (IF shown <= 5000 THEN 499 ELSE 0)

(* An order answered with 201 is read back with the amounts answered, by   *)
(* any pod, until DynamoDB restarts (store.py:24-45).  However the init    *)
(* containers of several pods interleave, a pod serves only with its table *)
(* there, and sends it nothing but what it takes: a valid order is refused *)
(* only when DynamoDB restarted since (store.py:76-90), and one that is    *)
(* refused has left nothing behind.                                        *)
ReadBackAsAnswered ==
    /\ request.code = 201 /\ ~restarted =>
          {[p \in Part |-> item[p][2]] : item \in get_order(request.pod)} = {request.amounts}
    /\ request.refused => restarted
    /\ request.code = 422 \/ request.refused => orders = {}

=============================================================================
