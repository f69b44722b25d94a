------------------------------ MODULE EventPath ------------------------------
(***************************************************************************)
(* One event from the generator (producer/app/event_generator.py,           *)
(* schemas.py) or from elsewhere, through normalize_event and               *)
(* validate_event (ingestion/app/validator.py), to a row of raw.events      *)
(* (database.py, postgres/init/02_create_tables.sql).                       *)
(*                                                                          *)
(* A JSON value is one of the classes that this code or PostgreSQL treats   *)
(* differently. The value tells whether a message is unparseable, invalid,  *)
(* valid, poison or crashing for module Ingestion.                          *)
(***************************************************************************)
EXTENDS Naturals

CONSTANTS
    ForeignTypes,       \* values of event_type in payloads the generator does not make
    ForeignIds,         \* ... of event_id
    ForeignStamps,      \* ... of timestamp
    ForeignTexts,       \* ... of user_id and product_id
    ForeignQuantities,  \* ... of quantity
    ForeignPrices       \* ... of unit_price

EventTypes == {"USER_SIGNUP", "PRODUCT_VIEW", "ADD_TO_CART", "CHECKOUT_STARTED", "PURCHASE"}
Fields == {"event_id", "event_type", "timestamp", "user_id", "product_id",
           "quantity", "unit_price"}

(* "whole" is 1, "huge" an integer past INTEGER and NUMERIC(10,2), "giant"   *)
(* one past a float; "fraction" 1.5, "tiny" 0.001; "digits", "lone nan" and  *)
(* "lone inf" are strings that read as 1, NaN and Infinity; "nul" is a string*)
(* with a NUL.                                                               *)
IntValues == {"negative", "zero", "whole", "huge", "giant"}
FloatValues == {"fraction", "tiny", "nan", "infinity"}
StringValues == {"text", "empty", "stamp", "digits", "lone nan", "lone inf", "nul", "purchase", "OTHER"}
           \cup EventTypes
OtherValues == {"null", "true", "list", "object"}
Values == IntValues \cup FloatValues \cup StringValues \cup OtherValues \cup {"absent"}

ASSUME ForeignAssumption ==
    ForeignTypes \cup ForeignIds \cup ForeignStamps \cup ForeignTexts
        \cup ForeignQuantities \cup ForeignPrices \subseteq Values

Events == [Fields -> Values]

(* raw.events: NOT NULL, INTEGER and NUMERIC(10,2) *)
Rows ==
    { e \in Events :
        /\ e.event_type \in EventTypes
        /\ e.event_id # "null" /\ e.timestamp # "null"
        /\ e.quantity \in {"null", "negative", "zero", "whole"}
        /\ e.unit_price \in {"null", "negative", "zero", "whole", "fraction", "nan"} }

VARIABLES
    event,      \* the payload, then the normalized event, then the row
    stage,      \* how far it has come
    origin      \* "valid" or "corrupted" by the generator, or "foreign"

vars == <<event, stage, origin>>

TypeOK ==
    /\ event \in Events
    /\ stage \in {"start", "malformed", "tombstone", "raw", "normalized", "accepted", "new",
                  "stored", "dlq", "refused", "crashed"}
    /\ origin \in {"none", "valid", "corrupted", "foreign"}
    /\ stage = "stored" => event \in Rows

Empty == [f \in Fields |-> "absent"]

Init ==
    /\ event = Empty
    /\ stage = "start"
    /\ origin = "none"

Present(e) == { f \in Fields : e[f] # "absent" }

-----------------------------------------------------------------------------
(***************************************************************************)
(* The producer.                                                            *)
(***************************************************************************)
BuildFields(type) ==
    CASE type \in {"USER_SIGNUP", "CHECKOUT_STARTED"} -> {"user_id"}
      [] type = "PRODUCT_VIEW" -> {"user_id", "product_id"}
      [] type = "ADD_TO_CART" -> {"user_id", "product_id", "quantity"}
      [] type = "PURCHASE" -> {"user_id", "product_id", "quantity", "unit_price"}

Sample == [event_id |-> "text", timestamp |-> "stamp", user_id |-> "text",
           product_id |-> "text", quantity |-> "whole", unit_price |-> "fraction"]

ValidEvent(type) ==
    [f \in Fields |-> IF f = "event_type" THEN type
                      ELSE IF f \in BuildFields(type) \cup {"event_id", "timestamp"} THEN Sample[f]
                      ELSE "absent"]

(* A strategy that does not apply falls through to the unknown type. *)
Corrupt(e) ==
    { [e EXCEPT ![f] = "absent"] : f \in Present(e) \ {"event_id", "event_type"} }
    \cup { [e EXCEPT ![f] = "text"] : f \in Present(e) \cap {"quantity", "unit_price"} }
    \cup { [e EXCEPT !.timestamp = "text"], [e EXCEPT !.event_type = "OTHER"] }

BuildValid ==
    /\ stage = "start"
    /\ \E type \in EventTypes : event' = ValidEvent(type)
    /\ stage' = "raw"
    /\ origin' = "valid"

BuildCorrupted ==
    /\ stage = "start"
    /\ \E type \in EventTypes : event' \in Corrupt(ValidEvent(type))
    /\ stage' = "raw"
    /\ origin' = "corrupted"

(* Any other producer of the topic, or a record an operator corrected. *)
Foreign ==
    /\ stage = "start"
    /\ \E type \in ForeignTypes, id \in ForeignIds, stamp \in ForeignStamps,
          user, product \in ForeignTexts, quantity \in ForeignQuantities, price \in ForeignPrices :
          event' = [event_id |-> id, event_type |-> type, timestamp |-> stamp, user_id |-> user,
                    product_id |-> product, quantity |-> quantity, unit_price |-> price]
    /\ stage' = "raw"
    /\ origin' = "foreign"

(* Not UTF-8, or not JSON. *)
ForeignMalformed ==
    /\ stage = "start"
    /\ stage' = "malformed"
    /\ origin' = "foreign"
    /\ UNCHANGED event

(* A message without a value, as Kafka deletes a key. *)
ForeignTombstone ==
    /\ stage = "start"
    /\ stage' = "tombstone"
    /\ origin' = "foreign"
    /\ UNCHANGED event

(* JSON that dict() cannot take: a number, a list of numbers, null. *)
ForeignNotObject ==
    /\ stage = "start"
    /\ stage' = "crashed"
    /\ origin' = "foreign"
    /\ UNCHANGED event

-----------------------------------------------------------------------------
(***************************************************************************)
(* The consumer. Whatever ends in "crashed" is an exception that main()     *)
(* does not catch.                                                          *)
(***************************************************************************)
Deserialize ==
    /\ stage = "malformed"
    /\ stage' = "dlq"
    /\ UNCHANGED <<event, origin>>

(* None has no decode(): an AttributeError, where only errors of the text    *)
(* become the ValueError that main() sends to the DLQ.                       *)
DeserializeRaises ==
    /\ stage = "tombstone"
    /\ stage' = "crashed"
    /\ UNCHANGED <<event, origin>>

Upper(v) == IF v = "purchase" THEN "PURCHASE" ELSE v

TryInt(v) == IF v = "digits" THEN "whole" ELSE v

TryFloat(v) ==
    CASE v = "digits" -> "whole"
      [] v = "lone nan" -> "nan"
      [] v = "lone inf" -> "infinity"
      [] OTHER -> v

(* float() of an int that no float can hold is an OverflowError. *)
NormalizeRaises ==
    /\ stage = "raw"
    /\ event.unit_price = "giant"
    /\ stage' = "crashed"
    /\ UNCHANGED <<event, origin>>

NormalizeEvent ==
    /\ stage = "raw"
    /\ event.unit_price # "giant"
    /\ event' = [event EXCEPT !.event_type = Upper(@), !.quantity = TryInt(@), !.unit_price = TryFloat(@)]
    /\ stage' = "normalized"
    /\ UNCHANGED origin

(* REQUIRED_FIELDS *)
ViewsWithoutProduct(type) ==                  \* mutant: product_id is left out of PRODUCT_VIEW
    {"event_id", "event_type", "timestamp", "user_id"}
        \cup (IF type \in {"ADD_TO_CART", "PURCHASE"} THEN {"product_id", "quantity"} ELSE {})
        \cup (IF type = "PURCHASE" THEN {"unit_price"} ELSE {})
RequiredFields(type) ==
    {"event_id", "event_type", "timestamp", "user_id"}
        \cup (IF type \in {"PRODUCT_VIEW", "ADD_TO_CART", "PURCHASE"} THEN {"product_id"} ELSE {})
        \cup (IF type \in {"ADD_TO_CART", "PURCHASE"} THEN {"quantity"} ELSE {})
        \cup (IF type = "PURCHASE" THEN {"unit_price"} ELSE {})

Falsy == {"null", "zero", "empty"}

QuantityErr(v) == v \notin IntValues \ {"negative", "zero"}

(* Only a number that is known to be <= 0 is an error: NaN compares false. *)
AnyNumber(v) == v \notin IntValues \cup FloatValues \* mutant: price <= 0 not checked
PriceErr(v) == v \notin (IntValues \cup FloatValues) \ {"negative", "zero"}

(* validate_event returned errors. *)
HasErrors(e) ==
    \/ e.event_type \notin EventTypes
    \/ \E f \in RequiredFields(e.event_type) : e[f] = "absent"
    \/ e.event_id \in Falsy
    \/ e.timestamp # "stamp"
    \/ "quantity" \in RequiredFields(e.event_type) /\ QuantityErr(e.quantity)
    \/ "unit_price" \in RequiredFields(e.event_type) /\ PriceErr(e.unit_price)

Unhashable == {"list", "object"}

(* event_type in EVENT_TYPES needs a hash. *)
ValidateRaises ==
    /\ stage = "normalized"
    /\ event.event_type \in Unhashable
    /\ stage' = "crashed"
    /\ UNCHANGED <<event, origin>>

ValidateEvent ==
    /\ stage = "normalized"
    /\ event.event_type \notin Unhashable
    /\ stage' = IF HasErrors(event) THEN "dlq" ELSE "accepted"
    /\ UNCHANGED <<event, origin>>

(* dedup_cache.contains(event_id) needs a hash too. *)
ContainsRaises ==
    /\ stage = "accepted"
    /\ event.event_id \in Unhashable
    /\ stage' = "crashed"
    /\ UNCHANGED <<event, origin>>

Contains ==
    /\ stage = "accepted"
    /\ event.event_id \notin Unhashable
    /\ stage' = "new"
    /\ UNCHANGED <<event, origin>>

(* What a column makes of a value: TEXT takes nearly everything, INTEGER     *)
(* rounds, NUMERIC(10,2) takes NaN and rounds to cents.                      *)
Refuses(f, v) ==
    CASE f \in {"event_id", "user_id", "product_id"} -> v \in {"object", "nul"}
      [] f \in {"event_type", "timestamp"} -> v = "null"
      [] f = "quantity" -> v \in StringValues \cup {"huge", "giant", "nan", "infinity", "true", "list", "object"}
      [] f = "unit_price" -> v \in StringValues \cup {"huge", "giant", "infinity", "true", "list", "object"}

Unrounded(f, v) ==                            \* mutant: columns without scale
    IF v = "absent" THEN "null" ELSE v
ColumnValue(f, v) ==
    CASE v = "absent" -> "null"
      [] f \in {"quantity", "unit_price"} /\ v = "tiny" -> "zero"
      [] f = "quantity" /\ v = "fraction" -> "whole"
      [] OTHER -> v

InsertEvent ==
    /\ stage = "new"
    /\ \A f \in Fields : ~Refuses(f, event[f])
    /\ event' = [f \in Fields |-> ColumnValue(f, event[f])]
    /\ stage' = "stored"
    /\ UNCHANGED origin

InsertRefused ==
    /\ stage = "new"
    /\ \E f \in Fields : Refuses(f, event[f])
    /\ stage' = "refused"
    /\ UNCHANGED <<event, origin>>

Next ==
    \/ BuildValid \/ BuildCorrupted
    \/ Foreign \/ ForeignMalformed \/ ForeignTombstone \/ ForeignNotObject
    \/ Deserialize \/ DeserializeRaises
    \/ NormalizeRaises \/ NormalizeEvent
    \/ ValidateRaises \/ ValidateEvent
    \/ ContainsRaises \/ Contains
    \/ InsertEvent \/ InsertRefused

Spec == Init /\ [][Next]_vars

-----------------------------------------------------------------------------
(* The generator and the validator agree, although each keeps its own table  *)
(* of fields: an event is stored unless the generator corrupted it, and a    *)
(* corrupted one goes to the DLQ, whatever the strategy broke                *)
(* (schemas.py build_fields, _corrupt, REQUIRED_FIELDS, validate_event).     *)
GeneratorAgrees ==
    /\ origin = "valid" => stage \notin {"dlq", "refused", "crashed"}
    /\ origin = "corrupted" => stage \notin {"accepted", "new", "stored", "refused", "crashed"}

(* A PURCHASE row has a positive or rounded-down quantity and price, so that *)
(* the sums of sales_by_interval are never negative nor null, whatever was   *)
(* on the topic (assert_sales_by_interval_non_negative.sql, schema.yml).     *)
SalesNeverNegative ==
    stage = "stored" /\ event.event_type = "PURCHASE" =>
        /\ event.quantity = "whole"
        /\ event.unit_price \notin {"null", "negative"}

(* Why that is so: what each stage still knows of the payload. The validator *)
(* does not look at the origin, so an event keeps the fields its builder or  *)
(* its corruption left it with until the verdict (validate_event).           *)
Built == \E type \in EventTypes : event = ValidEvent(type)
Broken == \E type \in EventTypes : event \in Corrupt(ValidEvent(type))

IInv ==
    /\ TypeOK
    /\ stage = "start" <=> origin = "none"
    /\ stage \in {"accepted", "new"} => ~HasErrors(event)
    /\ stage = "stored" /\ event.event_type = "PURCHASE" =>
          event.quantity = "whole" /\ event.unit_price \notin {"null", "negative"}
    /\ origin = "valid" =>
          /\ stage \in {"raw", "normalized", "accepted", "new", "stored"}
          /\ stage # "stored" => Built
    /\ origin = "corrupted" =>
          /\ stage \in {"raw", "normalized", "dlq"}
          /\ Broken
=============================================================================
