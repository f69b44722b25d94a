--------------------------- MODULE EventPathProofs ---------------------------
(***************************************************************************)
(* EventPath, for every payload that can be on the topic: what reaches a    *)
(* row, and that the generator and the validator agree.                     *)
(***************************************************************************)
EXTENDS EventPath, TLAPS

LEMMA FieldsOfEvents ==
    ASSUME NEW e \in Events, NEW f \in Fields
    PROVE  e[f] \in Values
  BY DEF Events

LEMMA TypesAreValues == EventTypes \subseteq Values
  BY DEF Values, StringValues

-----------------------------------------------------------------------------
(***************************************************************************)
(* What the generator makes.                                                *)
(***************************************************************************)
LEMMA ValidFields ==
    ASSUME NEW type \in EventTypes
    PROVE  /\ ValidEvent(type) \in Events
           /\ ValidEvent(type).event_id = "text"
           /\ ValidEvent(type).event_type = type
           /\ ValidEvent(type).timestamp = "stamp"
           /\ ValidEvent(type).user_id = "text"
           /\ ValidEvent(type).product_id \in {"text", "absent"}
           /\ ValidEvent(type).quantity \in {"whole", "absent"}
           /\ ValidEvent(type).unit_price \in {"fraction", "absent"}
           /\ \A f \in Fields : ValidEvent(type)[f] = "absent" => f \notin RequiredFields(type)
<1> DEFINE e == ValidEvent(type)
<1>1. BuildFields(type) \subseteq Fields
      /\ "user_id" \in BuildFields(type)
      /\ RequiredFields(type) \subseteq BuildFields(type) \cup {"event_id", "event_type", "timestamp"}
  BY DEF EventTypes, BuildFields, Fields, RequiredFields
<1>2. /\ Sample.event_id = "text" /\ Sample.timestamp = "stamp" /\ Sample.user_id = "text"
      /\ Sample.product_id = "text" /\ Sample.quantity = "whole" /\ Sample.unit_price = "fraction"
  BY DEF Sample
<1>3. \A f \in Fields :
         e[f] = IF f = "event_type" THEN type
                ELSE IF f \in BuildFields(type) \cup {"event_id", "timestamp"} THEN Sample[f]
                ELSE "absent"
  BY DEF ValidEvent
<1>4. e.event_id = "text" /\ e.event_type = type /\ e.timestamp = "stamp" /\ e.user_id = "text"
  BY <1>1, <1>2, <1>3 DEF Fields
<1>5. /\ e.product_id \in {"text", "absent"}
      /\ e.quantity \in {"whole", "absent"}
      /\ e.unit_price \in {"fraction", "absent"}
  BY <1>1, <1>2, <1>3 DEF Fields
<1>6. \A f \in Fields : e[f] \in Values
  <2>1. type \in Values
    BY TypesAreValues
  <2>2. {"text", "stamp", "whole", "fraction", "absent"} \subseteq Values
    BY DEF Values, StringValues, IntValues, FloatValues
  <2> QED
    BY <1>4, <1>5, <2>1, <2>2 DEF Fields
<1>7. e \in Events
  BY <1>6 DEF Events, ValidEvent
<1>8. ASSUME NEW f \in Fields, e[f] = "absent"
      PROVE  f \notin RequiredFields(type)
  <2>1. f \notin {"event_id", "event_type", "timestamp"}
    BY <1>4, <1>8 DEF EventTypes
  <2>2. f \notin BuildFields(type)
    BY <1>2, <1>3, <1>8, <2>1 DEF Fields
  <2> QED
    BY <1>1, <2>1, <2>2
<1> QED
  BY <1>4, <1>5, <1>7, <1>8

(* The validator finds nothing, and PostgreSQL takes it.                     *)
LEMMA ValidHasNoErrors ==
    ASSUME NEW type \in EventTypes
    PROVE  /\ ~HasErrors(ValidEvent(type))
           /\ \A f \in Fields : ~Refuses(f, ValidEvent(type)[f])
<1> DEFINE e == ValidEvent(type)
<1>1. /\ e.event_id = "text" /\ e.event_type = type /\ e.timestamp = "stamp"
      /\ e.user_id = "text"
      /\ e.product_id \in {"text", "absent"}
      /\ e.quantity \in {"whole", "absent"}
      /\ e.unit_price \in {"fraction", "absent"}
      /\ \A f \in Fields : e[f] = "absent" => f \notin RequiredFields(type)
  BY ValidFields
<1> HIDE DEF e
<1>2. \A f \in RequiredFields(type) : e[f] # "absent"
  <2>1. RequiredFields(type) \subseteq Fields
    BY DEF RequiredFields, Fields
  <2> QED
    BY <1>1, <2>1
<1>3. "quantity" \in RequiredFields(type) => e.quantity = "whole"
  BY <1>1, <1>2
<1>4. "unit_price" \in RequiredFields(type) => e.unit_price = "fraction"
  BY <1>1, <1>2
<1>5. ~HasErrors(e)
  BY <1>1, <1>2, <1>3, <1>4 DEF HasErrors, Falsy, QuantityErr, PriceErr, IntValues, FloatValues
<1>6. ASSUME NEW f \in Fields
      PROVE  ~Refuses(f, e[f])
  BY <1>1 DEF Fields, Refuses, StringValues, EventTypes
<1> QED
  BY <1>5, <1>6 DEF e

(* Whatever a corruption does, it leaves the strings and numbers that        *)
(* normalize_event would change out of it, and breaks what the validator     *)
(* requires.                                                                 *)
LEMMA CorruptFields ==
    ASSUME NEW type \in EventTypes, NEW e \in Corrupt(ValidEvent(type))
    PROVE  /\ e \in Events
           /\ e.event_id = "text"
           /\ e.event_type \in EventTypes \cup {"OTHER"}
           /\ e.quantity \in {"whole", "text", "absent"}
           /\ e.unit_price \in {"fraction", "text", "absent"}
           /\ HasErrors(e)
<1> DEFINE v == ValidEvent(type)
<1>1. /\ v \in Events
      /\ v.event_id = "text" /\ v.event_type = type /\ v.timestamp = "stamp"
      /\ v.quantity \in {"whole", "absent"}
      /\ v.unit_price \in {"fraction", "absent"}
  BY ValidFields
<1>2. \A f \in Present(v) : f \in Fields /\ f \in RequiredFields(type)
  <2>1. ASSUME NEW f \in Present(v)
        PROVE  f \in RequiredFields(type)
    BY DEF Present, ValidEvent, BuildFields, RequiredFields, EventTypes, Fields
  <2> QED
    BY <2>1 DEF Present
<1>3. \/ \E f \in Present(v) \ {"event_id", "event_type"} : e = [v EXCEPT ![f] = "absent"]
      \/ \E f \in Present(v) \cap {"quantity", "unit_price"} : e = [v EXCEPT ![f] = "text"]
      \/ e = [v EXCEPT !.timestamp = "text"]
      \/ e = [v EXCEPT !.event_type = "OTHER"]
  BY DEF Corrupt
<1> HIDE DEF v
<1>4. {"absent", "text", "OTHER"} \subseteq Values
  BY DEF Values, StringValues
<1>5. DOMAIN v = Fields /\ \A f \in Fields : v[f] \in Values
  BY <1>1 DEF Events
<1>6. CASE \E f \in Present(v) \ {"event_id", "event_type"} : e = [v EXCEPT ![f] = "absent"]
  <2>1. PICK f \in Present(v) \ {"event_id", "event_type"} : e = [v EXCEPT ![f] = "absent"]
    BY <1>6
  <2>2. f \in Fields /\ f \in RequiredFields(type) /\ f \notin {"event_id", "event_type"}
    BY <1>2, <2>1
  <2>3. e \in Events
    BY <1>1, <1>4, <2>1, <2>2 DEF Events
  <2>4. e[f] = "absent" /\ \A g \in Fields : g # f => e[g] = v[g]
    BY <1>5, <2>1, <2>2
  <2>5. e.event_type = type /\ e.event_id = "text"
        /\ e.quantity \in {"whole", "absent"} /\ e.unit_price \in {"fraction", "absent"}
    BY <1>1, <2>2, <2>4 DEF Fields
  <2>6. HasErrors(e)
    BY <2>2, <2>4, <2>5 DEF HasErrors
  <2> QED
    BY <2>3, <2>5, <2>6
<1>7. CASE \E f \in Present(v) \cap {"quantity", "unit_price"} : e = [v EXCEPT ![f] = "text"]
  <2>1. PICK f \in Present(v) \cap {"quantity", "unit_price"} : e = [v EXCEPT ![f] = "text"]
    BY <1>7
  <2>2. f \in Fields /\ f \in RequiredFields(type) /\ f \in {"quantity", "unit_price"}
    BY <1>2, <2>1
  <2>3. e \in Events
    BY <1>1, <1>4, <2>1, <2>2 DEF Events
  <2>4. e[f] = "text" /\ \A g \in Fields : g # f => e[g] = v[g]
    BY <1>5, <2>1, <2>2
  <2>5. e.event_type = type /\ e.event_id = "text"
        /\ e.quantity \in {"whole", "text", "absent"} /\ e.unit_price \in {"fraction", "text", "absent"}
    BY <1>1, <2>2, <2>4 DEF Fields
  <2>6. HasErrors(e)
    BY <2>2, <2>4, <2>5 DEF HasErrors, QuantityErr, PriceErr, IntValues, FloatValues
  <2> QED
    BY <2>3, <2>5, <2>6
<1>8. CASE e = [v EXCEPT !.timestamp = "text"]
  <2>1. e \in Events
    BY <1>1, <1>4, <1>8 DEF Events
  <2>2. e.timestamp = "text" /\ \A g \in Fields : g # "timestamp" => e[g] = v[g]
    BY <1>5, <1>8 DEF Fields
  <2>3. e.event_type = type /\ e.event_id = "text"
        /\ e.quantity \in {"whole", "absent"} /\ e.unit_price \in {"fraction", "absent"}
    BY <1>1, <2>2 DEF Fields
  <2>4. HasErrors(e)
    BY <2>2 DEF HasErrors
  <2> QED
    BY <2>1, <2>3, <2>4
<1>9. CASE e = [v EXCEPT !.event_type = "OTHER"]
  <2>1. e \in Events
    BY <1>1, <1>4, <1>9 DEF Events
  <2>2. e.event_type = "OTHER" /\ \A g \in Fields : g # "event_type" => e[g] = v[g]
    BY <1>5, <1>9 DEF Fields
  <2>3. e.event_id = "text"
        /\ e.quantity \in {"whole", "absent"} /\ e.unit_price \in {"fraction", "absent"}
    BY <1>1, <2>2 DEF Fields
  <2>4. HasErrors(e)
    BY <2>2 DEF HasErrors, EventTypes
  <2> QED
    BY <2>1, <2>2, <2>3, <2>4
<1> QED
  BY <1>3, <1>6, <1>7, <1>8, <1>9

-----------------------------------------------------------------------------
(***************************************************************************)
(* The operations of the consumer on any payload.                           *)
(***************************************************************************)
Normalized(e) == [e EXCEPT !.event_type = Upper(@), !.quantity = TryInt(@), !.unit_price = TryFloat(@)]

LEMMA NormalizedType ==
    ASSUME NEW e \in Events
    PROVE  Normalized(e) \in Events
<1>1. {"PURCHASE", "whole", "nan", "infinity"} \subseteq Values
  BY DEF Values, StringValues, IntValues, FloatValues, EventTypes
<1>2. \A v \in Values : Upper(v) \in Values /\ TryInt(v) \in Values /\ TryFloat(v) \in Values
  BY <1>1 DEF Upper, TryInt, TryFloat
<1> QED
  BY <1>2 DEF Normalized, Events, Fields

(* What the generator makes, broken or not, is normal already.               *)
LEMMA GeneratedIsNormal ==
    ASSUME NEW e \in Events,
           e.event_type \in EventTypes \cup {"OTHER"},
           e.quantity \in {"whole", "text", "absent"},
           e.unit_price \in {"fraction", "text", "absent"}
    PROVE  Normalized(e) = e
<1>1. /\ Upper(e.event_type) = e.event_type
      /\ TryInt(e.quantity) = e.quantity
      /\ TryFloat(e.unit_price) = e.unit_price
  BY DEF Upper, TryInt, TryFloat, EventTypes
<1> QED
  BY <1>1 DEF Normalized, Events

(* An event that the validator passes and PostgreSQL takes is a row, and its *)
(* amounts count if it is a purchase.                                        *)
Row(e) == [f \in Fields |-> ColumnValue(f, e[f])]

LEMMA StoredIsRow ==
    ASSUME NEW e \in Events, ~HasErrors(e), \A f \in Fields : ~Refuses(f, e[f])
    PROVE  /\ Row(e) \in Rows
           /\ Row(e).event_type = "PURCHASE" =>
                 Row(e).quantity = "whole" /\ Row(e).unit_price \notin {"null", "negative"}
<1>1. \A f \in Fields : e[f] \in Values /\ Row(e)[f] = ColumnValue(f, e[f])
  BY FieldsOfEvents DEF Row
<1>2. \A f \in Fields, v \in Values : ColumnValue(f, v) \in Values
  BY DEF ColumnValue, Values, IntValues, OtherValues
<1>3. Row(e) \in Events
  BY <1>1, <1>2 DEF Row, Events
<1>4. e.event_type \in EventTypes /\ e.event_id \notin Falsy \cup {"absent"} /\ e.timestamp = "stamp"
  BY DEF HasErrors, RequiredFields
<1>5. /\ Row(e).event_type = e.event_type /\ Row(e).event_id = e.event_id
      /\ Row(e).timestamp = e.timestamp
  BY <1>1, <1>4 DEF Fields, ColumnValue, EventTypes
<1>6. Row(e).quantity \in {"null", "negative", "zero", "whole"}
  <2>1. e.quantity \in {"negative", "zero", "whole", "fraction", "tiny", "null", "absent"}
    BY <1>1 DEF Fields, Refuses, Values, IntValues, FloatValues, OtherValues
  <2> QED
    BY <1>1, <2>1 DEF Fields, ColumnValue
<1>7. Row(e).unit_price \in {"null", "negative", "zero", "whole", "fraction", "nan"}
  <2>1. e.unit_price \in {"negative", "zero", "whole", "fraction", "tiny", "nan", "null", "absent"}
    BY <1>1 DEF Fields, Refuses, Values, IntValues, FloatValues, OtherValues
  <2> QED
    BY <1>1, <2>1 DEF Fields, ColumnValue
<1>8. Row(e) \in Rows
  BY <1>3, <1>4, <1>5, <1>6, <1>7 DEF Rows, Falsy
<1>9. ASSUME Row(e).event_type = "PURCHASE"
      PROVE  Row(e).quantity = "whole" /\ Row(e).unit_price \notin {"null", "negative"}
  <2>1. "quantity" \in RequiredFields(e.event_type) /\ "unit_price" \in RequiredFields(e.event_type)
    BY <1>5, <1>9 DEF RequiredFields
  <2>2. ~QuantityErr(e.quantity) /\ ~PriceErr(e.unit_price)
    BY <2>1 DEF HasErrors
  <2>3. e.quantity = "whole"
    BY <2>2 DEF QuantityErr, IntValues, Refuses, Fields
  <2>4. e.unit_price \in {"whole", "fraction", "tiny", "nan"}
    BY <2>2 DEF PriceErr, IntValues, FloatValues, Refuses, Fields
  <2> QED
    BY <1>1, <2>3, <2>4 DEF Fields, ColumnValue
<1> QED
  BY <1>8, <1>9

-----------------------------------------------------------------------------
LEMMA InitEstablishes == Init => IInv
<1> SUFFICES ASSUME Init PROVE IInv
  OBVIOUS
<1>1. Empty \in Events
  BY DEF Empty, Events, Values
<1> QED
  BY <1>1 DEF Init, IInv, TypeOK

LEMMA GeneratorKeeps ==
    ASSUME IInv, BuildValid \/ BuildCorrupted
    PROVE  IInv'
<1>1. CASE BuildValid
  <2>1. PICK type \in EventTypes : event' = ValidEvent(type)
    BY <1>1 DEF BuildValid
  <2>2. event' \in Events
    BY <2>1, ValidFields
  <2>3. stage' = "raw" /\ origin' = "valid"
    BY <1>1 DEF BuildValid
  <2> QED
    BY <2>1, <2>2, <2>3 DEF IInv, TypeOK, Built
<1>2. CASE BuildCorrupted
  <2>1. PICK type \in EventTypes : event' \in Corrupt(ValidEvent(type))
    BY <1>2 DEF BuildCorrupted
  <2>2. event' \in Events
    BY <2>1, CorruptFields
  <2>3. stage' = "raw" /\ origin' = "corrupted"
    BY <1>2 DEF BuildCorrupted
  <2> QED
    BY <2>1, <2>2, <2>3 DEF IInv, TypeOK, Broken
<1> QED
  BY <1>1, <1>2

(* Messages whose value is no JSON object never become an event.             *)
ForeignBytes ==
    \/ ForeignMalformed \/ ForeignTombstone \/ ForeignNotObject
    \/ Deserialize \/ DeserializeRaises

LEMMA ForeignKeeps ==
    ASSUME IInv, Foreign \/ ForeignBytes
    PROVE  IInv'
<1>1. event' \in Events
  <2>1. CASE Foreign
    BY <2>1, ForeignAssumption DEF Foreign, Events, Fields
  <2>2. CASE ForeignBytes
    BY <2>2 DEF ForeignBytes, ForeignMalformed, ForeignTombstone, ForeignNotObject,
       Deserialize, DeserializeRaises, IInv, TypeOK
  <2> QED
    BY <2>1, <2>2
<1>2. origin' = "foreign" /\ stage' \in {"raw", "malformed", "tombstone", "crashed", "dlq"}
  BY DEF Foreign, ForeignBytes, ForeignMalformed, ForeignTombstone, ForeignNotObject,
         Deserialize, DeserializeRaises, IInv, TypeOK
<1> QED
  BY <1>1, <1>2 DEF IInv, TypeOK

LEMMA NormalizeKeeps ==
    ASSUME IInv, NormalizeEvent
    PROVE  IInv'
<1>1. event \in Events /\ event' = Normalized(event) /\ origin' = origin
      /\ stage = "raw" /\ stage' = "normalized"
  BY DEF NormalizeEvent, Normalized, IInv, TypeOK
<1>2. event' \in Events
  BY <1>1, NormalizedType
<1>3. CASE origin \in {"valid", "corrupted"}
  <2>1. /\ event.event_type \in EventTypes \cup {"OTHER"}
        /\ event.quantity \in {"whole", "text", "absent"}
        /\ event.unit_price \in {"fraction", "text", "absent"}
    <3>1. CASE Built
      BY <3>1, ValidFields DEF Built
    <3>2. CASE Broken
      BY <3>2, CorruptFields DEF Broken
    <3> QED
      BY <1>1, <1>3, <3>1, <3>2 DEF IInv
  <2>2. event' = event
    BY <1>1, <2>1, GeneratedIsNormal
  <2> QED
    BY <1>1, <2>2 DEF IInv, TypeOK, Built, Broken
<1>4. CASE origin \notin {"valid", "corrupted"}
  BY <1>1, <1>2, <1>4 DEF IInv, TypeOK
<1> QED
  BY <1>3, <1>4

LEMMA ValidateKeeps ==
    ASSUME IInv, ValidateEvent
    PROVE  IInv'
<1>1. /\ stage = "normalized" /\ UNCHANGED <<event, origin>>
      /\ stage' = IF HasErrors(event) THEN "dlq" ELSE "accepted"
  BY DEF ValidateEvent
<1>2. origin = "valid" => ~HasErrors(event)
  BY <1>1, ValidHasNoErrors DEF IInv, Built
<1>3. origin = "corrupted" => HasErrors(event)
  BY CorruptFields DEF IInv, Broken
<1>4. HasErrors(event)' = HasErrors(event) /\ Built' = Built /\ Broken' = Broken
  BY <1>1 DEF HasErrors, Built, Broken
<1> QED
  BY <1>1, <1>2, <1>3, <1>4 DEF IInv, TypeOK

(* Only what the generator did not make can end in an exception, or be       *)
(* refused.                                                                  *)
LEMMA ExceptionsKeep ==
    ASSUME IInv, NormalizeRaises \/ ValidateRaises \/ ContainsRaises \/ InsertRefused
    PROVE  IInv'
<1>1. UNCHANGED <<event, origin>> /\ stage' \in {"crashed", "refused"} /\ stage # "start"
  BY DEF NormalizeRaises, ValidateRaises, ContainsRaises, InsertRefused
<1>2. ASSUME Built
      PROVE  FALSE
  <2>1. PICK type \in EventTypes : event = ValidEvent(type)
    BY <1>2 DEF Built
  <2>2. /\ event.unit_price \in {"fraction", "absent"} /\ event.event_type = type
        /\ event.event_id = "text"
    BY <2>1, ValidFields
  <2>3. \A f \in Fields : ~Refuses(f, event[f])
    BY <2>1, ValidHasNoErrors
  <2> QED
    BY <2>2, <2>3
       DEF NormalizeRaises, ValidateRaises, ContainsRaises, InsertRefused, Unhashable, EventTypes
<1>3. ASSUME Broken, stage \in {"raw", "normalized"}
      PROVE  FALSE
  <2>1. /\ event.unit_price \in {"fraction", "text", "absent"}
        /\ event.event_type \in EventTypes \cup {"OTHER"}
    BY <1>3, CorruptFields DEF Broken
  <2> QED
    BY <1>3, <2>1
       DEF NormalizeRaises, ValidateRaises, ContainsRaises, InsertRefused, Unhashable, EventTypes
<1>4. origin # "valid" /\ origin # "corrupted"
  BY <1>2, <1>3
     DEF IInv, NormalizeRaises, ValidateRaises, ContainsRaises, InsertRefused
<1> QED
  BY <1>1, <1>4 DEF IInv, TypeOK

LEMMA ContainsKeeps ==
    ASSUME IInv, Contains
    PROVE  IInv'
<1>1. stage = "accepted" /\ stage' = "new" /\ UNCHANGED <<event, origin>>
  BY DEF Contains
<1>2. HasErrors(event)' = HasErrors(event) /\ Built' = Built
  BY <1>1 DEF HasErrors, Built
<1> QED
  BY <1>1, <1>2 DEF IInv, TypeOK

LEMMA InsertKeeps ==
    ASSUME IInv, InsertEvent
    PROVE  IInv'
<1>1. /\ stage = "new" /\ stage' = "stored" /\ origin' = origin
      /\ event' = Row(event) /\ event \in Events /\ ~HasErrors(event)
      /\ \A f \in Fields : ~Refuses(f, event[f])
  BY DEF InsertEvent, Row, IInv, TypeOK
<1>2. /\ event' \in Rows
      /\ event'.event_type = "PURCHASE" =>
            event'.quantity = "whole" /\ event'.unit_price \notin {"null", "negative"}
  BY <1>1, StoredIsRow
<1>3. event' \in Events
  BY <1>2 DEF Rows
<1> QED
  BY <1>1, <1>2, <1>3 DEF IInv, TypeOK

LEMMA NextKeeps == IInv /\ [Next]_vars => IInv'
<1> SUFFICES ASSUME IInv, [Next]_vars PROVE IInv'
  OBVIOUS
<1>1. CASE BuildValid \/ BuildCorrupted
  BY <1>1, GeneratorKeeps
<1>2. CASE Foreign \/ ForeignBytes
  BY <1>2, ForeignKeeps
<1>3. CASE NormalizeEvent
  BY <1>3, NormalizeKeeps
<1>4. CASE ValidateEvent
  BY <1>4, ValidateKeeps
<1>5. CASE NormalizeRaises \/ ValidateRaises \/ ContainsRaises \/ InsertRefused
  BY <1>5, ExceptionsKeep
<1>6. CASE Contains
  BY <1>6, ContainsKeeps
<1>7. CASE InsertEvent
  BY <1>7, InsertKeeps
<1>8. CASE UNCHANGED vars
  <2>1. event' = event /\ stage' = stage /\ origin' = origin
    BY <1>8 DEF vars
  <2> QED
    BY <2>1 DEF IInv, TypeOK, HasErrors, Built, Broken
<1> QED
  BY <1>1, <1>2, <1>3, <1>4, <1>5, <1>6, <1>7, <1>8 DEF Next, ForeignBytes

LEMMA Invariance == Spec => []IInv
  BY InitEstablishes, NextKeeps, PTL DEF Spec

(* Whatever is on the topic, what InsertEvent stores fits the columns of     *)
(* raw.events (02_create_tables.sql, database.py insert_event).              *)
THEOREM TypeCorrect == Spec => []TypeOK
<1>1. IInv => TypeOK
  BY DEF IInv
<1> QED
  BY <1>1, Invariance, PTL

(* Each event the generator makes gets the verdict it was made for, for      *)
(* every type and every corruption (schemas.py build_fields, _corrupt,       *)
(* REQUIRED_FIELDS, validate_event).                                         *)
THEOREM GeneratorAndValidatorAgree == Spec => []GeneratorAgrees
<1>1. IInv => GeneratorAgrees
  BY DEF IInv, GeneratorAgrees
<1> QED
  BY <1>1, Invariance, PTL

(* No payload becomes a PURCHASE row that makes a sum of sales_by_interval   *)
(* negative or null (assert_sales_by_interval_non_negative.sql).             *)
THEOREM SalesStayNonNegative == Spec => []SalesNeverNegative
<1>1. IInv => SalesNeverNegative
  BY DEF IInv, SalesNeverNegative
<1> QED
  BY <1>1, Invariance, PTL
=============================================================================
