-------------------------- MODULE DocumentExchange --------------------------
(***************************************************************************)
(* The representations a passport leaves the service in.                   *)
(*                                                                         *)
(* The store keeps JSON documents, as its clients and its own operations   *)
(* wrote them, member after member.  The HTTP middleware turns a complete  *)
(* document into XML on request (exchange.to_xml), and an XML body into    *)
(* JSON (exchange.from_xml) before the handler sees it; partners derive    *)
(* RDF graphs from the documents they are given (exchange.to_rdf and       *)
(* mapping.json_to_rdf).  This module has the passport of one product with *)
(* its member order, the writes that touch the order or the observations,  *)
(* the answers in XML, the hand-over to the next operator's service as an  *)
(* XML body, and the graphs a partner collects from successive versions.   *)
(*                                                                         *)
(* The members of an object are a function from places to <<key, value>>   *)
(* pairs: what json.loads gives has places 1, 2, ..., a selection keeps    *)
(* the places of what it selects, and only the order of places counts.  A  *)
(* value is a record whose fields name its JSON type.  The schema nests    *)
(* values once: an array has scalars, and so has an object (mass,          *)
(* confidence), so the functions that recur in the code are written as a   *)
(* level and the one below it.  XML elements carry the JSON name, _camel   *)
(* being _pascal undone.  Left out: an array at the top level that is      *)
(* absent or empty is <<>> either way, and of the arrays those that add no *)
(* shape of their own (lifecycleEvents, sortingDecisions,                  *)
(* environmentalValues, integrity).                                        *)
(***************************************************************************)
EXTENDS Integers, Sequences, FiniteSets

CONSTANTS
  Bodies,        \* what POST /v1/dpps is given
  Carriers,      \* what POST .../carriers is given
  ProductPatches,\* the product of a PATCH
  Observations,  \* what POST .../observations is given
  RoundedUp,     \* sums at the limit that binary arithmetic puts above it
  MaxVersion,    \* bound on recordVersion, ...
  MaxEntries     \* ... and on carriers and observations, over all hand-overs

VARIABLES
  passport,  \* the document, at whoever holds the product
  reply,     \* the body of the last answer
  ordered,   \* its clients wrote their members in the order of the schema
  graph      \* what a partner collected of its observations, from every version

vars == <<passport, reply, ordered, graph>>

-----------------------------------------------------------------------------
(* JSON values.  A number has its value and the way Python writes it: 60,  *)
(* 60.0, 33.5 or 1e-05; values are in tenths.                              *)
Nothing == <<>>                  \* None
Text(s) == [string |-> s]
Number(n, form) == [number |-> n, form |-> form]
Boolean(b) == [boolean |-> b]
Time(n) == [timestamp |-> n]     \* a string like any other, kept apart by when
Array(s) == [array |-> s]
Object(members) == [object |-> members]
Is(kind, value) == kind \in DOMAIN value

Keys(members) == {members[p][1] : p \in DOMAIN members}
Value(members, key) == members[CHOOSE p \in DOMAIN members : members[p][1] = key][2]
Or(members, key, default) == IF key \in Keys(members) THEN Value(members, key) ELSE default

Last(members) ==
  IF DOMAIN members = {} THEN 0 ELSE CHOOSE p \in DOMAIN members : \A q \in DOMAIN members : q <= p

(* {**members, **patch}: a key that is there keeps its place and takes the *)
(* new value; what is new comes last.                                      *)
Merge(members, patch) ==
  LET new == {Last(members) + p : p \in {q \in DOMAIN patch : patch[q][1] \notin Keys(members)}}
  IN  [p \in DOMAIN members \cup new |->
         IF p \in new THEN patch[p - Last(members)]
         ELSE <<members[p][1], Or(patch, members[p][1], members[p][2])>>]

(* members[key] = value *)
Put(members, key, value) == Merge(members, <<<<key, value>>>>)

-----------------------------------------------------------------------------
(* A document: the members of the root that are no objects or arrays, by   *)
(* key, for nothing depends on their order; and its objects and arrays.    *)
ATTRIBUTES == {"dppId", "schemaVersion"}
ROOT_SCALARS == {"recordVersion", "status", "supersededBy", "createdAt", "updatedAt",
                 "responsibleOperatorId", "registryIdentifier", "accessPolicyVersion"}
OBJECTS == {"identity", "product"}
ARRAYS == [carriers |-> "carrier", materialObservations |-> "materialObservation", components |-> "component"]

(* canonical.canonicalise: keys in order, numbers without their form.      *)
CanonicalScalar(value) == IF Is("number", value) THEN [number |-> value.number] ELSE value
CanonicalValue(value) ==
  CASE Is("object", value) ->
         Object({<<value.object[p][1], CanonicalScalar(value.object[p][2])>> : p \in DOMAIN value.object})
    [] Is("array", value) -> Array([i \in DOMAIN value.array |-> CanonicalScalar(value.array[i])])
    [] OTHER -> CanonicalScalar(value)
CanonicalMembers(members) == {<<members[p][1], CanonicalValue(members[p][2])>> : p \in DOMAIN members}
CanonicalArray(items) == [i \in DOMAIN items |-> CanonicalMembers(items[i])]
canonicalise(document) ==
  [root |-> [key \in DOMAIN document.root |-> CanonicalScalar(document.root[key])],
   identity |-> CanonicalMembers(document.identity),
   carriers |-> CanonicalArray(document.carriers),
   product |-> CanonicalMembers(document.product),
   materialObservations |-> CanonicalArray(document.materialObservations),
   components |-> CanonicalArray(document.components)]

(* _pick and integrity_projection: what the digest covers. *)
pick(members, keys) == [p \in {q \in DOMAIN members : members[q][1] \in keys} |-> members[p]]
integrity_projection(document) ==
  [root |-> [key \in DOMAIN document.root \cap {"dppId", "recordVersion", "updatedAt"} |-> document.root[key]],
   identity |-> pick(document.identity, {"granularity", "itemId", "epc"}),
   carriers |-> <<>>,
   product |-> pick(document.product, {"articleClass", "fabricConstruction", "technicalFlags"}),
   materialObservations |->
     [i \in DOMAIN document.materialObservations |->
        pick(document.materialObservations[i],
             {"observationId", "fibreType", "percentage", "percentageBasis", "valueStatus",
              "method", "sourceOrganisationId", "observedAt"})],
   components |-> <<>>]
digest(document) == canonicalise(integrity_projection(document))

-----------------------------------------------------------------------------
(* Validation.  The conditions of the JSON Schema are met by every input   *)
(* (the assumptions below); what depends on the record is the vocabulary   *)
(* and the composition.                                                    *)
COMPOSITION_TOLERANCE == 5
Unreleased == "not-a-term"
CODED == {"articleClass", "fabricConstruction", "colourPrimary", "condition", "technicalFlags",
          "fibreType", "method", "valueStatus", "percentageBasis", "confidence", "componentType",
          "carrierType", "encodingScheme", "bindingStatus"}

Terms(value) ==
  CASE Is("array", value) -> {value.array[i] : i \in DOMAIN value.array}
    [] Is("object", value) -> {Value(value.object, "scale")}
    [] OTHER -> {value}
Released(members) ==
  \A p \in DOMAIN members : members[p][1] \in CODED => Text(Unreleased) \notin Terms(members[p][2])
validate_record(document) ==
  /\ document.root["status"] # Text(Unreleased)
  /\ Released(document.product)
  /\ \A name \in DOMAIN ARRAYS : \A i \in DOMAIN document[name] : Released(document[name][i])

Occasion(o) == [key \in {"sourceOrganisationId", "sourceSystemId", "method", "observedAt"} |-> Or(o, key, Text(""))]

(* The observations of one occasion, by their indexes.  Faulty variant:    *)
(* all that one method said is one occasion.                               *)
SetsByMethod(all) == {{j \in DOMAIN all : Value(all[j], "method") = Value(all[i], "method")} : i \in DOMAIN all}
observation_sets(all) == {{j \in DOMAIN all : Occasion(all[j]) = Occasion(all[i])} : i \in DOMAIN all}

SuppliedMass(o) == /\ Value(o, "valueStatus") = Text("supplied")
                   /\ Or(o, "percentageBasis", Text("")) = Text("mass")
Percentage(o) == Or(o, "percentage", Number(0, "int")).number

(* sum(): of weights, in their order.                                      *)
Sum(weights) ==
  LET sum[n \in 0..Len(weights)] == IF n = 0 THEN 0 ELSE sum[n - 1] + weights[n]
  IN  sum[Len(weights)]

(* The sum is one of floats, taken in the order of the array.  Python 3.11 *)
(* puts 99.9 + 0.4 + 0.2 above 100.5, later versions do not.               *)
RoundsUp(all, S) ==
  \E summands \in RoundedUp :
    /\ Len(summands) = Cardinality(S)
    /\ \A i \in S : summands[Cardinality({j \in S : j <= i})] = Percentage(all[i])
Total(all, S) ==
  Sum([i \in DOMAIN all |-> IF i \in S THEN Percentage(all[i]) ELSE 0]) + (IF RoundsUp(all, S) THEN 1 ELSE 0)

check_composition(all) ==
  \A S \in observation_sets(all) : Total(all, {i \in S : SuppliedMass(all[i])}) <= 1000 + COMPOSITION_TOLERANCE

validate_payload(document) == validate_record(document) /\ check_composition(document.materialObservations)

-----------------------------------------------------------------------------
(* JSON to XML.  An element has a tag, text and children; the text of a    *)
(* number is the number as Python writes it.                               *)
LIST_ITEMS == [technicalFlags |-> "technicalFlag", materialObservationRefs |-> "materialObservationRef"]
Leaf(tag, text) == [tag |-> tag, text |-> text, children |-> <<>>]
Node(tag, children) == [tag |-> tag, text |-> Text(""), children |-> children]

str(value) == IF Is("boolean", value) THEN Text(IF value.boolean THEN "true" ELSE "false") ELSE value

write_value(key, value) ==
  CASE Is("object", value) ->
         Node(key, [p \in DOMAIN value.object |-> Leaf(value.object[p][1], str(value.object[p][2]))])
    [] Is("array", value) -> Node(key, [i \in DOMAIN value.array |-> Leaf(LIST_ITEMS[key], str(value.array[i]))])
    [] OTHER -> Leaf(key, str(value))

WriteMembers(members) == [p \in DOMAIN members |-> write_value(members[p][1], members[p][2])]

WRITTEN == <<"recordVersion", "status", "supersededBy", "createdAt", "updatedAt", "responsibleOperatorId",
             "registryIdentifier", "accessPolicyVersion",
             "identity", "carriers", "product", "materialObservations", "components">>
IsWritten(document, name) ==
  IF name \in ROOT_SCALARS THEN name \in DOMAIN document.root ELSE name \in OBJECTS \/ DOMAIN document[name] # {}
WriteSection(document, name) ==
  CASE name \in ROOT_SCALARS -> Leaf(name, str(document.root[name]))
    [] name \in OBJECTS -> Node(name, WriteMembers(document[name]))
    [] OTHER -> Node(name, [i \in DOMAIN document[name] |-> Node(ARRAYS[name], WriteMembers(document[name][i]))])

to_xml(document) ==
  [attributes |-> [key \in ATTRIBUTES |-> document.root[key]],
   children |-> [p \in {q \in DOMAIN WRITTEN : IsWritten(document, WRITTEN[q])} |-> WriteSection(document, WRITTEN[p])]]

(* validate_xml, against dpp-1.0.0.xsd: children in the order of their     *)
(* sequence, and no exponent in a decimal.                                 *)
SCHEMA ==
  [root |-> <<"recordVersion", "status", "supersededBy", "createdAt", "updatedAt", "responsibleOperatorId",
              "registryIdentifier", "accessPolicyVersion",
              "identity", "carriers", "product", "materialObservations", "components">>,
   identity |-> <<"granularity", "modelId", "batchId", "itemId", "epc", "sampleId", "sourceRecordId">>,
   carriers |-> <<"carrierId", "carrierType", "encodingScheme", "encodedIdentifier", "resolverUri",
                  "bindingStatus", "boundAt", "boundBy", "closedAt", "placement">>,
   product |-> <<"articleClass", "fabricConstruction", "colourPrimary", "sizeDesignation", "mass",
                 "condition", "qualityGrade", "technicalFlags">>,
   materialObservations |-> <<"observationId", "fibreType", "percentage", "percentageBasis", "valueStatus",
                              "method", "sourceOrganisationId", "sourceSystemId", "observedAt",
                              "confidence", "evidenceRef">>,
   components |-> <<"componentId", "componentType", "parentComponentId", "materialObservationRefs",
                    "mass", "separable">>,
   mass |-> <<"value", "unit">>,
   confidence |-> <<"value", "scale">>]
NESTED == {"mass", "confidence"}

Follows(tags, order) ==
  \A p, q \in DOMAIN tags : p < q =>
    \E k, l \in DOMAIN order : k < l /\ order[k] = tags[p] /\ order[l] = tags[q]
Tags(elements) == [p \in DOMAIN elements |-> elements[p].tag]

Decimal(text) == Is("number", text) => text.form # "exponent"
Decimals(element) == Decimal(element.text) /\ \A p \in DOMAIN element.children : Decimal(element.children[p].text)
Accepts(name, elements) ==
  /\ Follows(Tags(elements), SCHEMA[name])
  /\ \A p \in DOMAIN elements : LET e == elements[p] IN
       Decimals(e) /\ (e.tag \in NESTED => Follows(Tags(e.children), SCHEMA[e.tag]))

valid_xml(xml) ==
  /\ Follows(Tags(xml.children), SCHEMA.root)
  /\ \A p \in DOMAIN xml.children : LET e == xml.children[p] IN
       /\ e.tag \in ROOT_SCALARS => Decimal(e.text)
       /\ e.tag \in OBJECTS => Accepts(e.tag, e.children)
       /\ e.tag \in DOMAIN ARRAYS => \A i \in DOMAIN e.children : Accepts(e.tag, e.children[i].children)

-----------------------------------------------------------------------------
(* XML to JSON. *)
INTEGER_FIELDS == {"recordVersion"}
DECIMAL_FIELDS == {"percentage", "value"}
BOOLEAN_FIELDS == {"separable"}

parse_scalar(key, text) ==
  CASE key \in INTEGER_FIELDS -> Number(text.number, "int")
    [] key \in DECIMAL_FIELDS -> Number(text.number, IF text.number % 10 = 0 THEN "int" ELSE "fraction")
    [] key \in BOOLEAN_FIELDS -> Boolean(text = Text("true"))
    [] OTHER -> text

Repeated(tags) == \E p, q \in DOMAIN tags : p # q /\ tags[p] = tags[q]
ReadLeaf(element) == parse_scalar(element.tag, element.text)
ReadArray(element) == Array([i \in DOMAIN element.children |-> ReadLeaf(element.children[i])])
ReadObject(element) ==
  Object([p \in DOMAIN element.children |-> <<element.children[p].tag, ReadLeaf(element.children[p])>>])

(* Faulty variant: only repeated children are taken for an array. *)
ReadByRepetition(element) ==
  IF DOMAIN element.children = {}
  THEN IF element.tag \in DOMAIN LIST_ITEMS THEN Array(<<>>) ELSE ReadLeaf(element)
  ELSE IF Repeated(Tags(element.children)) THEN ReadArray(element) ELSE ReadObject(element)

read_value(element) ==
  IF DOMAIN element.children = {}
  THEN IF element.tag \in DOMAIN LIST_ITEMS THEN Array(<<>>) ELSE ReadLeaf(element)
  ELSE IF element.tag \in DOMAIN LIST_ITEMS \/ Repeated(Tags(element.children))
       THEN ReadArray(element) ELSE ReadObject(element)

ReadMembers(elements) == [p \in DOMAIN elements |-> <<elements[p].tag, read_value(elements[p])>>]

Found(xml) == {xml.children[p].tag : p \in DOMAIN xml.children}
Child(xml, tag) == xml.children[CHOOSE p \in DOMAIN xml.children : xml.children[p].tag = tag]
ReadItems(xml, name) ==
  IF name \in Found(xml)
  THEN [i \in DOMAIN Child(xml, name).children |-> ReadMembers(Child(xml, name).children[i].children)]
  ELSE <<>>

from_xml(xml) ==
  [root |-> [key \in ATTRIBUTES \cup (ROOT_SCALARS \cap Found(xml)) |->
               IF key \in ATTRIBUTES THEN xml.attributes[key] ELSE ReadLeaf(Child(xml, key))],
   identity |-> ReadMembers(Child(xml, "identity").children),
   carriers |-> ReadItems(xml, "carriers"),
   product |-> ReadMembers(Child(xml, "product").children),
   materialObservations |-> ReadItems(xml, "materialObservations"),
   components |-> ReadItems(xml, "components")]

-----------------------------------------------------------------------------
(* RDF: triples.  The garment is the item; a claim hangs on the node of    *)
(* its observation.                                                        *)
PREDICATES == [fibreType |-> "fibreType", valueStatus |-> "valueStatus", method |-> "usedMethod",
               sourceOrganisationId |-> "observedBy", observedAt |-> "observedAt",
               percentage |-> "percentage", percentageBasis |-> "percentageBasis"]

ClaimsAbout(node, garment, o) ==
  {<<garment, "hasObservation", node>>}
  \cup {<<node, PREDICATES[o[p][1]], o[p][2]>> : p \in {q \in DOMAIN o : o[q][1] \in DOMAIN PREDICATES}}

(* Faulty variant: a node for each occasion. *)
ClaimsOfOccasion(garment, o) ==
  ClaimsAbout(Object(<<<<"method", Value(o, "method")>>, <<"observedAt", Value(o, "observedAt")>>>>), garment, o)

Claims(garment, o) == ClaimsAbout(Value(o, "observationId"), garment, o)

Items(items) == {items[i] : i \in DOMAIN items}
Garment(document) ==
  LET identity == document.identity
  IN  Or(identity, "itemId", Or(identity, "batchId", Value(identity, "modelId")))
About(document) ==
  LET dpp == document.root["dppId"]
  IN  {<<dpp, "recordVersion", document.root["recordVersion"]>>,
       <<dpp, "describes", Garment(document)>>,
       <<Garment(document), "articleClass", Value(document.product, "articleClass")>>}
      \cup UNION {Claims(Garment(document), o) : o \in Items(document.materialObservations)}

(* exchange.to_rdf *)
to_rdf(document) ==
  LET bindings == {{<<document.root["dppId"], "hasCarrierBinding", Value(c, "carrierId")>>,
                    <<Value(c, "carrierId"), "bindingStatus", Value(c, "bindingStatus")>>} : c \in Items(document.carriers)}
      parts == {{<<Garment(document), "hasComponent", Value(c, "componentId")>>,
                 <<Value(c, "componentId"), "componentType", Value(c, "componentType")>>} : c \in Items(document.components)}
  IN  About(document) \cup UNION (bindings \cup parts)

(* mapping.json_to_rdf, with the snapshot of the whole document, and       *)
(* rdf_to_json, which takes any snapshot it finds.                         *)
json_to_rdf(document) ==
  About(document) \cup {<<document.root["dppId"], "value", canonicalise(document)>>}
rdf_to_json(triples) == {t[3] : t \in {u \in triples : u[2] = "value"}}

-----------------------------------------------------------------------------
(* The service.  POST /v1/dpps, PATCH and GET answer with the document, in *)
(* XML only if to_xml validates; else the middleware raises when the write *)
(* is done.  The other two answer with a few members, which stay JSON.     *)
Formats == {"json", "xml"}
Reply(status, body) == [status |-> status, body |-> body]
Answer(document, accept) ==
  IF accept = "json" THEN Reply(200, Nothing)
  ELSE IF validate_payload(document) /\ valid_xml(to_xml(document)) THEN Reply(200, to_xml(document))
  ELSE Reply(500, Nothing)

Version(document) == document.root["recordVersion"].number
Overlay(root, patch) ==
  [key \in DOMAIN root \cup DOMAIN patch |-> IF key \in DOMAIN patch THEN patch[key] ELSE root[key]]
Stamped(root, n) == Overlay(root, [recordVersion |-> Number(n, "int"), updatedAt |-> Time(n)])

(* A partner adds what the graph of every version says of observations to  *)
(* what it has.                                                            *)
ClaimsIn(triples) == {t \in triples : t[2] \in {PREDICATES[key] : key \in DOMAIN PREDICATES}}
Collect(document) == graph' = graph \cup ClaimsIn(to_rdf(document)) \cup ClaimsIn(json_to_rdf(document))

Write(document, accept) ==
  IF validate_payload(document)
  THEN passport' = document /\ reply' = Answer(document, accept) /\ Collect(document)
  ELSE reply' = Reply(422, Nothing) /\ UNCHANGED <<passport, graph>>

Entries(document) == Len(document.carriers) + Len(document.materialObservations)
Update(document, accept) ==
  /\ Version(passport) < MaxVersion /\ Entries(document) <= MaxEntries
  /\ Write([document EXCEPT !.root = Stamped(@, Version(passport) + 1)], accept)

(* PassportStore.create: what the client left to the store, what it gave,  *)
(* and the store's stamp.                                                  *)
DEFAULTS == [status |-> Text("active"), accessPolicyVersion |-> Text("1.0.0"), createdAt |-> Time(1)]
Created(body) == [body EXCEPT !.root = Stamped(Overlay(DEFAULTS, @), 1)]

KeyOrder(members) == [p \in DOMAIN members |-> members[p][1]]
InSequence(name, members) ==
  /\ Follows(KeyOrder(members), SCHEMA[name])
  /\ \A p \in DOMAIN members :
       members[p][1] \in NESTED => Follows(KeyOrder(members[p][2].object), SCHEMA[members[p][1]])
InOrder(document) ==
  /\ \A name \in OBJECTS : InSequence(name, document[name])
  /\ \A name \in DOMAIN ARRAYS : \A i \in DOMAIN document[name] : InSequence(name, document[name][i])

Create(body, accept) ==
  /\ passport = Nothing
  /\ Write(Created(body), accept)
  /\ ordered' = InOrder(body)

Get(accept) ==
  /\ passport # Nothing
  /\ reply' = Answer(passport, accept)
  /\ UNCHANGED <<passport, ordered, graph>>

(* The next operator posts the XML it was given to its own service.        *)
HandOver(accept) ==
  /\ passport # Nothing /\ reply.body # Nothing
  /\ Write(Created(from_xml(reply.body)), accept)
  /\ UNCHANGED ordered

(* PATCH of the product. *)
PatchProduct(patch, accept) ==
  /\ passport # Nothing
  /\ Update([passport EXCEPT !.product = Merge(@, patch)], accept)
  /\ ordered' = (ordered /\ InSequence("product", passport'.product))

(* PassportStore.append of an observation. *)
Observe(o) ==
  /\ passport # Nothing
  /\ \A p \in Items(passport.materialObservations) : Value(p, "observationId") # Value(o, "observationId")
  /\ Update([passport EXCEPT !.materialObservations = Append(@, o)], "json")
  /\ ordered' = (ordered /\ InSequence("materialObservations", o))

(* commission_carrier writes the entry in an order of its own.  Faulty     *)
(* variant: the status closes the entry.                                   *)
EntryIn(order, carrier) ==
  [p \in {q \in DOMAIN order : order[q] \in Keys(carrier) \cup {"bindingStatus"}} |->
     <<order[p], IF order[p] = "bindingStatus" THEN Text("commissioned") ELSE Value(carrier, order[p])>>]
EntryStatusLast(carrier) ==
  EntryIn(<<"carrierId", "carrierType", "encodingScheme", "encodedIdentifier", "boundAt", "boundBy",
            "bindingStatus", "resolverUri", "placement">>, carrier)

Entry(carrier) ==
  EntryIn(<<"carrierId", "carrierType", "encodingScheme", "encodedIdentifier", "bindingStatus", "boundAt",
            "boundBy", "resolverUri", "placement">>, carrier)

Close(entry, now) ==
  IF Value(entry, "bindingStatus") # Text("commissioned") THEN entry
  ELSE Merge(entry, <<<<"bindingStatus", Text("replaced")>>, <<"closedAt", Time(now)>>>>)

Commission(carrier) ==
  /\ passport # Nothing
  /\ Update([passport EXCEPT
       !.carriers = Append([i \in DOMAIN @ |-> Close(@[i], Version(passport) + 1)], Entry(carrier)),
       !.identity = Put(@, "epc", Value(carrier, "encodedIdentifier"))], "json")
  /\ UNCHANGED ordered

Init ==
  /\ passport = Nothing
  /\ reply = Reply(0, Nothing)
  /\ ordered = TRUE
  /\ graph = {}

Next ==
  \/ \E o \in Observations : Observe(o)
  \/ \E carrier \in Carriers : Commission(carrier)
  \/ \E accept \in Formats :
       \/ \E body \in Bodies : Create(body, accept)
       \/ \E patch \in ProductPatches : PatchProduct(patch, accept)
       \/ Get(accept) \/ HandOver(accept)

Spec == Init /\ [][Next]_vars

-----------------------------------------------------------------------------
(* What the JSON Schema says of the inputs: keys it names, each once, and  *)
(* values of their types.                                                  *)
FORMS == {"int", "whole", "fraction", "exponent"}
IsText(value) ==
  IF Is("string", value) THEN value = Text(value.string) ELSE Is("timestamp", value) /\ value = Time(value.timestamp)
IsScalar(key, value) ==
  CASE key \in INTEGER_FIELDS \cup DECIMAL_FIELDS ->
         /\ Is("number", value) /\ Is("form", value) /\ value = Number(value.number, value.form)
         /\ value.number \in Int /\ value.form \in FORMS
    [] key \in BOOLEAN_FIELDS -> value \in {Boolean(TRUE), Boolean(FALSE)}
    [] OTHER -> IsText(value)

IsList(s) == Len(s) \in Nat /\ s = [i \in 1..Len(s) |-> s[i]]
InSchema(name, members) ==
  /\ \A p \in DOMAIN members : \E k \in DOMAIN SCHEMA[name] : members[p] = <<SCHEMA[name][k], members[p][2]>>
  /\ \A p, q \in DOMAIN members : members[p][1] = members[q][1] => p = q
IsValue(key, value) ==
  CASE key \in DOMAIN LIST_ITEMS ->
         /\ Is("array", value) /\ value = Array(value.array) /\ IsList(value.array)
         /\ \A i \in DOMAIN value.array : IsText(value.array[i])
    [] key \in NESTED ->
         /\ Is("object", value) /\ value = Object(value.object) /\ IsList(value.object) /\ DOMAIN value.object # {}
         /\ InSchema(key, value.object)
         /\ \A p \in DOMAIN value.object : IsScalar(value.object[p][1], value.object[p][2])
    [] OTHER -> IsScalar(key, value)
IsObject(name, members) ==
  /\ InSchema(name, members) /\ \A p \in DOMAIN members : IsValue(members[p][1], members[p][2])
IsInput(name, members) == IsList(members) /\ IsObject(name, members)

REQUIRED ==
  [carriers |-> {"bindingStatus"}, components |-> {},
   materialObservations |-> {"observationId", "valueStatus"}]
IsItem(name, members) ==
  /\ IsInput(name, members) /\ REQUIRED[name] \subseteq Keys(members)
  /\ name = "materialObservations" => \A p \in DOMAIN members : members[p][2] # Text("")

BodyAssumption ==
  \A body \in Bodies :
    /\ body = [root |-> body.root, identity |-> body.identity, carriers |-> body.carriers, product |-> body.product,
               materialObservations |-> body.materialObservations, components |-> body.components]
    /\ body.root = [key \in DOMAIN body.root |-> body.root[key]]
    /\ ATTRIBUTES \subseteq DOMAIN body.root /\ DOMAIN body.root \subseteq ATTRIBUTES \cup ROOT_SCALARS
    /\ \A key \in DOMAIN body.root : IsScalar(key, body.root[key])
    /\ \A name \in OBJECTS : IsInput(name, body[name])
    /\ \A name \in DOMAIN ARRAYS : IsList(body[name]) /\ \A i \in DOMAIN body[name] : IsItem(name, body[name][i])
ASSUME Typed ==
  /\ BodyAssumption
  /\ \A carrier \in Carriers : IsInput("carriers", carrier) /\ "encodedIdentifier" \in Keys(carrier)
  /\ \A patch \in ProductPatches : IsInput("product", patch)
  /\ \A o \in Observations : IsItem("materialObservations", o)

(* What the schema does not say: observations of a body have identifiers   *)
(* of their own, as POST .../observations sees to.                         *)
IdsAreUnique(all) ==
  \A i, j \in DOMAIN all : Value(all[i], "observationId") = Value(all[j], "observationId") => i = j
ASSUME BodyIdsAreUnique == \A body \in Bodies : IdsAreUnique(body.materialObservations)

-----------------------------------------------------------------------------
(* Properties. *)

(* What is read from the XML is the passport that was written, up to the   *)
(* order of members, the form of numbers and empty arrays at the top, over *)
(* any number of operators; its digest, which the evidence was made of,    *)
(* still fits.                                                             *)
ExchangeIsLossless ==
  reply.body # Nothing =>
    /\ canonicalise(from_xml(reply.body)) = canonicalise(passport)
    /\ digest(from_xml(reply.body)) = digest(passport)
    /\ rdf_to_json(json_to_rdf(passport)) = {canonicalise(passport)}

(* The order the XML Schema asks for is never broken by the service's own  *)
(* writes, after any history of bindings, updates and hand-overs, where    *)
(* clients keep to it; but for the members named here, which it puts last  *)
(* or after the ones that follow them.                                     *)
NoExponent(members) == \A p \in DOMAIN members : Decimals(write_value(members[p][1], members[p][2]))
Plain(document) ==
  /\ Keys(document.identity) \cap {"sampleId", "sourceRecordId"} = {}
  /\ \A c \in Items(document.carriers) : Keys(c) \cap {"resolverUri", "placement"} = {}
  /\ \A name \in OBJECTS : NoExponent(document[name])
  /\ \A name \in DOMAIN ARRAYS : \A item \in Items(document[name]) : NoExponent(item)
PlainHistoryExports ==
  passport # Nothing /\ ordered /\ Plain(passport) => valid_xml(to_xml(passport))

(* An observation is judged by its own occasion: it is accepted or refused *)
(* by what its organisation and system supplied by the same method at the  *)
(* same time, whatever the passport says from other occasions, and only    *)
(* exactly at the limit the summation has a say.                           *)
OfOwnOccasion(o, p) ==
  /\ SuppliedMass(p)
  /\ \A key \in {"sourceOrganisationId", "sourceSystemId", "method", "observedAt"} :
       (key \in Keys(o) \/ key \in Keys(p)) => (key \in Keys(o) \cap Keys(p) /\ Value(o, key) = Value(p, key))
OccasionsJudgeThemselves ==
  passport # Nothing =>
    LET all == passport.materialObservations
    IN  \A o \in {q \in Observations : SuppliedMass(q)} :
          LET total == Percentage(o) + Sum([i \in DOMAIN all |-> IF OfOwnOccasion(o, all[i]) THEN Percentage(all[i]) ELSE 0])
              accepted == check_composition(Append(all, o))
          IN  (total < 1005 => accepted) /\ (total > 1005 => ~accepted)

(* In a graph put together from several versions no claim is attributed to *)
(* another observation: two claims about one node were made by one         *)
(* observation, but for the form of numbers.                               *)
Claimed(o, t) ==
  \E key \in Keys(o) \cap DOMAIN PREDICATES :
    PREDICATES[key] = t[2] /\ CanonicalScalar(Value(o, key)) = CanonicalScalar(t[3])
ClaimsStaySeparate ==
  \A t, u \in graph : t[1] = u[1] =>
    \E o \in Items(passport.materialObservations) : Claimed(o, t) /\ Claimed(o, u)

=============================================================================
