------------------------ MODULE MCDocumentExchange ------------------------
(* Small instances of DocumentExchange: the shapes of the schema, each at  *)
(* its smallest.                                                           *)
EXTENDS DocumentExchange

Scalars == [dppId |-> Text("dpp-1"), schemaVersion |-> Text("1.0.0"), responsibleOperatorId |-> Text("org-1")]

Granularity == <<<<"granularity", Text("item")>>>>
ItemId == <<<<"itemId", Text("item-1")>>>>
SourceRecordId == <<<<"sourceRecordId", Text("erp-7")>>>>

ArticleClass == <<<<"articleClass", Text("trousers")>>>>
Mass(value) == <<<<"mass", Object(<<<<"value", value>>, <<"unit", Text("g")>>>>)>>>>
Flags(tokens) == <<<<"technicalFlags", Array(tokens)>>>>

Observation(id, fibre, share, method, at) ==
  <<<<"observationId", Text(id)>>, <<"fibreType", Text(fibre)>>, <<"percentage", share>>,
    <<"percentageBasis", Text("mass")>>, <<"valueStatus", Text("supplied")>>, <<"method", Text(method)>>,
    <<"sourceOrganisationId", Text("org-1")>>, <<"observedAt", Time(at)>>>>

First == Observation("obs-1", "polyester", Number(999, "fraction"), "laboratory", 1)
Component == <<<<"componentId", Text("cmp-1")>>, <<"componentType", Text("main")>>,
               <<"materialObservationRefs", Array(<<Text("obs-1")>>)>>, <<"separable", Boolean(TRUE)>>>>

Body(identity, product, components) ==
  [root |-> Scalars, identity |-> identity, carriers |-> <<>>, product |-> product,
   materialObservations |-> <<First>>, components |-> components]

MCBodies ==
  {Body(Granularity \o ItemId, ArticleClass \o Mass(Number(2500, "whole")) \o Flags(<<>>), <<>>),
   Body(Granularity \o ItemId, ArticleClass \o Flags(<<Text("zip")>>), <<Component>>),
   Body(Granularity \o ItemId \o SourceRecordId, ArticleClass \o Flags(<<Text("zip"), Text("lining")>>), <<>>),
   Body(ItemId \o Granularity, ArticleClass, <<>>)}

Carrier(id) ==
  <<<<"carrierId", Text(id)>>, <<"carrierType", Text("uhf")>>, <<"encodingScheme", Text("sgtin")>>,
    <<"encodedIdentifier", Text(id)>>, <<"boundAt", Time(0)>>, <<"boundBy", Text("org-1")>>>>
MCCarriers == {Carrier("epc-1"), Carrier("epc-2"), <<<<"resolverUri", Text("https:")>>>> \o Carrier("epc-3"),
               Carrier("epc-4") \o <<<<"placement", Text("neck")>>>>}

MCProductPatches ==
  {<<<<"articleClass", Text("jacket")>>>>, <<<<"articleClass", Text(Unreleased)>>>>,
   <<<<"fabricConstruction", Text("knit")>>>>, Mass(Number(1, "exponent"))}

MCObservations ==
  {Observation("obs-2", "elastane", Number(4, "fraction"), "laboratory", 1),
   Observation("obs-3", "cotton", Number(2, "fraction"), "laboratory", 1),
   Observation("obs-4", "cotton", Number(7, "fraction"), "laboratory", 1),
   Observation("obs-5", "polyester", Number(934, "fraction"), "nir", 1)
     \o <<<<"confidence", Object(<<<<"value", Number(9, "fraction")>>, <<"scale", Text("unit")>>>>)>>>>,
   Observation("obs-6", "cotton", Number(410, "int"), "laboratory", 2),
   Observation("obs-7", "cotton", Number(410, "int"), "laboratory", 1) \o <<<<"sourceSystemId", Text("sys-1")>>>>}

MCRoundedUp == {<<999, 4, 2>>, <<999, 2, 4>>}

=============================================================================
