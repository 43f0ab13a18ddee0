------------------------------- MODULE Miner -------------------------------
(***************************************************************************)
(* What a miner of the subnet answers to a query, neurons/miner.py.        *)
(*                                                                         *)
(* A query is [industry, region, data, names]: data holds the amounts, in  *)
(* the units of EmissionFactors and 0 for what is not given, names the     *)
(* texts, with "" for what is not given.  Names come in lower case.        *)
(* Confidence and completeness are per mille, -1000 and -2000 being the    *)
(* miner's error codes.  Of sources and assumptions the answer has whether *)
(* there are any.                                                          *)
(***************************************************************************)
EXTENDS EmissionFactors, FiniteSetsExt

VALID_INDUSTRIES ==
    {"manufacturing", "transportation", "technology", "retail", "energy",
     "financial_services", "construction", "food_beverage", "healthcare"}

VALID_FUEL_TYPES ==
    {"diesel", "gasoline", "natural_gas", "propane", "fuel_oil", "kerosene", "lpg", "coal", "biomass"}

\* The amounts of a query, each with the most that the miner accepts.
ProvidedDataInput ==
    [fuel_use_liters |-> 10000, natural_gas_m3 |-> 100000, electricity_kwh |-> 1000000,
     vehicle_km |-> 100000, employee_count |-> 1000000, revenue_usd |-> 1000000000,
     supplier_spend_usd |-> 1000000000, shipping_ton_km |-> 10000000, office_sqm |-> 100000000,
     business_travel_usd |-> 1000000, waste_kg |-> 1000000, refrigerant_kg_leaked |-> 1000000,
     rec_kwh |-> 1000000]

Amounts == DOMAIN ProvidedDataInput
Texts   == {"fuel_type", "vehicle_type", "refrigerant_type"}

QuestionnaireInput(q) ==
    /\ q.industry \in VALID_INDUSTRIES
    /\ q.names.fuel_type \in VALID_FUEL_TYPES \cup {""}
    /\ \A f \in Amounts : q.data[f] \in 0..ProvidedDataInput[f]

\* model_dump fills the fields that have a default.
FuelType(q)    == IF q.names.fuel_type = "" THEN "diesel" ELSE q.names.fuel_type
VehicleType(q) == IF q.names.vehicle_type = "" THEN "heavy_truck_diesel" ELSE q.names.vehicle_type

\* How much of a complete set of data each field is, in hundredths.
FIELD_WEIGHTS ==
    LET W(fuel, type, gas, power, staff, revenue, spend, freight, office, vehicles, travel, waste) ==
            [fuel_use_liters |-> fuel, fuel_type |-> type, natural_gas_m3 |-> gas,
             electricity_kwh |-> power, employee_count |-> staff, revenue_usd |-> revenue,
             supplier_spend_usd |-> spend, shipping_ton_km |-> freight, office_sqm |-> office,
             vehicle_km |-> vehicles, business_travel_usd |-> travel, waste_kg |-> waste]
    IN [manufacturing      |-> W(15, 5, 15, 15, 5, 5, 20, 10, 2, 8, 0, 0),
        transportation     |-> W(30, 5, 3, 5, 5, 5, 10, 15, 2, 20, 0, 0),
        technology         |-> W(2, 2, 3, 20, 15, 10, 15, 3, 10, 2, 18, 0),
        retail             |-> W(5, 3, 5, 20, 5, 5, 25, 15, 7, 10, 0, 0),
        energy             |-> W(25, 5, 20, 10, 3, 5, 10, 5, 2, 5, 0, 10),
        financial_services |-> W(2, 2, 3, 20, 15, 10, 10, 1, 15, 2, 20, 0),
        construction       |-> W(25, 5, 5, 10, 5, 5, 15, 5, 2, 15, 0, 8),
        food_beverage      |-> W(10, 3, 15, 15, 5, 5, 20, 12, 2, 3, 0, 10),
        healthcare         |-> W(5, 2, 10, 20, 10, 5, 20, 0, 10, 3, 5, 10)]

\* fuel_type always counts, as it has a default.
calc_data_completeness(q) ==
    LET weights == FIELD_WEIGHTS[q.industry]
        Given   == {f \in DOMAIN weights \ {"fuel_type"} : q.data[f] > 0} \cup {"fuel_type"}
    IN (SumFunctionOnSet(weights, Given) * 1000) \div SumFunctionOnSet(weights, DOMAIN weights)

\* None, and a dictionary without keys.
NoBreakdown == [none |-> TRUE]
EmptyBreakdown == <<>>

\* The lines of a breakdown: a category has one if the data for it is given.
Line(given, value) == [given |-> given, value |-> value]

Breakdown(lines) == [c \in {k \in DOMAIN lines : lines[k].given} |-> lines[c].value]

estimate_scope1(q) ==
    LET d == q.data
    IN Breakdown([
         stationary_combustion |->
           Line(d.fuel_use_liters > 0 \/ d.natural_gas_m3 > 0,
                calc_stationary_combustion(FuelType(q), d.fuel_use_liters)
                  + calc_stationary_combustion("natural_gas", d.natural_gas_m3)),
         mobile_combustion |->
           Line(d.vehicle_km > 0, calc_mobile_combustion(VehicleType(q), d.vehicle_km)),
         fugitive_emissions |->
           Line(q.names.refrigerant_type # "" /\ d.refrigerant_kg_leaked > 0,
                calc_fugitive_emissions(q.names.refrigerant_type, d.refrigerant_kg_leaked))])

\* No query of the validator overrides the grid factor.
estimate_scope2(q) ==
    LET d == q.data
    IN Breakdown([
         location_based |-> Line(d.electricity_kwh > 0, calc_location_based(d.electricity_kwh, q.region)),
         market_based   |-> Line(d.electricity_kwh > 0,
                                 calc_market_based(d.electricity_kwh, q.region, d.rec_kwh))])

estimate_scope3(q) ==
    LET d == q.data
        own == Breakdown([
          cat1_purchased_goods |->
            Line(d.supplier_spend_usd > 0, calc_cat1_purchased_goods(d.supplier_spend_usd, q.industry)),
          cat4_upstream_transport |->
            Line(d.shipping_ton_km > 0, calc_cat4_transport(d.shipping_ton_km, "road")),
          cat5_waste |->
            Line(d.waste_kg > 0, calc_cat5_waste(d.waste_kg)),
          cat6_business_travel |->
            Line(d.business_travel_usd > 0 \/ d.employee_count > 0,
                 calc_cat6_business_travel(d.employee_count, q.industry, d.business_travel_usd)),
          cat7_commuting |->
            Line(d.employee_count > 0, calc_cat7_commuting(d.employee_count, q.region))])
    IN fill_industry_defaults(own, q.industry, d.revenue_usd, d.employee_count)

\* Wrong on purpose: takes the market-based value for scope 2.
Scope2Market(detail) == Lookup(detail, "market_based", 0)

\* The location-based value is the one that counts.
Scope2(detail) == Lookup(detail, "location_based", 0)

\* The fields that are given and are no choice of type, of 13 at most.
InputRatio(q) ==
    LET given == Cardinality({f \in Amounts : q.data[f] > 0})
                   + IF q.names.refrigerant_type = "" THEN 0 ELSE 1
    IN AtMost((given * 1000) \div 13, 1000)

estimate(q) ==
    LET detail == [scope1_detail |-> estimate_scope1(q), scope2_detail |-> estimate_scope2(q),
                   scope3_detail |-> estimate_scope3(q)]
        s1 == Total(detail.scope1_detail)
        s2 == Scope2(detail.scope2_detail)
        s3 == Total(detail.scope3_detail)
    IN [emissions   |-> [scope1 |-> s1, scope2 |-> s2, scope3 |-> s3, total |-> s1 + s2 + s3],
        breakdown   |-> detail,
        confidence  |-> (calc_data_completeness(q) * 6 + InputRatio(q) * 4) \div 10,
        sources     |-> TRUE,
        assumptions |-> TRUE]

\* The answer when the estimate raises: code is -1000 or -2000.
Failure(code) ==
    [emissions   |-> [scope1 |-> 0, scope2 |-> 0, scope3 |-> 0, total |-> 0],
     breakdown   |-> NoBreakdown,
     confidence  |-> code,
     sources     |-> FALSE,
     assumptions |-> TRUE]

forward(q) == IF QuestionnaireInput(q) THEN estimate(q) ELSE Failure(-1000)

\* What the synapse's field validators make of an answer.
CarbonSynapse(answer) ==
    [answer EXCEPT
        !.confidence = IF @ >= 0 THEN AtMost(@, 1000) ELSE @,
        !.emissions  = [k \in DOMAIN @ |-> Positive(@[k])]]
=============================================================================
