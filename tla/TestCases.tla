----------------------------- MODULE TestCases -----------------------------
(***************************************************************************)
(* The queries that a validator sends to miners, curated or synthetic, and *)
(* the ground truth their answers are held against, which the generator    *)
(* computes by code of its own.                                            *)
(***************************************************************************)
EXTENDS Miner

CONSTANTS
    Industries, Regions, \* those that synthetic queries are drawn from,
    FuelTypes,
    SomeAmounts,         \* some of the amounts they draw: a set of records
    Sizes                \* and how many fields they keep

SyntheticFields ==
    {"fuel_use_liters", "fuel_type", "natural_gas_m3", "electricity_kwh", "vehicle_km",
     "employee_count", "revenue_usd", "supplier_spend_usd", "shipping_ton_km", "office_sqm"}

ASSUME CasesAssumption ==
    /\ Industries \subseteq VALID_INDUSTRIES \ {"healthcare"}
    /\ FuelTypes \subseteq {"diesel", "gasoline", "natural_gas"}
    /\ Sizes \subseteq 3..Cardinality(SyntheticFields)
    /\ \A a \in SomeAmounts : \A f \in SyntheticFields \ {"fuel_type"} : f \in DOMAIN a /\ a[f] \in Nat

\* A query that gives some of the amounts and texts.
Query(industry, region, amounts, texts) ==
    [industry |-> industry, region |-> region,
     data  |-> [f \in Amounts |-> Lookup(amounts, f, 0)],
     names |-> [f \in Texts |-> Lookup(texts, f, "")]]

CURATED_CASES ==
    LET Diesel == [fuel_type |-> "diesel"]
    IN {Query("transportation", "US",
              [fuel_use_liters |-> 1887, electricity_kwh |-> 1200, employee_count |-> 500,
               revenue_usd |-> 50000, vehicle_km |-> 2000], Diesel),
        Query("manufacturing", "RFCW",
              [natural_gas_m3 |-> 500, electricity_kwh |-> 5000, employee_count |-> 200,
               revenue_usd |-> 30000, supplier_spend_usd |-> 10000, shipping_ton_km |-> 500], <<>>),
        Query("technology", "CAMX",
              [electricity_kwh |-> 200, employee_count |-> 50, revenue_usd |-> 10000,
               supplier_spend_usd |-> 500, business_travel_usd |-> 200, office_sqm |-> 1000], <<>>),
        Query("retail", "US", [revenue_usd |-> 50000], <<>>),
        Query("transportation", "DE",
              [vehicle_km |-> 500, electricity_kwh |-> 100, employee_count |-> 30], <<>>),
        Query("financial_services", "GB",
              [electricity_kwh |-> 800, employee_count |-> 2000, revenue_usd |-> 500000,
               supplier_spend_usd |-> 15000, business_travel_usd |-> 5000, office_sqm |-> 20000], <<>>),
        Query("technology", "CAMX",
              [electricity_kwh |-> 50, rec_kwh |-> 50, employee_count |-> 10,
               revenue_usd |-> 2000, office_sqm |-> 200], <<>>),
        Query("manufacturing", "US",
              [fuel_use_liters |-> 50000, natural_gas_m3 |-> 20000, electricity_kwh |-> 200000,
               vehicle_km |-> 30000, employee_count |-> 50000, revenue_usd |-> 5000000,
               supplier_spend_usd |-> 2000000, shipping_ton_km |-> 500000, waste_kg |-> 10000,
               business_travel_usd |-> 50000], Diesel),
        Query("construction", "US",
              [fuel_use_liters |-> 200, vehicle_km |-> 800, electricity_kwh |-> 500,
               employee_count |-> 300, revenue_usd |-> 80000, supplier_spend_usd |-> 40000,
               waste_kg |-> 500, refrigerant_kg_leaked |-> 50],
              [fuel_type |-> "diesel", vehicle_type |-> "heavy_truck_diesel",
               refrigerant_type |-> "R-410A"])}

\* Fuel gets a type if none was kept.
FuelTexts(kept) ==
    IF "fuel_type" \in kept THEN {[fuel_type |-> f] : f \in FuelTypes}
    ELSE {IF "fuel_use_liters" \in kept THEN [fuel_type |-> "diesel"] ELSE <<>>}

\* Some of the queries drawn at random.
generate_synthetic_query ==
    UNION {{Query(i, r, Restrict(a, kept \ {"fuel_type"}), t) :
               i \in Industries, r \in Regions, a \in SomeAmounts, t \in FuelTexts(kept)}
           : kept \in UNION {kSubset(n, SyntheticFields) : n \in Sizes}}

\* Waste is in no case's ground truth.
compute_ground_truth(q) ==
    LET d    == q.data
        s1   == calc_stationary_combustion(FuelType(q), d.fuel_use_liters)
                  + calc_stationary_combustion("natural_gas", d.natural_gas_m3)
                  + calc_mobile_combustion(VehicleType(q), d.vehicle_km)
                  + IF q.names.refrigerant_type = "" THEN 0
                    ELSE calc_fugitive_emissions(q.names.refrigerant_type, d.refrigerant_kg_leaked)
        s2   == calc_location_based(d.electricity_kwh, q.region)
        part == [cat1_purchased_goods    |-> calc_cat1_purchased_goods(d.supplier_spend_usd, q.industry),
                 cat4_upstream_transport |-> calc_cat4_transport(d.shipping_ton_km, "road"),
                 cat6_business_travel    |-> calc_cat6_business_travel(d.employee_count, q.industry,
                                                                      d.business_travel_usd),
                 cat7_commuting          |-> calc_cat7_commuting(d.employee_count, q.region)]
        s3   == Total(fill_industry_defaults(part, q.industry, d.revenue_usd, d.employee_count))
    IN [scope1 |-> s1, scope2 |-> s2, scope3 |-> s3, total |-> s1 + s2 + s3]
=============================================================================
