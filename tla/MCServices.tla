----------------------------- MODULE MCServices -----------------------------
(***************************************************************************)
(* Reviews, the supply chain, questionnaires, a miner's gate and a query   *)
(* to a miner share no state that the others change, so each is checked by *)
(* itself: a behaviour is one of one of them.                              *)
(*                                                                         *)
(* The datasets are those of data/emission_factors, and of the fuel, grid  *)
(* and vehicle tables the rows that the queries reach and a few more.      *)
(***************************************************************************)
EXTENDS Reviews, SupplyChain, Questionnaires, Estimation, MinerAxon, TLC

CONSTANTS d1, d2, firm1, firm2, v1, v2, v3

VARIABLE part

vars == <<part, reviewVars, supplyVars, formVars, axonVars, estimationVars>>

\* The parts that are not looked at have one state.
NoQuery == query = Query("none", "US", <<>>, <<>>) /\ response = NoAnswer /\ mark = Unmarked

Init ==
    /\ part \in {"reviews", "supply", "questionnaires", "axon", "query"}
    /\ ReviewsInit /\ SupplyInit /\ QuestionnairesInit /\ AxonInit
    /\ IF part = "query" THEN EstimationInit ELSE NoQuery
    /\ part = "supply" \/ emissions = firm1 :> 90 @@ firm2 :> 40

Next ==
    /\ UNCHANGED part
    /\ \/ part = "reviews" /\ ReviewsNext /\ UNCHANGED <<supplyVars, formVars, axonVars, estimationVars>>
       \/ part = "supply" /\ SupplyNext /\ UNCHANGED <<reviewVars, formVars, axonVars, estimationVars>>
       \/ part = "questionnaires" /\ QuestionnairesNext
             /\ UNCHANGED <<reviewVars, supplyVars, axonVars, estimationVars>>
       \/ part = "axon" /\ AxonNext /\ UNCHANGED <<reviewVars, supplyVars, formVars, estimationVars>>
       \/ part = "query" /\ EstimationNext /\ UNCHANGED <<reviewVars, supplyVars, formVars, axonVars>>

Spec == Init /\ [][Next]_vars

\* Every part is well typed.
TypeOK ==
    /\ ReviewsTypeOK /\ SupplyTypeOK /\ QuestionnairesTypeOK /\ AxonTypeOK
    /\ part = "query" => EstimationTypeOK

-----------------------------------------------------------------------------
TwoDesks       == {d1, d2}
TwoSuppliers   == {firm1, firm2}
SomeEmissions  == {firm1 :> 90 @@ firm2 :> 40, firm1 :> 90 @@ firm2 :> NoReport}
SomeSpend      == {NoSpend, 50, 100}
ThreeCallers   == {v1, v2, v3}
AllOrTwo       == {{v1, v2, v3}, {v1, v2}}

FuelFactors == [natural_gas |-> 2040, diesel |-> 2710, gasoline |-> 2340, kerosene |-> 2570, propane |-> 1520]
VehicleFactors == [heavy_truck_diesel |-> 930, van_diesel |-> 330]
CommonRefrigerants == [R_134a |-> 1530, R_410A |-> 2088, R_22 |-> 1960]
GasPotentials == [HFC_134a |-> 1530, SF6 |-> 25200]
GridSubregions == [CAMX |-> 240, RFCE |-> 340, RFCW |-> 560]
GridStates == "IN" :> "RFCW" @@ [CA |-> "CAMX", DE |-> "RFCE"]
GridCountries == "IN" :> 720 @@
                 [US |-> 390, GB |-> 210, DE |-> 380, FR |-> 55, CN |-> 560, JP |-> 470, AU |-> 590, BR |-> 80, CA |-> 120]
GridRegions == [EU27 |-> 260]
FreightFactors == [air |-> 65, road |-> 90, sea |-> 6, rail |-> 30, inland_waterway |-> 32]
Travel == [technology |-> 2500, financial_services |-> 3000, manufacturing |-> 1200, retail |-> 500,
           healthcare |-> 1500, energy |-> 2000, global_average |-> 1500]
Commuting == "IN" :> 800 @@
             [US |-> 2400, GB |-> 1500, EU |-> 1300, JP |-> 900, CN |-> 1100, AU |-> 2200, global |-> 1500]

IndustryProfiles ==
    LET P(split, employee, million, spend, material) ==
            [split |-> split, per_employee |-> employee, per_million |-> million,
             spend_factor |-> spend, materiality |-> material]
    IN [manufacturing |-> P(<<30, 20, 50>>, 25, 120, 35,
          << <<"cat1_purchased_goods", 40>>, <<"cat2_capital_goods", 5>>, <<"cat3_fuel_energy", 5>>,
             <<"cat4_upstream_transport", 15>>, <<"cat5_waste", 3>>, <<"cat6_business_travel", 2>>,
             <<"cat7_commuting", 3>>, <<"cat9_downstream_transport", 10>>,
             <<"cat11_use_of_sold_products", 12>>, <<"cat12_end_of_life", 5>> >>),
        transportation |-> P(<<70, 3, 27>>, 40, 200, 50,
          << <<"cat1_purchased_goods", 10>>, <<"cat3_fuel_energy", 30>>, <<"cat4_upstream_transport", 15>>,
             <<"cat6_business_travel", 5>>, <<"cat7_commuting", 10>>,
             <<"cat9_downstream_transport", 20>>, <<"cat12_end_of_life", 10>> >>),
        technology |-> P(<<5, 25, 70>>, 5, 15, 15,
          << <<"cat1_purchased_goods", 20>>, <<"cat2_capital_goods", 10>>, <<"cat6_business_travel", 30>>,
             <<"cat7_commuting", 25>>, <<"cat8_upstream_leased", 5>>,
             <<"cat11_use_of_sold_products", 10>> >>),
        retail |-> P(<<10, 30, 60>>, 8, 30, 25,
          << <<"cat1_purchased_goods", 35>>, <<"cat4_upstream_transport", 15>>, <<"cat5_waste", 5>>,
             <<"cat7_commuting", 5>>, <<"cat9_downstream_transport", 15>>,
             <<"cat11_use_of_sold_products", 15>>, <<"cat12_end_of_life", 10>> >>),
        financial_services |-> P(<<3, 12, 85>>, 3, 5, 8,
          << <<"cat1_purchased_goods", 5>>, <<"cat6_business_travel", 15>>, <<"cat7_commuting", 10>>,
             <<"cat8_upstream_leased", 5>>, <<"cat15_investments", 65>> >>),
        construction |-> P(<<35, 15, 50>>, 20, 80, 45,
          << <<"cat1_purchased_goods", 50>>, <<"cat2_capital_goods", 10>>,
             <<"cat4_upstream_transport", 15>>, <<"cat5_waste", 10>>, <<"cat7_commuting", 5>>,
             <<"cat11_use_of_sold_products", 10>> >>)]

SomeIndustries == {"manufacturing", "technology"}
SomeRegions    == {"US", "IN", "FR"}
AllFuelTypes   == {"diesel", "natural_gas"}
FewAndMany     == {3, 6, 9}
OmitOrRaise    == {-10, 20}

\* The least and the most of what synthetic queries draw, and amounts of a
\* small firm with much revenue.
DrawnAmounts ==
    {[fuel_use_liters |-> 1, natural_gas_m3 |-> 1, electricity_kwh |-> 50, vehicle_km |-> 10,
      employee_count |-> 10, revenue_usd |-> 1000, supplier_spend_usd |-> 100,
      shipping_ton_km |-> 10, office_sqm |-> 100],
     [fuel_use_liters |-> 500, natural_gas_m3 |-> 200, electricity_kwh |-> 5000, vehicle_km |-> 2000,
      employee_count |-> 5000, revenue_usd |-> 100000, supplier_spend_usd |-> 20000,
      shipping_ton_km |-> 1000, office_sqm |-> 50000],
     [fuel_use_liters |-> 20, natural_gas_m3 |-> 200, electricity_kwh |-> 400, vehicle_km |-> 50,
      employee_count |-> 15, revenue_usd |-> 90000, supplier_spend_usd |-> 20000,
      shipping_ton_km |-> 900, office_sqm |-> 500]}
=============================================================================
