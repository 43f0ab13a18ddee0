-------------------------- MODULE EmissionFactors --------------------------
(***************************************************************************)
(* The calculators of carbonscope.emission_factors, over datasets that are *)
(* constants here.                                                         *)
(*                                                                         *)
(* Volumes, energy, distances, spend and waste come in thousands of the    *)
(* code's units, so that every factor is a whole number of kg per unit;    *)
(* money factors are in tenths.  A result is in kg, rounded down where the *)
(* code keeps two decimals.  No dataset lacks the keys that the code would *)
(* fall back for, but for those that the operators name.                   *)
(***************************************************************************)
EXTENDS Integers, Sequences, SequencesExt, FiniteSets, Functions

CONSTANTS
    Fuels,          \* [fuel -> kg per thousand units], epa_stationary
    Vehicles,       \* [vehicle type -> kg per thousand km], epa_mobile
    Refrigerants,   \* [refrigerant -> gwp], gwp
    Gases,          \* [gas -> gwp], gwp
    Subregions,     \* [eGRID subregion -> kg per MWh]
    StateSubregion, \* [US state -> eGRID subregion]
    Countries,      \* [country -> kg per MWh], iea
    WorldRegions,   \* [regional average -> kg per MWh], iea
    WorldAverage,   \* kg per MWh, iea
    Freight,        \* [mode -> kg per thousand ton km]
    Profiles,       \* [industry -> its averages]
    TravelAverages, CommutingAverages \* kg per employee

ASSUME DatasetsAssumption ==
    /\ "diesel" \in DOMAIN Fuels /\ "heavy_truck_diesel" \in DOMAIN Vehicles
    /\ "road" \in DOMAIN Freight /\ "manufacturing" \in DOMAIN Profiles
    /\ "global_average" \in DOMAIN TravelAverages /\ "global" \in DOMAIN CommutingAverages
    /\ StateSubregion \in [DOMAIN StateSubregion -> DOMAIN Subregions]
    /\ \A table \in {Fuels, Subregions, Countries, WorldRegions} : \A k \in DOMAIN table : table[k] \in Nat \ {0}
    /\ \A table \in {Vehicles, Refrigerants, Gases, Freight, TravelAverages, CommutingAverages} :
          \A k \in DOMAIN table : table[k] \in Nat
    /\ WorldAverage \in Nat \ {0}
    /\ \A i \in DOMAIN Profiles : LET profile == Profiles[i]
                                  IN  /\ profile.split \in [1..3 -> Nat] /\ profile.spend_factor \in Nat
                                      /\ profile.per_million \in Nat /\ profile.per_employee \in Nat
                                      /\ profile.materiality \in Seq(STRING \X Nat)
                                      /\ FoldLeft(LAMBDA t, m : t + m[2], 0, profile.materiality) = 100

\* What a table holds for a key, or a default.
Lookup(table, key, default) == IF key \in DOMAIN table THEN table[key] ELSE default

\* Adds up a breakdown.
Total(detail) == SumFunction(detail)

Positive(x) == IF x > 0 THEN x ELSE 0

AtMost(x, y) == IF x < y THEN x ELSE y

get_fuel_factor(fuel) == Lookup(Fuels, fuel, Fuels["diesel"])

\* A subregion goes before a state, a state before a country: "DE" is
\* Delaware, "IN" Indiana and "CA" California.
get_grid_factor(region) ==
    IF region \in DOMAIN Subregions THEN Subregions[region]
    ELSE IF region \in DOMAIN StateSubregion THEN Subregions[StateSubregion[region]]
    ELSE IF region \in DOMAIN Countries THEN Countries[region]
    ELSE Lookup(WorldRegions, region, WorldAverage)

get_transport_factor(mode) == Lookup(Freight, mode, Freight["road"])

get_industry_profile(industry) == Lookup(Profiles, industry, Profiles["manufacturing"])

calc_stationary_combustion(fuel, quantity) == Positive(quantity) * get_fuel_factor(fuel)

\* Of the distance: nothing calls it with fuel.
calc_mobile_combustion(vehicle, distance) ==
    Positive(distance) * Lookup(Vehicles, vehicle, Vehicles["heavy_truck_diesel"])

calc_fugitive_emissions(refrigerant, leaked) ==
    Positive(leaked) * Lookup(Refrigerants, refrigerant, Lookup(Gases, refrigerant, 1530))

calc_location_based(mwh, region) == Positive(mwh) * get_grid_factor(region)

calc_market_based(mwh, region, rec) == Positive(Positive(mwh) - rec) * get_grid_factor(region)

calc_cat1_purchased_goods(spend, industry) ==
    (Positive(spend) * get_industry_profile(industry).spend_factor) \div 10

calc_cat4_transport(tkm, mode) == Positive(tkm) * get_transport_factor(mode)

calc_cat5_waste(waste) == Positive(waste) * 586

calc_cat6_business_travel(employees, industry, spend) ==
    IF spend > 0 THEN spend * 300
    ELSE Positive(employees) * Lookup(TravelAverages, industry, TravelAverages["global_average"])

calc_cat7_commuting(employees, region) ==
    Positive(employees) * Lookup(CommutingAverages, region, CommutingAverages["global"])

\* The scope 3 that revenue, or else the number of employees, lets expect.
ExpectedScope3(profile, revenue, employees) ==
    LET all == IF revenue > 0 THEN revenue * profile.per_million
               ELSE Positive(employees) * profile.per_employee * 1000
    IN (all \div 100) * profile.split[3]

\* A material category without a value takes its share of the expected
\* scope 3, while any of it is left.
Fill(detail, category, share, expected) ==
    LET value == AtMost((expected \div 100) * share, Positive(expected - Total(detail)))
    IN  IF Lookup(detail, category, 0) > 0 \/ value = 0 THEN detail
        ELSE [c \in DOMAIN detail \cup {category} |-> IF c = category THEN value ELSE detail[c]]

\* One category after the other, in the order of the dataset.
fill_industry_defaults(detail, industry, revenue, employees) ==
    LET profile   == get_industry_profile(industry)
        material  == profile.materiality
        filled[n \in 0..Len(material)] ==
            IF n = 0 THEN detail
            ELSE Fill(filled[n - 1], material[n][1], material[n][2], ExpectedScope3(profile, revenue, employees))
    IN  filled[Len(material)]
=============================================================================
