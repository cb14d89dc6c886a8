-------------------------- MODULE MCProfileManager --------------------------
(* Small instances of the profile manager.                                 *)
EXTENDS ProfileManager

CONSTANTS p1, v1

MCProfiles == {Default, p1}
MCConfigs  == {Factory, v1}
MCDelay    == 2
AnyEditor   == {"inplace", "rename"}
InPlaceOnly == {"inplace"}
=============================================================================
