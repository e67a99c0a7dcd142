\* get_system_font and the rcParams setting: the font family is the first
\* readable preferred font of the listing.  Import ends, so the run stops.
CONSTANTS
    Names <- MCNames
    Preferred <- MCPreferred
    SansSerif = SansSerif
    Unset = Unset
    MaxFonts = 4
SPECIFICATION Spec
INVARIANT FontChoiceMatchesSpec
CHECK_DEADLOCK FALSE
