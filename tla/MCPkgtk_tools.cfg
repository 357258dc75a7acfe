SPECIFICATION Spec
CONSTANTS
    None = None
    MaxRules = 2
    PartnerOf <- MCPartnerOf
    Full <- MCFull
    Jedec <- MCJedec
    Designator <- MCDesignator
    Canonical <- MCCanonical
    Unprefixed <- MCUnprefixed
    Rounding <- MCRounding
    Cases <- MCCases
    Seeds <- MCSeeds
    Candidates <- MCCandidates
    LayerMaps <- MCLayerMaps
    Regions <- MCRegions
INVARIANTS
    TypeOK CleanMeansSound EcoIsComplete NoPinListedTwice AgreedSheetIsTheMap
    TemplateIsMet AcceptedIsChecked GapsAreKnown FeasibleFits
PROPERTIES VerdictIsStable
\* Nobody has to use a tool again.
CHECK_DEADLOCK FALSE
