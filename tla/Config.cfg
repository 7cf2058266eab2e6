SPECIFICATION Spec
CONSTANTS
    cf_options <- MCOptions
    cf_image <- MCImage
    Words <- MCWords
    Fold <- MCFold
    Base <- MCBase
    Files <- MCSequence
    MaxItems = 5
    MaxFaults = 1
INVARIANTS
    TypeOK
    UniqueLabels
    LookupMeansFile
    LookupSound
    DefaultBoots
