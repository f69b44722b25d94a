CONSTANTS
    ForeignTypes <- SomeTypes
    ForeignIds <- SomeIds
    ForeignStamps <- SomeStamps
    ForeignTexts <- SomeTexts
    ForeignQuantities <- AllNumbers
    ForeignPrices <- AllNumbers
SPECIFICATION Spec
INVARIANTS TypeOK GeneratorAgrees SalesNeverNegative
CHECK_DEADLOCK FALSE
