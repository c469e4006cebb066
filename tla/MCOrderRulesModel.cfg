CONSTANTS
    Wide <- MCWide
    Narrow <- MCNarrow
    GenPrices <- MCGenPrices
    GenSales <- MCGenSales
    ModSales <- MCModSales
    DeliveryCosts <- MCDeliveryCosts
    CustomFees <- MCCustomFees
    MaxItems = 4
    Foreign <- MCForeign
SPECIFICATION Spec
CHECK_DEADLOCK FALSE
INVARIANT DocumentedTotalsPass
