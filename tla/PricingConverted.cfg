CONSTANTS
    Quantities <- TwoQuantities
    Prices <- TwoPrices
    Groups <- SomeGroups
    Windows <- SomeWindows
    Days <- TwoDays
    ExchangeRates <- TwoRates
    QuantityOne = 10000
    RateOne = 100
    MinorUnit = 100
    ExchangeOne = 1000
    MaxLines = 1
SPECIFICATION Spec
CHECK_DEADLOCK FALSE
INVARIANT ConvertedOnce
