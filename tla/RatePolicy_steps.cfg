SPECIFICATION PolicySpec
CONSTANTS
    NotReal = NotReal
    Denormal = Denormal
    Tolerance = 0
    Ranges <- AnyRange
    Ideals <- AnyIdeal
    Bounds <- AnyBound
    Multiples <- AnyMultiple
INVARIANTS
    MultipleWhereAdmitted
    AsCloseAsAllowed
