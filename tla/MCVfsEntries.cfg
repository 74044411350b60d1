SPECIFICATION Spec
CONSTANTS
    top = top
    sub = sub
    file = file
    Top = top
    Subs = {sub}
    Files = {file}
    Present <- MCPresent
    Ids = {a1, a2, a3, a4, a5, a6, a7, a8, a9, a10, a11, a12}
    Null = Null
    MaxChanges = 1
    MaxTrouble = 2
VIEW MCView
INVARIANTS
    TypeOK
    CacheTrue
    ListingWhole
\* A close may wait for a reply that does not come.
CHECK_DEADLOCK FALSE
