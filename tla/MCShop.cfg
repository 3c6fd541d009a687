CONSTANTS
    p1 = p1  p2 = p2  p3 = p3
    v1 = v1  w1 = w1  v2 = v2  w2 = w2  v3 = v3
    None = None
    Products = {p1, p2, p3}
    Variants = {v1, w1, v2, w2, v3}
    ProductOf <- MCProductOf
    Imported = {v1}
    Keys = {k1}
    Creators = {r1, r2}
    Types = {"ship_ready", "pre_order"}
    Quantities = {0, 1}
    PageCap = 3
    MaxChanges = 2
    MaxFaults = 1
    Goods = {v1}
    Guests = {guest}
    Users = {user}
    Orders = {o1, o2}
    MaxUnits = 2
    MaxCrossed = 2
SPECIFICATION MCSpec
INVARIANTS AwaitingUntracked MadeOnce 
CHECK_DEADLOCK FALSE
PROPERTIES MirrorConverges
