SPECIFICATION Spec
CONSTANTS
    u1 = u1
    u2 = u2
    u3 = u3
    o1 = o1
    o2 = o2
    o3 = o3
    o4 = o4
    o5 = o5
    Orders = {o1, o2, o3, o4, o5}
    Users = {u1, u2, u3}
    Owner <- OwnerOf
    Side <- SideOf
    Kind <- KindOf
    Price <- PriceOf
    Quantity <- QuantityOf
    Deposits <- PaidIn
    Withdrawals <- ToWithdraw
    NoAskPrice = 100
INVARIANTS
    QueueStaysFrozen
CHECK_DEADLOCK FALSE
